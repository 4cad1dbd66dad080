-------------------------- MODULE MCPackageRegistry --------------------------
(***************************************************************************)
(* Instances of PackageRegistry for TLC: workers and packages are           *)
(* interchangeable, nothing in the specification tells them apart.          *)
(***************************************************************************)
EXTENDS PackageRegistry, TLC

Interchangeable == Permutations(Workers) \cup Permutations(Packages)
=============================================================================
