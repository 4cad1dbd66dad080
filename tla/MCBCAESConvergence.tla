-------------------------- MODULE MCBCAESConvergence --------------------------
(***************************************************************************)
(* Instances of BCAESConvergence for TLC.                                   *)
(***************************************************************************)
EXTENDS BCAESConvergence, TLC

Interchangeable ==
  Permutations(Workers) \cup Permutations(Ids) \cup Permutations(Details)
    \cup Permutations(Dimensions)
=============================================================================
