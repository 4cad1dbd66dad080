------------------------ MODULE MCCanonicalRepository ------------------------
(***************************************************************************)
(* Instances of CanonicalRepository for TLC.                                *)
(***************************************************************************)
EXTENDS CanonicalRepository, TLC

Interchangeable ==
  Permutations(Workers) \cup Permutations(Docs) \cup Permutations(Contents)
=============================================================================
