------------------------- MODULE MCKnowledgeLineage -------------------------
(***************************************************************************)
(* Instances of KnowledgeLineage for TLC.                                   *)
(***************************************************************************)
EXTENDS KnowledgeLineage, TLC

Interchangeable == Permutations(Workers)
=============================================================================
