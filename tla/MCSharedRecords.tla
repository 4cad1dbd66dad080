--------------------------- MODULE MCSharedRecords ---------------------------
(***************************************************************************)
(* Instances of SharedRecords for TLC.                                      *)
(***************************************************************************)
EXTENDS SharedRecords, TLC

Interchangeable == Permutations(Workers)
=============================================================================
