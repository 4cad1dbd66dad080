--------------------------- MODULE MCCertification ---------------------------
(***************************************************************************)
(* Instances of Certification for TLC, with four datasets: one that is      *)
(* certified, one that passes verification and then fails, one that fails   *)
(* verification, and one whose validation raises.                           *)
(***************************************************************************)
EXTENDS Certification, TLC

Clean ==
  [rows |-> 4, cols |-> 4, missing |-> 0, duplicates |-> 0, absent |-> 0, mistyped |-> 0,
   blank |-> 0, outOfRange |-> 0, unknown |-> {}, textAge |-> FALSE, nested |-> FALSE]
Gappy == [Clean EXCEPT !.missing = 1]
Unsourced == [Clean EXCEPT !.unknown = {"source", "license"}]
Textual == [Clean EXCEPT !.mistyped = 1, !.textAge = TRUE]

CleanAndGappy == {Clean, Gappy}
AllFour == {Clean, Gappy, Unsourced, Textual}

Interchangeable == Permutations(Workers) \cup Permutations(Ids)
=============================================================================
