-------------------------- MODULE MCDatasetScoring --------------------------
(***************************************************************************)
(* Every dataset of a bounded size, and every repair of one.                *)
(***************************************************************************)
EXTENDS DatasetRepair, TLC

CONSTANTS
  Shapes,       \* numbers of rows
  Columns,      \* numbers of columns
  MaxDefects    \* bound: null cells, and duplicate and out-of-range rows

Init ==
  \E r \in Shapes, c \in Columns, m \in 0..MaxDefects, d \in 0..MaxDefects,
     a \in {0, 1, 2, 4}, t \in 0..2, b \in 0..1, o \in 0..1,
     x \in {<<FALSE, FALSE>>, <<TRUE, FALSE>>, <<FALSE, TRUE>>},
     u \in {{}, {"dataset_name"}, {"owner"}, {"dataset_name", "owner"}, RequiredMetadata} :
    /\ dataset = [rows |-> r, cols |-> c, missing |-> m, duplicates |-> d, absent |-> a,
                  mistyped |-> t, blank |-> IF r = 0 THEN c ELSE b, outOfRange |-> o,
                  unknown |-> u, textAge |-> x[1], nested |-> x[2]]
    /\ Possible(dataset)

Next == Repair

Spec == Init /\ [][Next]_dataset
=============================================================================
