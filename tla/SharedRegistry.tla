--------------------------- MODULE SharedRegistry ---------------------------
(***************************************************************************)
(* What the shared record stores promise: cells that are registered once,   *)
(* updated by replacing the payload, and never changed after deprecation.   *)
(* Each operation is atomic, and builds on the record everybody sees.       *)
(*                                                                          *)
(* The promise is for records whose mutations take turns, on a process that *)
(* does not die half-way through a save; of a disturbed record this module  *)
(* says nothing.                                                            *)
(***************************************************************************)
EXTENDS SharedRules

CONSTANTS
  TxnIds,    \* transition ids
  NoRecord,  \* no record under this id
  Disturbed  \* a record of which nothing is promised

VARIABLE cells   \* record id -> SharedRecord, NoRecord or Disturbed

RegistryInit == cells = [r \in Records |-> NoRecord]

AtomicRegister(r) ==
  /\ cells[r] = NoRecord
  /\ \E id \in TxnIds, x \in PayloadsOf(r) :
       cells' = [cells EXCEPT ![r] = Registered(id, x)]

\* A record that can still be changed.
Live(r) == cells[r] \notin {NoRecord, Disturbed} /\ ~cells[r].deprecated

AtomicUpdate(r) ==
  /\ Live(r)
  /\ \E id \in TxnIds, x \in PayloadsOf(r) :
       /\ Newest(cells[r]).id < id
       /\ cells' = [cells EXCEPT ![r] = Updated(@, id, x)]

AtomicDeprecate(r) ==
  /\ Live(r)
  /\ \E id \in TxnIds :
       /\ Newest(cells[r]).id < id
       /\ cells' = [cells EXCEPT ![r] = DeprecatedOf(@, id)]

Disturb ==
  /\ cells' \in [Records -> {cells'[r] : r \in Records}]
  /\ \A r \in Records : cells'[r] \in {cells[r], Disturbed}

RegistryNext ==
  Disturb \/ \E r \in Records : AtomicRegister(r) \/ AtomicUpdate(r) \/ AtomicDeprecate(r)

RegistrySpec == RegistryInit /\ [][RegistryNext]_cells
=============================================================================
