--------------------------- MODULE BCAESConvergence ---------------------------
(***************************************************************************)
(* bcaes_registry/convergence_store.py and snapshot.py, over the objects of *)
(* BCAESRegistry.                                                           *)
(*                                                                          *)
(* A convergence record holds one status for each dimension; each dimension *)
(* belongs to another team, which patches its own.                          *)
(*                                                                          *)
(*   upsert    look the object up -> copy its record -> replace the record  *)
(*   snapshot  read the records -> look over all objects                    *)
(***************************************************************************)
EXTENDS BCAESRegistry

CONSTANTS
  Dimensions,  \* fields of a convergence record
  Statuses,    \* their values
  NotStarted   \* the default of each

ASSUME NotStartedAssumption == NotStarted \in Statuses

VARIABLES
  records,   \* id -> convergence record or Absent
  patched,   \* history: id -> what upserts one after the other would give
  raced      \* history: ids with overlapping upserts

convergenceVars == <<records, patched, raced>>
vars == <<registryVars, convergenceVars>>

-----------------------------------------------------------------------------

Record == [Dimensions -> Statuses]
Patch == [Dimensions -> Statuses \cup {Keep}]
Upsert == [id : Ids, patch : Patch, base : Record \cup {Absent}]
Snapshot == [id : {Absent}, tracked : SUBSET Ids, seen : SUBSET Ids, todo : SUBSET Ids]

\* Mutant: fields that are not in the request take their defaults.
MergedWithDefaults(record, patch) ==
  [f \in Dimensions |-> IF patch[f] # Keep THEN patch[f] ELSE NotStarted]

\* The merge of a request into a record, or into a new one.
Merged(record, patch) ==
  [f \in Dimensions |-> IF patch[f] # Keep THEN patch[f]
                        ELSE IF record = Absent THEN NotStarted ELSE record[f]]

UpsertersOf(i) == {w \in Workers : phase[w] \in {"patching", "merging"} /\ job[w].id = i}

Init ==
  /\ RegistryInit
  /\ records = [i \in Ids |-> Absent]
  /\ patched = [i \in Ids |-> Absent]
  /\ raced = {}

registryRest == <<objects, deleted, promised, disturbed, changed>>

-----------------------------------------------------------------------------
(* upsert()                                                                 *)

\* Mutant: nobody asks whether the object is registered.
UpsertBeginUnchecked(w, i, patch) ==
  /\ Start(w, "patching", [id |-> i, patch |-> patch, base |-> Absent])
  /\ CountRequest
  /\ raced' = IF UpsertersOf(i) # {} THEN raced \cup {i} ELSE raced
  /\ UNCHANGED <<registryRest, records, patched>>

\* The object is registered, or else 404.
UpsertBegin(w, i, patch) ==
  /\ objects[i] # Absent
  /\ Start(w, "patching", [id |-> i, patch |-> patch, base |-> Absent])
  /\ CountRequest
  /\ raced' = IF UpsertersOf(i) # {} THEN raced \cup {i} ELSE raced
  /\ UNCHANGED <<registryRest, records, patched>>

UpsertCopy(w) ==
  /\ phase[w] = "patching"
  /\ phase' = [phase EXCEPT ![w] = "merging"]
  /\ job' = [job EXCEPT ![w].base = records[job[w].id]]
  /\ UNCHANGED <<registryRest, requests, convergenceVars>>

UpsertSave(w) ==
  LET j == job[w] IN
  /\ phase[w] = "merging"
  /\ Finish(w)
  /\ records' = [records EXCEPT ![j.id] = Merged(j.base, j.patch)]
  /\ patched' = [patched EXCEPT ![j.id] = [f \in Dimensions |->
       IF j.patch[f] # Keep THEN j.patch[f] ELSE IF @ = Absent THEN NotStarted ELSE @[f]]]
  /\ UNCHANGED <<registryRest, requests, raced>>

-----------------------------------------------------------------------------
(* generate_snapshot()                                                      *)

\* The ids of all_records().
Tracked == {i \in Ids : records[i] # Absent}

SnapshotBegin(w) ==
  /\ Start(w, "counting",
           [id |-> Absent, tracked |-> Tracked, seen |-> {}, todo |-> Ids])
  /\ UNCHANGED <<registryRest, requests, convergenceVars>>

\* Mutant: the records are read again after the objects.
SnapshotObjectLate(w) ==
  /\ phase[w] = "counting"
  /\ \E i \in job[w].todo :
       job' = [job EXCEPT ![w].todo = @ \ {i}, ![w].tracked = Tracked,
                          ![w].seen = IF objects[i] = Absent THEN @ ELSE @ \cup {i}]
  /\ UNCHANGED <<phase, registryRest, requests, convergenceVars>>

\* all_objects() goes through the registries; others may come in between.
SnapshotObject(w) ==
  /\ phase[w] = "counting"
  /\ \E i \in job[w].todo :
       job' = [job EXCEPT ![w].todo = @ \ {i},
                          ![w].seen = IF objects[i] = Absent THEN @ ELSE @ \cup {i}]
  /\ UNCHANGED <<phase, registryRest, requests, convergenceVars>>

\* The snapshot is returned.
SnapshotEnd(w) ==
  /\ phase[w] = "counting"
  /\ job[w].todo = {}
  /\ Finish(w)
  /\ changed' = changed \ {w}
  /\ UNCHANGED <<objects, requests, deleted, promised, disturbed, convergenceVars>>

\* A dictionary has changed its size under the loop: RuntimeError, 500.
SnapshotFails(w) ==
  /\ phase[w] = "counting"
  /\ w \in changed
  /\ Finish(w)
  /\ changed' = changed \ {w}
  /\ UNCHANGED <<objects, requests, deleted, promised, disturbed, convergenceVars>>

-----------------------------------------------------------------------------

ConvergenceRequest(w) ==
  \/ \E i \in Ids, patch \in Patch : UpsertBegin(w, i, patch)
  \/ SnapshotBegin(w)

ConvergenceStep(w) ==
  \/ UpsertCopy(w) \/ UpsertSave(w)
  \/ SnapshotObject(w) \/ SnapshotEnd(w) \/ SnapshotFails(w)

Next ==
  \E w \in Workers :
    \/ (RegistryRequest(w) \/ RegistryStep(w)) /\ UNCHANGED convergenceVars
    \/ ConvergenceRequest(w) \/ ConvergenceStep(w)

Spec == Init /\ [][Next]_vars

-----------------------------------------------------------------------------
(* Properties                                                               *)

\* The types of the variables.
TypeOK ==
  /\ RegistryTypeOK
  /\ phase \in [Workers -> {"idle", "checking", "checked", "deleting", "entering",
                            "walking", "patching", "merging", "counting"}]
  /\ \A w \in Workers :
       /\ phase[w] \in {"patching", "merging"} => job[w] \in Upsert
       /\ phase[w] = "counting" => job[w] \in Snapshot
  /\ records \in [Ids -> Record \cup {Absent}]
  /\ patched \in [Ids -> Record \cup {Absent}]
  /\ raced \subseteq Ids

\* A record whose upserts never overlapped is what they give one after the
\* other: a patch of one dimension resets no other.
UnracedRecordIsExact == \A i \in Ids \ raced : records[i] = patched[i]

\* Convergence is only declared for what is, or once was, registered.
RecordsOfRegistered == \A i \in Tracked : objects[i] # Absent \/ i \in deleted

\* Snapshots add up: as long as nothing is deleted, what has a convergence
\* record and what has none are together what is registered, although records
\* and objects are read one after the other and change meanwhile.
SnapshotAddsUp ==
  \A w \in Workers :
    phase[w] = "counting" /\ job[w].todo = {} /\ deleted = {} =>
      Cardinality(job[w].tracked) + Cardinality(job[w].seen \ job[w].tracked)
        = Cardinality(job[w].seen)
=============================================================================
