----------------------------- MODULE MDUAdapter -----------------------------
(***************************************************************************)
(* services/mdu_contract_adapter.py and services/mdu_client.py: what        *)
(* MASTERDB answers when it depends on MDU, a remote service that owns the  *)
(* schemas of the datasets.                                                 *)
(*                                                                          *)
(* MDU's endpoints want MDU's own id of a dataset.  The adapter asks for it *)
(* once and keeps it in a dictionary that every handler shares, that        *)
(* nothing locks, and from which nothing is ever dropped; then it asks for  *)
(* the schema.  The two calls see MDU at different times, their replies     *)
(* travel, and each of them may fail.                                       *)
(*                                                                          *)
(* This is one MDUContractAdapter with requests of every kind.  main.py     *)
(* makes two, which share nothing: one serves the /mdu routes, the other    *)
(* the lineage of knowledge objects.                                        *)
(*                                                                          *)
(* MDU itself is environment: it may register a dataset anew under another  *)
(* id, remove it, and change what it lists of its schema at any time.  It   *)
(* lists versions, in an order that nothing is assumed of: the adapter      *)
(* takes the first for the current one.                                     *)
(*                                                                          *)
(* named, moved and listed are history variables.                           *)
(***************************************************************************)
EXTENDS Naturals, FiniteSets, Sequences

CONSTANTS
  Workers,     \* threads of the pool
  Datasets,    \* canonical ids of datasets
  Direct,      \* MDU's own ids that requests name themselves
  Versions,    \* versions of schemas: what precedes the first dot, what follows it
  Locals,      \* those of them that requests declare
  Lists,       \* what MDU may list of a dataset's schema
  StartLists,  \* those of them that it lists at first
  NoVersion,   \* a record in which MDU reports no version
  NoRecord,    \* MDU's reply that it has no record
  NoJob,       \* an idle worker's job
  MaxIds,      \* bound: ids MDU gives away
  MaxChanges,  \* bound: changes of MDU's data
  MaxRestarts  \* bound: restarts of MASTERDB

ASSUME BoundsAssumption ==
  MaxIds \in Nat /\ MaxChanges \in Nat /\ MaxRestarts \in Nat
ASSUME TargetAssumption == Direct \subseteq 1..MaxIds /\ Datasets \cap 0..MaxIds = {}
ASSUME VersionAssumption ==
  /\ Locals \subseteq Versions /\ NoVersion \notin Versions
  /\ Lists \subseteq Seq(Versions \cup {NoVersion}) /\ StartLists \subseteq Lists
  /\ NoRecord \notin Lists

\* MDU's own ids; 0 stands for none.
Ids == 1..MaxIds
NoId == 0

-----------------------------------------------------------------------------
(* negotiate_version()                                                      *)

\* What precedes the first dot.
Major(version) == version[1]

Negotiate(local, remote) ==
  CASE remote = NoVersion -> "unknown"
    [] local = remote -> "exact_match"
    [] local # remote /\ remote # NoVersion ->
         IF Major(local) = Major(remote) THEN "minor_version_drift"
                                         ELSE "major_version_mismatch"

\* The version in the record at index 0.
First(list) == IF list = <<>> THEN NoVersion ELSE list[1]

-----------------------------------------------------------------------------

VARIABLES
  configured, \* MDU_BASE_URL and MDU_API_KEY are set
  canonical,  \* MDU: dataset -> the id it has now, or NoId
  schema,     \* MDU: ids it has a record of -> the list of versions
  nextId,     \* MDU: the next id it gives away
  changes,    \* MDU: changes so far
  cache,      \* _id_resolution_cache: dataset -> id, or NoId
  phase,      \* worker -> the call its handler waits for, or has a reply to
  job,        \* worker -> what its handler holds in local variables
  answer,     \* the last answer; Silence once work has begun again
  restarts,   \* restarts so far
  named,      \* dataset -> ids that MDU has had for it
  moved,      \* datasets whose id MDU has changed
  listed      \* worker -> versions listed first since its call for the schema

mduVars == <<canonical, schema, nextId, changes, named, moved>>
handlerVars == <<cache, phase, job, answer, restarts>>
vars == <<configured, mduVars, handlerVars, listed>>

\* What is asked for: the comparison of schema versions, a contract (schema or
\* provenance) by its route, or the provenance as a part of a lineage.
Kinds == {"compatibility", "contract", "lineage"}

Job == [kind : Kinds, target : Datasets \cup Direct, local : Locals \cup {NoVersion},
        id : Ids \cup {NoId}, reply : Lists \cup {NoRecord}]

Silence == [status |-> "none", verdict |-> "none", reason |-> "none"]

\* MDU has given away ids 1, 2, ... to some of the datasets.
Init ==
  /\ configured \in BOOLEAN
  /\ canonical \in [Datasets -> Ids \cup {NoId}]
  /\ nextId \in 1..(MaxIds + 1)
  /\ \A d, e \in Datasets : canonical[d] = canonical[e] => d = e \/ canonical[d] = NoId
  /\ {canonical[d] : d \in Datasets} \ {NoId} = 1..(nextId - 1)
  /\ schema \in [1..(nextId - 1) -> StartLists]
  /\ changes = 0
  /\ cache = [d \in Datasets |-> NoId]
  /\ phase = [w \in Workers |-> "idle"]
  /\ job = [w \in Workers |-> NoJob]
  /\ answer = Silence
  /\ restarts = 0
  /\ named = [d \in Datasets |-> {canonical[d]} \ {NoId}]
  /\ moved = {}
  /\ listed = [w \in Workers |-> {}]

-----------------------------------------------------------------------------
(* MDU                                                                      *)

Change == changes < MaxChanges /\ changes' = changes + 1

\* d gets a new id; the record under its old one is kept or dropped.
MDURegisters(d) ==
  /\ Change
  /\ nextId \in Ids
  /\ nextId' = nextId + 1
  /\ canonical' = [canonical EXCEPT ![d] = nextId]
  /\ \E list \in Lists, keep \in BOOLEAN :
       LET kept == IF keep THEN DOMAIN schema ELSE DOMAIN schema \ {canonical[d]} IN
       schema' = [i \in kept \cup {nextId} |-> IF i = nextId THEN list ELSE schema[i]]
  /\ named' = [named EXCEPT ![d] = @ \cup {nextId}]
  /\ moved' = moved \cup {d}
  /\ UNCHANGED <<configured, handlerVars, listed>>

MDURemoves(d) ==
  /\ Change
  /\ canonical[d] # NoId
  /\ canonical' = [canonical EXCEPT ![d] = NoId]
  /\ schema' = [i \in DOMAIN schema \ {canonical[d]} |-> schema[i]]
  /\ moved' = moved \cup {d}
  /\ UNCHANGED <<configured, nextId, named, handlerVars, listed>>

\* MDU's own id, now, of what w asks about.
Asked(w) == IF job[w].target \in Datasets THEN canonical[job[w].target] ELSE job[w].target

\* A new list for the record i: a version more, or any other list.
MDUChangesSchema(i) ==
  /\ Change
  /\ \E list \in Lists :
       /\ schema' = [schema EXCEPT ![i] = list]
       /\ listed' = [w \in Workers |->
            IF phase[w] = "fetching" /\ Asked(w) = i THEN listed[w] \cup {First(list)}
                                                    ELSE listed[w]]
  /\ UNCHANGED <<configured, canonical, nextId, named, moved, handlerVars>>

-----------------------------------------------------------------------------
(* Answers                                                                  *)

\* The handler ends.
Answers(w, status, verdict, reason) ==
  /\ phase' = [phase EXCEPT ![w] = "idle"]
  /\ job' = [job EXCEPT ![w] = NoJob]
  /\ answer' = [status |-> status, verdict |-> verdict, reason |-> reason]
  /\ listed' = [listed EXCEPT ![w] = {}]
  /\ UNCHANGED <<configured, mduVars, cache, restarts>>

\* MDUUnavailableError: a comparison falls back to the placeholder, a lineage
\* does without, the other routes answer 502.
Unavailable(w, kind, reason) ==
  CASE kind = "compatibility" -> Answers(w, "200", "placeholder", reason)
    [] kind = "lineage"       -> Answers(w, "200", "unavailable", reason)
    [] OTHER                  -> Answers(w, "502", "none", reason)

\* Any other exception, which only lineage() catches.
Broken(w, kind) ==
  IF kind = "lineage" THEN Answers(w, "200", "unavailable", "broken")
                      ELSE Answers(w, "500", "none", "broken")

-----------------------------------------------------------------------------
(* The handlers                                                             *)

\* A target is MDU's own id, which needs no resolution, or a dataset, which
\* may be in the cache.
Resolved(target) == IF target \in Datasets THEN cache[target] ELSE target

\* What MDU lists first now under its own id i.
Listed(i) == IF i \in DOMAIN schema THEN {First(schema[i])} ELSE {}

Begin(w, kind, target, local) ==
  /\ phase[w] = "idle"
  /\ IF ~configured
       THEN Unavailable(w, kind, "unconfigured")
       ELSE LET id == Resolved(target) IN
            /\ phase' = [phase EXCEPT ![w] = IF id = NoId THEN "resolving" ELSE "fetching"]
            /\ job' = [job EXCEPT ![w] = [kind |-> kind, target |-> target, local |-> local,
                                          id |-> id, reply |-> NoRecord]]
            /\ listed' = [listed EXCEPT ![w] =
                 IF id = NoId THEN {}
                 ELSE Listed(IF target \in Datasets THEN canonical[target] ELSE target)]
            /\ answer' = Silence
            /\ UNCHANGED <<configured, mduVars, cache, restarts>>

\* get_canonical_dataset(): MDU replies with the id, or that there is none.
MDUNames(w) ==
  /\ phase[w] = "resolving"
  /\ phase' = [phase EXCEPT ![w] = "named"]
  /\ job' = [job EXCEPT ![w].id = canonical[job[w].target]]
  /\ answer' = Silence
  /\ UNCHANGED <<configured, mduVars, cache, restarts, listed>>

\* The handler puts the id it has got into the dictionary, under name, and
\* asks for the schema or the provenance.
Keeps(w, name) ==
  /\ cache' = [cache EXCEPT ![name] = job[w].id]
  /\ phase' = [phase EXCEPT ![w] = "fetching"]
  /\ listed' = [listed EXCEPT ![w] = Listed(Asked(w))]
  /\ answer' = Silence
  /\ UNCHANGED <<configured, mduVars, job, restarts>>

\* Mutant: the id is kept under the name of any dataset.
CacheUnderAny(w) ==
  /\ phase[w] = "named"
  /\ IF job[w].id = NoId THEN Unavailable(w, job[w].kind, "refused")
                         ELSE \E d \in Datasets : Keeps(w, d)

\* MDU's reply to the first call: no id, or the id that is kept.
Cache(w) ==
  /\ phase[w] = "named"
  /\ IF job[w].id = NoId THEN Unavailable(w, job[w].kind, "refused")
                         ELSE Keeps(w, job[w].target)

\* get_dataset_schema() or get_dataset_provenance(): MDU replies with its
\* list, or that it has no record under this id.
MDUReports(w) ==
  LET id == job[w].id IN
  /\ phase[w] = "fetching"
  /\ phase' = [phase EXCEPT ![w] = "reported"]
  /\ job' = [job EXCEPT ![w].reply = IF id \in DOMAIN schema THEN schema[id] ELSE NoRecord]
  /\ answer' = Silence
  /\ UNCHANGED <<configured, mduVars, cache, restarts, listed>>

\* Mutant: the list is taken to begin with the oldest version.
ReportLast(kind, local, list) ==
  IF kind # "compatibility" THEN "live"
  ELSE Negotiate(local, IF list = <<>> THEN NoVersion ELSE list[Len(list)])

\* What the handler makes of the list: its verdict, or MDU's own words.
Report(kind, local, list) ==
  IF kind = "compatibility" THEN Negotiate(local, First(list)) ELSE "live"

\* MDU's reply to the second call: no record, or the list that is judged.
Judge(w) ==
  /\ phase[w] = "reported"
  /\ IF job[w].reply = NoRecord
       THEN Unavailable(w, job[w].kind, "refused")
       ELSE Answers(w, "200", Report(job[w].kind, job[w].local, job[w].reply), "ok")

Calling(w) == phase[w] \in {"resolving", "fetching"}

\* Mutant: only the first call has a timeout.
CallFailsAtFirst(w) ==
  /\ phase[w] = "resolving"
  /\ Unavailable(w, job[w].kind, "failed")

\* httpx.HTTPError: MDU cannot be reached, answers with an error, or not in time.
CallFails(w) ==
  /\ Calling(w)
  /\ Unavailable(w, job[w].kind, "failed")

\* MDU answers something that is not the JSON expected of it, as an error
\* page or a list of texts.
CallBreaks(w) ==
  /\ Calling(w)
  /\ Broken(w, job[w].kind)

-----------------------------------------------------------------------------

\* MASTERDB is started again, with an empty cache.  (Before anything is
\* cached, that changes nothing.)
Restart ==
  /\ \E d \in Datasets : cache[d] # NoId
  /\ restarts < MaxRestarts
  /\ restarts' = restarts + 1
  /\ cache' = [d \in Datasets |-> NoId]
  /\ phase' = [w \in Workers |-> "idle"]
  /\ job' = [w \in Workers |-> NoJob]
  /\ answer' = Silence
  /\ listed' = [w \in Workers |-> {}]
  /\ UNCHANGED <<configured, mduVars>>

MDU ==
  \/ \E d \in Datasets : MDURegisters(d) \/ MDURemoves(d)
  \/ \E i \in DOMAIN schema : MDUChangesSchema(i)

Request(w) ==
  \E kind \in Kinds, target \in Datasets \cup Direct, local \in Locals :
    Begin(w, kind, target, IF kind = "compatibility" THEN local ELSE NoVersion)

Next ==
  \/ MDU
  \/ \E w \in Workers :
       \/ Request(w) \/ MDUNames(w) \/ Cache(w) \/ MDUReports(w) \/ Judge(w)
       \/ CallFails(w) \/ CallBreaks(w)
  \/ Restart

Spec == Init /\ [][Next]_vars

\* The thread goes on with a reply, and the client gives up on a silent MDU:
\* no part of a reply within ten seconds.  So MDU need not reply; but a reply
\* that it begins must come to its end, for the client's limit is on each
\* read and not on the call.
FairSpec ==
  Spec /\ \A w \in Workers :
            WF_vars(Cache(w)) /\ WF_vars(Judge(w)) /\ WF_vars(CallFails(w))

-----------------------------------------------------------------------------
(* Properties                                                               *)

\* The types of the variables.
TypeOK ==
  /\ configured \in BOOLEAN
  /\ canonical \in [Datasets -> Ids \cup {NoId}]
  /\ DOMAIN schema \subseteq Ids /\ \A i \in DOMAIN schema : schema[i] \in Lists
  /\ nextId \in 1..(MaxIds + 1) /\ changes \in Nat
  /\ cache \in [Datasets -> Ids \cup {NoId}]
  /\ phase \in [Workers -> {"idle", "resolving", "named", "fetching", "reported"}]
  /\ job \in [Workers -> Job \cup {NoJob}]
  /\ \A w \in Workers : phase[w] # "idle" => job[w] \in Job
  /\ restarts \in Nat
  /\ named \in [Datasets -> SUBSET Ids] /\ moved \subseteq Datasets
  /\ listed \in [Workers -> SUBSET (Versions \cup {NoVersion})]

\* The cache is stale only by MDU's doing: whatever handlers resolve the same
\* or different datasets at once, a cached id is one that MDU has had for that
\* dataset, for no other one, and the present one if MDU never changed it.
CacheIsMDUs ==
  \A d \in Datasets :
    cache[d] # NoId =>
      /\ cache[d] \in named[d]
      /\ \A e \in Datasets \ {d} : cache[d] \notin named[e]
      /\ d \notin moved => cache[d] = canonical[d]

\* The step answers a comparison of w with what MDU said, and MDU has never
\* changed the id of the dataset.
AnswersComparison(w) ==
  /\ phase[w] # "idle" /\ phase'[w] = "idle" /\ answer'.reason \in {"ok", "refused"}
  /\ job[w].kind = "compatibility"
  /\ job[w].target \in Datasets \ moved /\ canonical[job[w].target] # NoId

\* A comparison that MDU answered is on what MDU said in answer to it: unless
\* MDU has changed the id of the dataset, the verdict is that on a version
\* which MDU listed first for this dataset after the handler had called for
\* the schema, however often it changed the list since the id was cached.  (It
\* may have changed it again while the reply was on its way; and whether the
\* first version listed is the current one is for MDU to say.)  In particular
\* no package passes by the placeholder when MDU knows its dataset and answers.
VerdictIsExact ==
  [][\A w \in Workers : AnswersComparison(w) =>
       \E v \in listed[w] : answer'.verdict = Negotiate(job[w].local, v)]_vars

\* Every request is answered, although MDU may stay silent for ever and the
\* calls of other handlers may fail or break at any point.
EveryRequestIsAnswered ==
  \A w \in Workers : phase[w] # "idle" ~> phase[w] = "idle"
=============================================================================
