---------------------------- MODULE SharedRecords ----------------------------
(***************************************************************************)
(* services/shared_record_store.py and shared_dependency_resolver.py behind *)
(* the /shared routes of main.py.                                           *)
(*                                                                          *)
(* Six stores share one engine.  Two kinds matter here: the identity store, *)
(* and the stores whose payloads may point to an identity.  Handlers run    *)
(* unlocked, as in PackageRegistry; but a record id is chosen by the        *)
(* caller, so that two registrations can be for one record.                 *)
(*                                                                          *)
(*   register, update, deprecate   load and check -> Open -> Flush          *)
(*   resolve                       read the record -> read the identity     *)
(***************************************************************************)
EXTENDS ArtifactStore, SharedRules

CONSTANTS
  Workers,    \* threads of the pool
  NoJob,      \* an idle worker's job
  MaxTxn,     \* bound: transitions built
  MaxCrashes  \* bound: crashes

ASSUME MaxTxnAssumption == MaxTxn \in Nat
ASSUME SentinelAssumption == (NotAText \cup {NoJob}) \cap SharedRecord = {}

VARIABLES
  files,      \* record id -> file of its store
  phase,      \* worker -> how far its handler has come
  job,        \* worker -> what its handler holds in local variables
  answer,     \* the last answer given to a client
  nextTxn,    \* id of the next transition
  crashes,    \* crashes so far
  acked,      \* history: record id -> transitions answered with 200
  soloAcked,  \* history: those whose handler overlapped no other mutation
  disturbed   \* history: records with overlapping mutations or a cut-short save

storeVars == <<files, nextTxn, crashes>>
ghostVars == <<acked, soloAcked, disturbed>>
vars == <<storeVars, phase, job, answer, ghostVars>>

-----------------------------------------------------------------------------

\* base is what the handler read, rec what it is about to save, or for a
\* resolve() the record it read.
Job == [id : Records, base : SharedRecord \cup {Absent}, rec : SharedRecord, solo : BOOLEAN]

MutatorsOf(r) == {w \in Workers : phase[w] \in {"loaded", "opened"} /\ job[w].id = r}
Busy(r) == MutatorsOf(r) # {}

Init ==
  /\ files = [r \in Records |-> NoFile]
  /\ phase = [w \in Workers |-> "idle"]
  /\ job = [w \in Workers |-> NoJob]
  /\ answer = "none"
  /\ nextTxn = 1 /\ crashes = 0
  /\ acked = [r \in Records |-> {}]
  /\ soloAcked = [r \in Records |-> {}]
  /\ disturbed = {}

\* A handler that returns at once, with nothing saved.
AnswerNow(w, status) ==
  /\ phase[w] = "idle"
  /\ answer' = status
  /\ UNCHANGED <<storeVars, phase, job, ghostVars>>

\* The handler has built rec from base and goes on to save it.
Begin(w, r, base, rec) ==
  /\ phase[w] = "idle" /\ nextTxn <= MaxTxn
  /\ nextTxn' = nextTxn + 1
  /\ phase' = [phase EXCEPT ![w] = "loaded"]
  /\ job' = [v \in Workers |->
               IF v = w THEN [id |-> r, base |-> base, rec |-> rec, solo |-> ~Busy(r)]
               ELSE IF v \in MutatorsOf(r) THEN [job[v] EXCEPT !.solo = FALSE]
               ELSE job[v]]
  /\ disturbed' = IF Busy(r) THEN disturbed \cup {r} ELSE disturbed
  /\ UNCHANGED <<files, crashes, answer, acked, soloAcked>>

-----------------------------------------------------------------------------
(* register(), update(), deprecate()                                        *)

\* Mutant: registering a record again starts it anew.
RegisterAnew(w, r) ==
  \E x \in PayloadsOf(r) : Begin(w, r, Absent, Registered(nextTxn, x))

Register(w, r) ==
  /\ ~Exists(files[r])
  /\ \E x \in PayloadsOf(r) : Begin(w, r, Absent, Registered(nextTxn, x))

\* SharedRecordExistsError: 409.
RegisterExisting(w, r) == Parses(files[r]) /\ AnswerNow(w, "409")

\* A required field is missing: 400, by register() and by update().
Incomplete(w, r) ==
  /\ Exists(files[r]) => Parses(files[r]) /\ ~files[r].text.deprecated
  /\ AnswerNow(w, "400")

\* Mutant: the check of "deprecated" is left out.
UpdateAnything(w, r) ==
  /\ Parses(files[r])
  /\ \E x \in PayloadsOf(r) :
       Begin(w, r, files[r].text, Updated(files[r].text, nextTxn, x))

Update(w, r) ==
  /\ Parses(files[r]) /\ ~files[r].text.deprecated
  /\ \E x \in PayloadsOf(r) :
       Begin(w, r, files[r].text, Updated(files[r].text, nextTxn, x))

Deprecate(w, r) ==
  /\ Parses(files[r]) /\ ~files[r].text.deprecated
  /\ Begin(w, r, files[r].text, DeprecatedOf(files[r].text, nextTxn))

\* SharedRecordDeprecatedError, from update() and deprecate(): 400.
MutationRefused(w, r) ==
  Parses(files[r]) /\ files[r].text.deprecated /\ AnswerNow(w, "400")

\* save(): the file is truncated, ...
Open(w) ==
  /\ phase[w] = "loaded"
  /\ phase' = [phase EXCEPT ![w] = "opened"]
  /\ files' = [files EXCEPT ![job[w].id] = Truncated]
  /\ UNCHANGED <<nextTxn, crashes, job, answer, ghostVars>>

\* ... and the text is written; the handler answers.
Flush(w) ==
  LET r == job[w].id
      txn == Newest(job[w].rec)
  IN  /\ phase[w] = "opened"
      /\ files' = [files EXCEPT ![r] = Written(@, job[w].rec)]
      /\ phase' = [phase EXCEPT ![w] = "idle"]
      /\ job' = [job EXCEPT ![w] = NoJob]
      /\ answer' = "200"
      /\ acked' = [acked EXCEPT ![r] = @ \cup {txn}]
      /\ soloAcked' = IF job[w].solo THEN [soloAcked EXCEPT ![r] = @ \cup {txn}]
                      ELSE soloAcked
      /\ UNCHANGED <<nextTxn, crashes, disturbed>>

-----------------------------------------------------------------------------
(* Reads                                                                    *)

\* SharedRecordNotFoundError, in every operation but register(): 404.
NotFound(w, r) == ~Exists(files[r]) /\ AnswerNow(w, "404")

\* JSONDecodeError, in every operation: nobody handles it, 500.
Unreadable(w, r) == Exists(files[r]) /\ ~Parses(files[r]) /\ AnswerNow(w, "500")

\* get(), history() and replay().
Read(w, r) ==
  /\ Parses(files[r])
  /\ AnswerNow(w, IF ReplayConsistent(files[r].text) THEN "200" ELSE "alarm")

\* resolve() of a record without a pointer.
ResolveNothing(w, r) ==
  /\ Parses(files[r])
  /\ files[r].text.payload.ref = NoRef
  /\ AnswerNow(w, "resolved")

\* resolve() of a record with one: the record is read, ...
ResolveBegin(w, r) ==
  /\ phase[w] = "idle"
  /\ Parses(files[r])
  /\ files[r].text.payload.ref # NoRef
  /\ phase' = [phase EXCEPT ![w] = "resolving"]
  /\ job' = [job EXCEPT ![w] =
       [id |-> r, base |-> Absent, rec |-> files[r].text, solo |-> FALSE]]
  /\ UNCHANGED <<storeVars, answer, ghostVars>>

\* Mutant: whatever cannot be read is reported as missing.
ResolveEndGracefully(w) ==
  /\ phase[w] = "resolving"
  /\ phase' = [phase EXCEPT ![w] = "idle"]
  /\ job' = [job EXCEPT ![w] = NoJob]
  /\ answer' = IF Parses(files[job[w].rec.payload.ref]) THEN "resolved" ELSE "missing"
  /\ UNCHANGED <<storeVars, ghostVars>>

\* ... then the identity it points to.
ResolveEnd(w) ==
  LET target == files[job[w].rec.payload.ref] IN
  /\ phase[w] = "resolving"
  /\ phase' = [phase EXCEPT ![w] = "idle"]
  /\ job' = [job EXCEPT ![w] = NoJob]
  /\ answer' = IF ~Exists(target) THEN "missing"
               ELSE IF Parses(target) THEN "resolved" ELSE "500"
  /\ UNCHANGED <<storeVars, ghostVars>>

-----------------------------------------------------------------------------

\* The process dies and is started again: handlers are gone, files stay.
Crash ==
  /\ crashes < MaxCrashes
  /\ crashes' = crashes + 1
  /\ phase' = [w \in Workers |-> "idle"]
  /\ job' = [w \in Workers |-> NoJob]
  /\ answer' = "none"
  /\ disturbed' = disturbed \cup {job[w].id : w \in {v \in Workers : phase[v] = "opened"}}
  /\ UNCHANGED <<files, nextTxn, acked, soloAcked>>

Request(w, r) ==
  \/ Register(w, r) \/ RegisterExisting(w, r) \/ Incomplete(w, r)
  \/ Update(w, r) \/ Deprecate(w, r) \/ MutationRefused(w, r)
  \/ NotFound(w, r) \/ Unreadable(w, r) \/ Read(w, r)
  \/ ResolveNothing(w, r) \/ ResolveBegin(w, r)

Step(w) == Open(w) \/ Flush(w) \/ ResolveEnd(w)

Next == (\E w \in Workers : Step(w) \/ \E r \in Records : Request(w, r)) \/ Crash

Spec == Init /\ [][Next]_vars

-----------------------------------------------------------------------------
(* Properties                                                               *)

\* The types of the variables.
TypeOK ==
  /\ files \in [Records -> [text : SharedRecord \cup NotAText, extent : Nat]]
  /\ phase \in [Workers -> {"idle", "loaded", "opened", "resolving"}]
  /\ job \in [Workers -> Job \cup {NoJob}]
  /\ \A w \in Workers : phase[w] # "idle" => job[w] \in Job
  /\ answer \in {"none", "200", "400", "404", "409", "500", "alarm", "resolved", "missing"}
  /\ nextTxn \in Nat \ {0} /\ crashes \in Nat
  /\ acked \in [Records -> SUBSET SharedRecordTransition]
  /\ soloAcked \in [Records -> SUBSET SharedRecordTransition]
  /\ disturbed \subseteq Records

\* However registrations, updates and deprecations race and crash: a record
\* that parses has one registration, counts its versions from 1 without a
\* gap, and ends with its deprecation if it has one; replay() agrees with it.
StoredIsReplayable ==
  \A r \in Records : Parses(files[r]) => Sound(files[r].text)

\* A transition whose handler overlapped no other mutation of its record is
\* in every readable version of it ever after.  In particular a deprecation
\* nobody raced is final, and no second registration starts a record anew.
SoloWritesSurvive ==
  \A r \in Records : Parses(files[r]) => soloAcked[r] \subseteq Recorded(files[r].text)

\* resolve() reads two stores one after the other, while both change.  What
\* it reports missing was never registered: no identity that a client was
\* told of is ever missing, also while it is being saved.
MissingWasNeverRegistered ==
  [][\A w \in Workers :
       phase[w] = "resolving" /\ phase'[w] = "idle" /\ answer' = "missing" =>
         acked[job[w].rec.payload.ref] = {}]_vars

\* What a record's clients regard as its value: until a save is complete it
\* is the record the save started from.
Visible(r) ==
  IF r \in disturbed THEN NoJob
  ELSE IF \E w \in MutatorsOf(r) : phase[w] = "opened"
    THEN job[CHOOSE w \in MutatorsOf(r) : phase[w] = "opened"].base
  ELSE files[r].text

Abstract == INSTANCE SharedRegistry WITH
  cells <- [r \in Records |-> Visible(r)],
  TxnIds <- 1..MaxTxn,
  NoRecord <- Absent,
  Disturbed <- NoJob

\* A record is an atomic cell until two mutations of it overlap or a save of
\* it is cut short.
ImplementsRegistry == Abstract!RegistrySpec
=============================================================================
