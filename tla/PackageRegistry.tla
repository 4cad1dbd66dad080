--------------------------- MODULE PackageRegistry ---------------------------
(***************************************************************************)
(* services/package_registry_service.py behind the /packages routes of      *)
(* main.py.                                                                 *)
(*                                                                          *)
(* Every route is a plain def, which FastAPI runs on a thread of its pool,  *)
(* and nothing in the service is locked: handlers interleave between any    *)
(* two accesses to the file system.  A handler that changes a package goes  *)
(* through three of them:                                                   *)
(*                                                                          *)
(*    load and check  --->  open(path, "w")  --->  json.dump, close, answer *)
(*    (RegisterBegin,       (Open)                 (Flush)                  *)
(*     PromoteBegin)                                                        *)
(*                                                                          *)
(* The process may crash at any point; what is in the files survives.       *)
(*                                                                          *)
(* acked, soloAcked and disturbed are history variables: they say what      *)
(* clients were told and are read by properties only.                       *)
(***************************************************************************)
EXTENDS ArtifactStore, LifecycleGraph

CONSTANTS
  Workers,       \* threads of the pool
  Packages,      \* package ids
  TextLens,      \* lengths one transition's text may add to a record
  Attributions,  \* whether actor and reason are given: a subset of BOOLEAN
  NoJob,         \* an idle worker's job
  MaxTxn,        \* bound: transitions built
  MaxCrashes     \* bound: crashes

ASSUME TextLensAssumption == TextLens \subseteq Nat
ASSUME MaxTxnAssumption == MaxTxn \in Nat
ASSUME AttributionsAssumption == Attributions \subseteq BOOLEAN
ASSUME SentinelAssumption == (NotAText \cup {NoJob}) \cap KnowledgePackage = {}

VARIABLES
  files,      \* package id -> file of registry_store
  phase,      \* worker -> how far its handler has come
  job,        \* worker -> what its handler holds in local variables
  answer,     \* worker -> status of the last answer it gave
  nextTxn,    \* id of the next transition
  crashes,    \* crashes so far
  acked,      \* package id -> transitions answered with 200
  soloAcked,  \* those of them whose handler overlapped no other mutation
  disturbed   \* packages with overlapping mutations or an interrupted write

storeVars == <<files, nextTxn, crashes>>
handlerVars == <<phase, job, answer>>
ghostVars == <<acked, soloAcked, disturbed>>
vars == <<storeVars, handlerVars, ghostVars>>

-----------------------------------------------------------------------------

\* What a handler holds: the record it read (Absent for a registration) and
\* the record it is about to save (for an audit, the one it read first).
Job == [pkg : Packages, base : KnowledgePackage \cup {Absent},
        rec : KnowledgePackage, solo : BOOLEAN]

Mutating(w) == phase[w] \in {"loaded", "opened"}

\* Handlers about to save, or saving, package p.
MutatorsOf(p) == {w \in Workers : Mutating(w) /\ job[w].pkg = p}

Busy(p) == MutatorsOf(p) # {}

\* p is being registered: its id is known to nobody yet.
Registering(p) == \E w \in MutatorsOf(p) : job[w].base = Absent

Init ==
  /\ files = [p \in Packages |-> NoFile]
  /\ phase = [w \in Workers |-> "idle"]
  /\ job = [w \in Workers |-> NoJob]
  /\ answer = [w \in Workers |-> "none"]
  /\ nextTxn = 1
  /\ crashes = 0
  /\ acked = [p \in Packages |-> {}]
  /\ soloAcked = [p \in Packages |-> {}]
  /\ disturbed = {}

-----------------------------------------------------------------------------
(* Answers                                                                  *)

\* A handler that returns at once, with nothing saved.
AnswerNow(w, status) ==
  /\ answer' = [answer EXCEPT ![w] = status]
  /\ UNCHANGED <<storeVars, phase, job, ghostVars>>

\* A request for package p reaches an idle worker.
Receives(w, p) == phase[w] = "idle" /\ ~Registering(p)

-----------------------------------------------------------------------------
(* register() and promote()                                                 *)

\* The handler has built rec from base and goes on to save it.
Begin(w, p, base, rec) ==
  /\ phase' = [phase EXCEPT ![w] = "loaded"]
  /\ job' = [v \in Workers |->
               IF v = w
                 THEN [pkg |-> p, base |-> base, rec |-> rec, solo |-> ~Busy(p)]
               ELSE IF v \in MutatorsOf(p) THEN [job[v] EXCEPT !.solo = FALSE]
               ELSE job[v]]
  /\ nextTxn' = nextTxn + 1
  /\ disturbed' = IF Busy(p) THEN disturbed \cup {p} ELSE disturbed
  /\ UNCHANGED <<files, crashes, answer, acked, soloAcked>>

\* Mutant: the id of a package that is there already.
RegisterBeginReusesId(w, p) ==
  /\ phase[w] = "idle"
  /\ nextTxn <= MaxTxn
  /\ ~Busy(p)
  /\ \E attributed \in Attributions, len \in TextLens :
       Begin(w, p, Absent, Registered(nextTxn, attributed, len))

\* Mutant: an unreadable record counts as a missing one.
RegisterBeginOverDamage(w, p) ==
  /\ phase[w] = "idle"
  /\ nextTxn <= MaxTxn
  /\ ~Parses(files[p]) /\ ~Busy(p)
  /\ \E attributed \in Attributions, len \in TextLens :
       Begin(w, p, Absent, Registered(nextTxn, attributed, len))

\* register(): package_id is a new uuid.
RegisterBegin(w, p) ==
  /\ phase[w] = "idle"
  /\ nextTxn <= MaxTxn
  /\ ~Exists(files[p]) /\ ~Busy(p)
  /\ \E attributed \in Attributions, len \in TextLens :
       Begin(w, p, Absent, Registered(nextTxn, attributed, len))

\* Mutant: the edge is not checked.
PromoteBeginUnchecked(w, p, to) ==
  /\ Receives(w, p)
  /\ nextTxn <= MaxTxn
  /\ Parses(files[p])
  /\ \E attributed \in Attributions, len \in TextLens :
       Begin(w, p, files[p].text,
             Promoted(files[p].text, nextTxn, to, attributed, len))

\* promote(), and deprecate() which calls it with DEPRECATED.
PromoteBegin(w, p, to) ==
  /\ Receives(w, p)
  /\ nextTxn <= MaxTxn
  /\ Parses(files[p])
  /\ CanMove(files[p].text, to)
  /\ \E attributed \in Attributions, len \in TextLens :
       Begin(w, p, files[p].text,
             Promoted(files[p].text, nextTxn, to, attributed, len))

\* InvalidTransitionError, answered with 400.
PromoteRefused(w, p, to) ==
  /\ Receives(w, p)
  /\ Parses(files[p])
  /\ ~CanMove(files[p].text, to)
  /\ AnswerNow(w, "400")

\* save(), first half: the file is truncated.
Open(w) ==
  /\ phase[w] = "loaded"
  /\ phase' = [phase EXCEPT ![w] = "opened"]
  /\ files' = [files EXCEPT ![job[w].pkg] = Truncated]
  /\ UNCHANGED <<nextTxn, crashes, job, answer, ghostVars>>

\* Mutant: the text stays in a buffer when the handler answers.
FlushIntoBuffer(w) ==
  /\ phase[w] = "opened"
  /\ phase' = [phase EXCEPT ![w] = "idle"]
  /\ job' = [job EXCEPT ![w] = NoJob]
  /\ answer' = [answer EXCEPT ![w] = "200"]
  /\ UNCHANGED <<storeVars, ghostVars>>

\* save(), second half: the text is written, and the handler answers.
Flush(w) ==
  LET p == job[w].pkg
      txn == Newest(job[w].rec)
  IN  /\ phase[w] = "opened"
      /\ files' = [files EXCEPT ![p] = Written(files[p], job[w].rec)]
      /\ phase' = [phase EXCEPT ![w] = "idle"]
      /\ job' = [job EXCEPT ![w] = NoJob]
      /\ answer' = [answer EXCEPT ![w] = "200"]
      /\ acked' = [acked EXCEPT ![p] = @ \cup {txn}]
      /\ soloAcked' = IF job[w].solo
                        THEN [soloAcked EXCEPT ![p] = @ \cup {txn}]
                        ELSE soloAcked
      /\ UNCHANGED <<nextTxn, crashes, disturbed>>

-----------------------------------------------------------------------------
(* Reads                                                                    *)

\* PackageNotFoundError in get(), whoever called it: 404.
NotFound(w, p) ==
  /\ Receives(w, p)
  /\ ~Exists(files[p])
  /\ AnswerNow(w, "404")

\* JSONDecodeError in load(), which no route handles: 500.
Unreadable(w, p) ==
  /\ Receives(w, p)
  /\ Exists(files[p]) /\ ~Parses(files[p])
  /\ AnswerNow(w, "500")

\* get(), history() and replay(); the answer of replay() says whether the
\* history supports the stored status.
Read(w, p) ==
  /\ Receives(w, p)
  /\ Parses(files[p])
  /\ AnswerNow(w, IF ReplayConsistent(files[p].text) THEN "200" ELSE "alarm")

\* audit_completeness() reads the record, and calls replay(), which reads it
\* a second time.
AuditBegin(w, p) ==
  /\ Receives(w, p)
  /\ Parses(files[p])
  /\ phase' = [phase EXCEPT ![w] = "auditing"]
  /\ job' = [job EXCEPT ![w] = [pkg |-> p, base |-> Absent,
                                rec |-> files[p].text, solo |-> FALSE]]
  /\ UNCHANGED <<storeVars, answer, ghostVars>>

\* Mutant: the second read is replayed against the status of the first.
AuditEndComparesReads(w) ==
  LET file == files[job[w].pkg] IN
  /\ phase[w] = "auditing"
  /\ phase' = [phase EXCEPT ![w] = "idle"]
  /\ job' = [job EXCEPT ![w] = NoJob]
  /\ answer' = [answer EXCEPT ![w] =
       IF ~Parses(file) THEN "500"
       ELSE IF Newest(file.text).to = job[w].rec.status THEN "200"
       ELSE "alarm"]
  /\ UNCHANGED <<storeVars, ghostVars>>

AuditEnd(w) ==
  LET file == files[job[w].pkg] IN
  /\ phase[w] = "auditing"
  /\ phase' = [phase EXCEPT ![w] = "idle"]
  /\ job' = [job EXCEPT ![w] = NoJob]
  /\ answer' = [answer EXCEPT ![w] =
       IF ~Parses(file) THEN "500"
       ELSE IF AuditComplete(job[w].rec) /\ ReplayConsistent(file.text) THEN "200"
       ELSE "alarm"]
  /\ UNCHANGED <<storeVars, ghostVars>>

-----------------------------------------------------------------------------

\* The process dies and is started again: handlers are gone, files stay.
Crash ==
  /\ crashes < MaxCrashes
  /\ crashes' = crashes + 1
  /\ phase' = [w \in Workers |-> "idle"]
  /\ job' = [w \in Workers |-> NoJob]
  /\ answer' = [w \in Workers |-> "none"]
  /\ disturbed' = disturbed \cup {job[w].pkg : w \in {v \in Workers : phase[v] = "opened"}}
  /\ UNCHANGED <<files, nextTxn, acked, soloAcked>>

Step(w) == Open(w) \/ Flush(w) \/ AuditEnd(w)

Request(w) ==
  \E p \in Packages :
    \/ RegisterBegin(w, p)
    \/ \E to \in PackageStatus : PromoteBegin(w, p, to) \/ PromoteRefused(w, p, to)
    \/ NotFound(w, p) \/ Unreadable(w, p) \/ Read(w, p) \/ AuditBegin(w, p)

Next == (\E w \in Workers : Request(w) \/ Step(w)) \/ Crash

Spec == Init /\ [][Next]_vars

\* A handler that has begun is run to its end by its thread.
FairSpec == Spec /\ \A w \in Workers : WF_vars(Step(w))

-----------------------------------------------------------------------------
(* Properties                                                               *)

\* The types of the variables.
TypeOK ==
  /\ files \in [Packages -> [text : KnowledgePackage \cup NotAText, extent : Nat]]
  /\ phase \in [Workers -> {"idle", "loaded", "opened", "auditing"}]
  /\ job \in [Workers -> Job \cup {NoJob}]
  /\ \A w \in Workers : phase[w] # "idle" => job[w] \in Job
  /\ answer \in [Workers -> {"none", "200", "400", "404", "500", "alarm"}]
  /\ nextTxn \in Nat \ {0} /\ crashes \in Nat
  /\ acked \in [Packages -> SUBSET PackageTransition]
  /\ soloAcked \in [Packages -> SUBSET PackageTransition]
  /\ disturbed \subseteq Packages

\* Whatever the interleaving of unlocked handlers, and wherever the process
\* dies: a record that parses is a legal walk of the lifecycle graph from one
\* root, in time order, that ends in the stored status.  Racing writers lose
\* each other's work or damage the file, but they never mix two records.
StoredIsReplayable ==
  \A p \in Packages : Parses(files[p]) => Sound(files[p].text)

\* No race or crash lets a package reach a gate without its history showing
\* every earlier gate, once and in order: what RETRIEVAL_READY rests on.
NoGateSkipped ==
  \A p \in Packages : Parses(files[p]) => PassedItsGates(files[p].text)

\* A transition whose handler overlapped no other mutation of its package is
\* in every readable version of the record ever after, also when later
\* handlers race each other on it or the process dies.
SoloTransitionsSurvive ==
  \A p \in Packages :
    Parses(files[p]) => soloAcked[p] \subseteq Recorded(files[p].text)

\* Without overlapping mutations and interrupted writes of a package, its
\* record holds exactly the transitions that were answered with 200.
UndisturbedIsExact ==
  \A p \in Packages :
    p \notin disturbed /\ ~Busy(p) =>
      IF Exists(files[p])
        THEN Parses(files[p]) /\ Recorded(files[p].text) = acked[p]
        ELSE acked[p] = {}

\* replay() and audit_completeness() never report trouble, although an audit
\* reads the record twice and handlers may change it in between.
AuditNeverAlarms == \A w \in Workers : answer[w] # "alarm"

\* A record that no longer parses is evidence: once the handlers at work on
\* it are done, no later request overwrites it.
DamagedIsNeverReplaced ==
  [][\A p \in Packages :
       Exists(files[p]) /\ ~Parses(files[p]) /\ ~Busy(p) =>
         files'[p] = files[p] /\ ~Busy(p)']_vars

\* Readers may find a record unreadable while it is saved.  That passes:
\* without a crash and without a second writer the record is readable again.
UnreadableOnlyInPassing ==
  \A p \in Packages :
    Exists(files[p]) /\ ~Parses(files[p]) ~> Parses(files[p]) \/ p \in disturbed

-----------------------------------------------------------------------------
(* The atomic registry                                                      *)

\* What a package's clients regard as its record: until a save is complete
\* it is the record the save started from.
Visible(p) ==
  IF p \in disturbed THEN NoJob
  ELSE IF \E w \in MutatorsOf(p) : phase[w] = "opened"
    THEN job[CHOOSE w \in MutatorsOf(p) : phase[w] = "opened"].base
  ELSE files[p].text

Abstract == INSTANCE PackageLifecycle WITH
  registry <- [p \in Packages |-> Visible(p)],
  TxnIds <- 1..MaxTxn,
  Unregistered <- Absent,
  Disturbed <- NoJob

\* A package is an atomic registry entry until two mutations of it overlap or
\* a save of it is cut short, whatever readers, and mutators of other
\* packages, do meanwhile.
ImplementsLifecycle == Abstract!LifecycleSpec

-----------------------------------------------------------------------------
(* What the documents say, and the code does not keep                       *)

\* ARCHITECTURE.md:174: ARCHIVED is terminal.
ArchivedIsTerminal ==
  \A p \in Packages :
    Parses(files[p]) /\ (\E t \in acked[p] : t.to = "ARCHIVED") =>
      files[p].text.status = "ARCHIVED"
=============================================================================
