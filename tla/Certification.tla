---------------------------- MODULE Certification ----------------------------
(***************************************************************************)
(* services/validation_service.py, certification_service.py and             *)
(* report_service.py behind /validate, /certify, /status and /report.       *)
(*                                                                          *)
(* The three services share one ArtifactStore.  Handlers run concurrently   *)
(* and unlocked, as in PackageRegistry, while the owner of the dataset may  *)
(* replace the file the service is asked to read.  Handlers, in steps:      *)
(*                                                                          *)
(*   validate   (HashDataset ->)  LoadDataset  -> Open -> Flush             *)
(*   certify                      LoadReport   -> Open -> Flush             *)
(*   certify an unknown dataset:  a whole validate, then Open -> Flush      *)
(*                                                                          *)
(* A dataset_id of the caller's is one of Ids.  Without one the key is the  *)
(* hash of the dataset's path and bytes: with one path, its content.        *)
(***************************************************************************)
EXTENDS ArtifactStore, ReportRules

CONSTANTS
  Workers,     \* threads of the pool
  Ids,         \* dataset ids callers choose
  Contents,    \* what the dataset file may contain
  TextLens,    \* lengths of the text of a validation report
  NoJob,       \* an idle worker's job
  MaxRequests,      \* bound: requests that save
  MaxReplacements,  \* bound: replacements of the dataset file
  MaxCrashes        \* bound: crashes

ASSUME ContentsAssumption == Contents \subseteq Dataset
ASSUME LensAssumption == TextLens \subseteq Nat
ASSUME ReportSentinels ==
  /\ (NotAText \cup {NoJob}) \cap (Report \cup Contents) = {}
  /\ NoJob \notin NotAText

Keys == Ids \cup Contents

\* Contents of which validate() makes a report.
Reportable == {d \in Contents : ~Raises(d)}

VARIABLES
  files,      \* key -> file of reports/
  onDisk,     \* content of the dataset file, Absent if there is none
  phase,      \* worker -> how far its handler has come
  job,        \* worker -> what its handler holds in local variables
  answer,     \* status of the last answer given to a client
  requests, replacements, crashes,   \* counters of the bounds
  disturbed   \* history: keys with overlapping handlers or an interrupted write

counters == <<requests, replacements, crashes>>
vars == <<files, onDisk, phase, job, answer, counters, disturbed>>

-----------------------------------------------------------------------------

\* base is what the handler found under key when it began, rec the report it
\* is about to save; then says whether a validation is part of a certify().
Job == [key : Keys, base : Report \cup NotAText, rec : Report \cup {Absent},
        then : {"answer", "certify"}]

WorkersAt(k) == {w \in Workers : phase[w] # "idle" /\ job[w].key = k}
Busy(k) == WorkersAt(k) # {}

Init ==
  /\ files = [k \in Keys |-> NoFile]
  /\ onDisk \in Contents
  /\ phase = [w \in Workers |-> "idle"]
  /\ job = [w \in Workers |-> NoJob]
  /\ answer = "none"
  /\ requests = 0 /\ replacements = 0 /\ crashes = 0
  /\ disturbed = {}

\* A handler begins to work on key k.
Begin(w, k, next, rec, then) ==
  /\ phase[w] = "idle" /\ requests < MaxRequests
  /\ requests' = requests + 1
  /\ phase' = [phase EXCEPT ![w] = next]
  /\ job' = [job EXCEPT ![w] =
       [key |-> k, base |-> files[k].text, rec |-> rec, then |-> then]]
  /\ disturbed' = IF Busy(k) THEN disturbed \cup {k} ELSE disturbed
  /\ UNCHANGED <<files, onDisk, answer, replacements, crashes>>

\* A handler answers without having saved anything.
AnswerNow(w, status) ==
  /\ phase[w] = "idle"
  /\ answer' = status
  /\ UNCHANGED <<files, onDisk, phase, job, counters, disturbed>>

-----------------------------------------------------------------------------
(* validate()                                                               *)

\* With a dataset_id: the dataset is read and its report built.
ValidateAs(w, id, then) ==
  /\ onDisk \in Reportable
  /\ \E len \in TextLens : Begin(w, id, "loaded", Validated(onDisk, len), then)

\* Without one: _dataset_id() reads the dataset for its hash first, ...
HashDataset(w, then) ==
  /\ onDisk # Absent
  /\ Begin(w, onDisk, "hashed", Absent, then)

\* ... and DatasetLoader reads it again.
LoadDataset(w) ==
  /\ phase[w] = "hashed"
  /\ onDisk \in Reportable
  /\ \E len \in TextLens : job' = [job EXCEPT ![w].rec = Validated(onDisk, len)]
  /\ phase' = [phase EXCEPT ![w] = "loaded"]
  /\ UNCHANGED <<files, onDisk, answer, counters, disturbed>>

\* The dataset is gone by then, or its validation raises: 400, nothing saved.
LoadFails(w) ==
  /\ phase[w] = "hashed"
  /\ onDisk \notin Reportable
  /\ phase' = [phase EXCEPT ![w] = "idle"]
  /\ job' = [job EXCEPT ![w] = NoJob]
  /\ answer' = "400"
  /\ UNCHANGED <<files, onDisk, counters, disturbed>>

\* There is no dataset to begin with, or its validation raises: 400.
NoReportBuilt(w) == onDisk \notin Reportable /\ AnswerNow(w, "400")

Validate(w) ==
  \/ \E id \in Ids : ValidateAs(w, id, "answer")
  \/ HashDataset(w, "answer")
  \/ NoReportBuilt(w)

-----------------------------------------------------------------------------
(* certify()                                                                *)

\* Mutant: the gates are applied to the dataset as it is now.
LoadReportOfDataset(w, id) ==
  /\ Parses(files[id])
  /\ onDisk \in Reportable
  /\ \E len \in TextLens :
       Begin(w, id, "loaded", Certified(Validated(onDisk, len)), "answer")

\* _resolve_report() finds a report: the gates are applied to it.
LoadReport(w, id) ==
  /\ Parses(files[id])
  /\ Begin(w, id, "loaded", Certified(files[id].text), "answer")

\* It finds none, but the request names a dataset to validate first.
CertifyUnknown(w, id) == ~Exists(files[id]) /\ ValidateAs(w, id, "certify")

\* It finds none and no dataset is named, or finds one that does not parse
\* (a JSONDecodeError is a ValueError): 404.
CertifyNotFound(w, id) == ~Parses(files[id]) /\ AnswerNow(w, "404")

Certify(w) ==
  \/ \E k \in Keys : LoadReport(w, k) \/ CertifyNotFound(w, k)
  \/ \E id \in Ids : CertifyUnknown(w, id)
  \/ HashDataset(w, "certify")
  \/ NoReportBuilt(w)

-----------------------------------------------------------------------------
(* save(), status, environment                                              *)

Open(w) ==
  /\ phase[w] = "loaded"
  /\ phase' = [phase EXCEPT ![w] = "opened"]
  /\ files' = [files EXCEPT ![job[w].key] = Truncated]
  /\ UNCHANGED <<onDisk, job, answer, counters, disturbed>>

\* The text is written.  A validate() inside a certify() hands its report
\* on to the gates, the other handlers answer.
Flush(w) ==
  LET k == job[w].key IN
  /\ phase[w] = "opened"
  /\ files' = [files EXCEPT ![k] = Written(@, job[w].rec)]
  /\ \/ /\ job[w].then = "certify"
        /\ phase' = [phase EXCEPT ![w] = "loaded"]
        /\ job' = [job EXCEPT ![w].base = job[w].rec, ![w].then = "answer",
                              ![w].rec = Certified(job[w].rec)]
        /\ UNCHANGED answer
     \/ /\ job[w].then = "answer"
        /\ phase' = [phase EXCEPT ![w] = "idle"]
        /\ job' = [job EXCEPT ![w] = NoJob]
        /\ answer' = "200"
  /\ UNCHANGED <<onDisk, counters, disturbed>>

\* get_report() and get_status().
Status(w, k) ==
  AnswerNow(w, IF ~Exists(files[k]) THEN "404" ELSE IF Parses(files[k]) THEN "200" ELSE "500")

\* The owner replaces, or removes, the dataset file.
ReplaceDataset ==
  /\ replacements < MaxReplacements
  /\ replacements' = replacements + 1
  /\ \E d \in (Contents \cup {Absent}) \ {onDisk} : onDisk' = d
  /\ UNCHANGED <<files, phase, job, answer, requests, crashes, disturbed>>

Crash ==
  /\ crashes < MaxCrashes
  /\ crashes' = crashes + 1
  /\ phase' = [w \in Workers |-> "idle"]
  /\ job' = [w \in Workers |-> NoJob]
  /\ answer' = "none"
  /\ disturbed' = disturbed \cup {job[w].key : w \in {v \in Workers : phase[v] = "opened"}}
  /\ UNCHANGED <<files, onDisk, requests, replacements>>

Step(w) == LoadDataset(w) \/ LoadFails(w) \/ Open(w) \/ Flush(w)

Next ==
  \/ \E w \in Workers :
       Validate(w) \/ Certify(w) \/ Step(w) \/ \E k \in Keys : Status(w, k)
  \/ ReplaceDataset
  \/ Crash

Spec == Init /\ [][Next]_vars

-----------------------------------------------------------------------------
(* Properties                                                               *)

\* The types of the variables.
TypeOK ==
  /\ files \in [Keys -> [text : Report \cup NotAText, extent : Nat]]
  /\ onDisk \in Contents \cup {Absent}
  /\ phase \in [Workers -> {"idle", "hashed", "loaded", "opened"}]
  /\ job \in [Workers -> Job \cup {NoJob}]
  /\ \A w \in Workers : phase[w] # "idle" => job[w] \in Job
  /\ \A w \in Workers : phase[w] \in {"loaded", "opened"} => job[w].rec \in Report
  /\ answer \in {"none", "200", "400", "404", "500"}
  /\ disturbed \subseteq Keys

\* However validate() and certify() race, crash and repeat, and whatever is
\* done to the dataset meanwhile: a readable report that says eligible is one
\* the rules certify on the very content it describes, every decided report
\* carries the decision of the rules (ARCHITECTURE.md:110), and none describes
\* a content whose validation raises.
EligibleOnlyByRules ==
  \A k \in Keys : Parses(files[k]) => DecidedByRules(files[k].text)

\* The audit trail of a readable report leads without a gap to its state.
AuditTrailIsGapless ==
  \A k \in Keys : Parses(files[k]) => TrailExplainsState(files[k].text)

\* What the clients of a key regard as its report: until a save is complete
\* it is the report the save started from.
Visible(k) ==
  IF k \in disturbed THEN NoJob
  ELSE IF \E w \in WorkersAt(k) : phase[w] = "opened"
    THEN job[CHOOSE w \in WorkersAt(k) : phase[w] = "opened"].base
  ELSE files[k].text

Ledger == INSTANCE ReportLedger WITH
  ledger <- [k \in Keys |-> Visible(k)],
  Contents <- Reportable,
  NoReport <- Absent,
  Disturbed <- NoJob

\* A key is one cell of a ledger until two handlers overlap on it or a save
\* of it is cut short: a certification decides on the last report, a
\* validation replaces it, and the dataset on disk only matters when it is
\* validated.
ImplementsLedger == Ledger!LedgerSpec

-----------------------------------------------------------------------------
(* What the documents and tests say, and the code does not keep             *)

\* tests/test_certification_service.py: a rejected report lists its reasons.
RejectedHasReasons ==
  \A k \in Keys :
    Parses(files[k]) /\ files[k].text.state = "REJECTED" => files[k].text.reasons > 0
=============================================================================
