------------------------- MODULE RetrievalReadiness -------------------------
(***************************************************************************)
(* services/retrieval_readiness_service.py, runtime_discovery_service.py    *)
(* and tantra_interface_service.py: what downstream systems are told about  *)
(* packages while other handlers promote them and register their objects.   *)
(*                                                                          *)
(*    assess()   reads the package, reads its knowledge object, saves the   *)
(*               evidence                                                   *)
(*    runtime_package_lookup()                                              *)
(*               reads the package, reads its lineage, runs assess(), reads *)
(*               the certification report                                   *)
(*    discover() lists the files of the registry, reads one after the other *)
(*                                                                          *)
(* Each of these accesses is a step of its own, each save is two.  Other    *)
(* handlers promote the packages and register their objects meanwhile: they *)
(* load and check, open and write, and nothing keeps two of them from doing *)
(* so on one file (PackageRegistry and KnowledgeLineage model them whole).  *)
(*                                                                          *)
(* reached, sourced, disturbed, and the fields began and solo of a job are  *)
(* history.                                                                 *)
(***************************************************************************)
EXTENDS ArtifactStore, LifecycleGraph

CONSTANTS
  Workers,     \* threads of the pool that assess, look up and list
  Others,      \* threads of the pool that promote and register
  Packages,    \* package ids
  Assessed,    \* those of them that objects and assessments are asked for;
               \* the others are only listed, and have complete metadata
  Start,       \* records that packages may have from earlier runs
  StartObjects,  \* and objects
  NoJob,       \* an idle worker's job
  MaxMoves,    \* bound: saves by other handlers
  MaxCrashes   \* bound: crashes

ASSUME PackagesAssumption == Assessed \subseteq Packages
ASSUME BoundsAssumption == MaxMoves \in Nat /\ MaxCrashes \in Nat

-----------------------------------------------------------------------------
(* The rules                                                                *)

\* A package: its status, and whether board, medium, language, owner and
\* schema_version are all given, which they are for good.  Its text grows with
\* every promotion.
Package == [status : PackageStatus, complete : BOOLEAN, size : Nat]

\* A knowledge object: whether it has a source_reference, which makes its text
\* longer.
Object == {[sourced |-> sourced, size |-> IF sourced THEN 2 ELSE 1] : sourced \in BOOLEAN}

Rules == {"PACKAGE_CERTIFIED", "NOT_DEPRECATED_OR_ARCHIVED", "METADATA_COMPLETE",
          "LINEAGE_REGISTERED"}

RetrievalStatus ==
  {"NOT_RETRIEVABLE", "PARTIALLY_RETRIEVABLE", "RETRIEVABLE", "CERTIFIED_RETRIEVABLE"}

\* The details of the rules name the status that was judged (basis); failed
\* rules come with a corrective action each.
Evidence ==
  [basis : PackageStatus, failed : SUBSET Rules, status : RetrievalStatus, size : Nat]

\* What a handler holds: a lookup before its assessment, an assessment of its
\* own or a lookup's, which has read a package or built evidence, a listing.
Lookup == [pkg : Packages, bundle : Package]
Assessment(Read) ==
  [pkg : Packages, bundle : Package \cup {Absent}, read : Read, solo : BOOLEAN]
Listing ==
  [todo : SUBSET Packages, found : [Packages -> PackageStatus \cup {NoStatus}],
   began : [Packages -> SUBSET PackageStatus]]

\* What another handler holds from its load to its save.
SaveOf(kind, Record) ==
  [kind : {kind}, pkg : Packages, record : Record, opened : BOOLEAN]
Save == SaveOf("package", Package) \cup SaveOf("object", Object)

ASSUME SentinelAssumption ==
  NotAText \cap (Package \cup Object \cup Evidence) = {} /\ NoJob \notin Save

\* Mutant: any knowledge object counts as lineage.
FailedWithAnyObject(package, object) ==
  {rule \in Rules :
     CASE rule = "PACKAGE_CERTIFIED" -> package.status \notin {"CERTIFIED", "RETRIEVAL_READY"}
       [] rule = "NOT_DEPRECATED_OR_ARCHIVED" -> package.status \in Withdrawn
       [] rule = "METADATA_COMPLETE" -> ~package.complete
       [] rule = "LINEAGE_REGISTERED" -> object = Absent}

\* The rules a package and its object, if any, do not pass.
Failed(package, object) ==
  {rule \in Rules :
     CASE rule = "PACKAGE_CERTIFIED" -> package.status \notin {"CERTIFIED", "RETRIEVAL_READY"}
       [] rule = "NOT_DEPRECATED_OR_ARCHIVED" -> package.status \in Withdrawn
       [] rule = "METADATA_COMPLETE" -> ~package.complete
       [] rule = "LINEAGE_REGISTERED" -> object = Absent \/ ~object.sourced}

\* _determine_status().
StatusOf(package, failed) ==
  IF failed \cap {"PACKAGE_CERTIFIED", "NOT_DEPRECATED_OR_ARCHIVED"} # {} THEN "NOT_RETRIEVABLE"
  ELSE IF failed # {} THEN "PARTIALLY_RETRIEVABLE"
  ELSE IF package.status = "RETRIEVAL_READY" THEN "CERTIFIED_RETRIEVABLE"
  ELSE "RETRIEVABLE"

EvidenceOf(package, object) ==
  LET failed == Failed(package, object) IN
  [basis |-> package.status, failed |-> failed, status |-> StatusOf(package, failed),
   size |-> 1 + Cardinality(failed)]

ASSUME StartAssumption == Start \subseteq Package /\ StartObjects \subseteq Object
-----------------------------------------------------------------------------

VARIABLES
  packages,   \* package id -> file of registry_store
  objects,    \* package id -> file by-package-<id> of knowledge_object_store
  evidence,   \* package id -> file of retrieval_evidence_store
  saving,     \* other handler -> what it is about to save, or NoJob
  phase,      \* worker -> how far its handler has come
  job,        \* worker -> what its handler holds in local variables
  answer,     \* status of the last answer; "none" once work has begun again
  moves,      \* saves by other handlers so far
  crashes,    \* crashes so far
  reached,    \* package id -> statuses it has been stored with
  sourced,    \* packages that have had an object with a source_reference
  disturbed   \* packages with overlapping promotions

storeVars == <<packages, objects, evidence>>
otherVars == <<saving, moves, reached, sourced, disturbed>>
handlerVars == <<phase, job, answer>>
vars == <<storeVars, otherVars, handlerVars, crashes>>

Stored(record) == [text |-> record, extent |-> record.size]

Statuses(file) == IF Parses(file) THEN {file.text.status} ELSE {}

Init ==
  /\ packages \in [Packages -> {NoFile} \cup {Stored(package) : package \in Start}]
  /\ \A p \in Packages \ Assessed : Exists(packages[p]) => packages[p].text.complete
  /\ objects \in [Packages -> {NoFile} \cup {Stored(object) : object \in StartObjects}]
  /\ \A p \in Packages : Exists(objects[p]) => Exists(packages[p]) /\ p \in Assessed
  /\ evidence = [p \in Packages |-> NoFile]
  /\ saving = [o \in Others |-> NoJob]
  /\ phase = [w \in Workers |-> "idle"]
  /\ job = [w \in Workers |-> NoJob]
  /\ answer = "none"
  /\ moves = 0
  /\ crashes = 0
  /\ reached = [p \in Packages |-> Statuses(packages[p])]
  /\ sourced = {p \in Packages : Exists(objects[p]) /\ objects[p].text.sourced}
  /\ disturbed = {}

-----------------------------------------------------------------------------
(* Other handlers                                                           *)

Saves(o, kind, p) == saving[o] # NoJob /\ saving[o].kind = kind /\ saving[o].pkg = p

\* Another handler has done its load and its checks.
Prepares(o, kind, p, record) ==
  /\ saving[o] = NoJob
  /\ moves < MaxMoves
  /\ moves' = moves + 1
  /\ saving' = [saving EXCEPT ![o] =
                  [kind |-> kind, pkg |-> p, record |-> record, opened |-> FALSE]]
  /\ UNCHANGED <<storeVars, reached, sourced, handlerVars, crashes>>

\* register(): the package's id is random, so that nobody else knows it.
RegisterBegin(o, p) ==
  /\ ~Exists(packages[p])
  /\ \A s \in Others : ~Saves(s, "package", p)
  /\ \E c \in BOOLEAN :
       /\ p \in Assessed \/ c
       /\ Prepares(o, "package", p, [status |-> "REGISTERED", complete |-> c, size |-> 1])
  /\ UNCHANGED disturbed

\* promote(): any number of them may have loaded the same record.
PromoteBegin(o, p) ==
  LET old == packages[p].text IN
  /\ Parses(packages[p])
  /\ \E to \in PackageStatus :
       /\ CanMove(old, to)
       /\ Prepares(o, "package", p, [old EXCEPT !.status = to, !.size = @ + 1])
  /\ disturbed' = IF \E s \in Others : Saves(s, "package", p) THEN disturbed \cup {p}
                  ELSE disturbed

\* register_object(), the first time or again; also that of a child, which
\* saves its parent's object.
ObjectBegin(o, p) ==
  /\ p \in Assessed
  /\ Parses(packages[p])
  /\ \E object \in Object : Prepares(o, "object", p, object)
  /\ UNCHANGED disturbed

\* The file is opened, and by that emptied ...
OtherOpens(o) ==
  LET p == saving[o].pkg IN
  /\ saving[o] # NoJob /\ ~saving[o].opened
  /\ saving' = [saving EXCEPT ![o].opened = TRUE]
  /\ IF saving[o].kind = "package"
       THEN packages' = [packages EXCEPT ![p] = Truncated] /\ UNCHANGED objects
       ELSE objects' = [objects EXCEPT ![p] = Truncated] /\ UNCHANGED packages
  /\ UNCHANGED <<evidence, moves, reached, sourced, disturbed, handlerVars, crashes>>

\* ... and written.
PackageWritten(o) ==
  LET p == saving[o].pkg
      file == Written(packages[p], saving[o].record) IN
  /\ saving[o] # NoJob /\ saving[o].opened /\ saving[o].kind = "package"
  /\ packages' = [packages EXCEPT ![p] = file]
  /\ reached' = [reached EXCEPT ![p] = @ \cup Statuses(file)]
  /\ saving' = [saving EXCEPT ![o] = NoJob]
  /\ UNCHANGED <<objects, evidence, moves, sourced, disturbed, handlerVars, crashes>>

ObjectWritten(o) ==
  LET p == saving[o].pkg
      file == Written(objects[p], saving[o].record) IN
  /\ saving[o] # NoJob /\ saving[o].opened /\ saving[o].kind = "object"
  /\ objects' = [objects EXCEPT ![p] = file]
  /\ sourced' = IF Parses(file) /\ file.text.sourced THEN sourced \cup {p} ELSE sourced
  /\ saving' = [saving EXCEPT ![o] = NoJob]
  /\ UNCHANGED <<packages, evidence, moves, reached, disturbed, handlerVars, crashes>>

-----------------------------------------------------------------------------
(* assess() and runtime_package_lookup()                                    *)

\* The handler ends with an answer.
Answers(w, status) ==
  /\ phase' = [phase EXCEPT ![w] = "idle"]
  /\ job' = [job EXCEPT ![w] = NoJob]
  /\ answer' = status
  /\ UNCHANGED <<otherVars, crashes>>

\* The handler goes on, with newJob in its local variables.
GoesOn(w, newPhase, newJob) ==
  /\ phase' = [phase EXCEPT ![w] = newPhase]
  /\ job' = [job EXCEPT ![w] = newJob]
  /\ answer' = "none"
  /\ UNCHANGED <<otherVars, crashes>>

Assessing(w) == phase[w] \in {"judging", "saving", "opened"}

\* assess() has read the package; for a lookup, bundle is what it read first.
\* The field read becomes the evidence once the rules are evaluated.
Assess(w, p, bundle, package) ==
  LET rivals == {v \in Workers : Assessing(v) /\ job[v].pkg = p} IN
  /\ phase' = [phase EXCEPT ![w] = "judging"]
  /\ job' = [v \in Workers |->
               IF v = w
                 THEN [pkg |-> p, bundle |-> bundle, read |-> package, solo |-> rivals = {}]
               ELSE IF v \in rivals THEN [job[v] EXCEPT !.solo = FALSE]
               ELSE job[v]]
  /\ answer' = "none"
  /\ UNCHANGED <<storeVars, otherVars, crashes>>

\* registry.get() finds no package, or one it cannot read.
NotAssessed(w, p) ==
  /\ phase[w] = "idle"
  /\ ~Parses(packages[p])
  /\ Answers(w, IF Exists(packages[p]) THEN "500" ELSE "404")
  /\ UNCHANGED storeVars

AssessBegin(w, p) ==
  /\ phase[w] = "idle"
  /\ Parses(packages[p])
  /\ Assess(w, p, Absent, packages[p].text)

LookupBegin(w, p) ==
  /\ phase[w] = "idle"
  /\ Parses(packages[p])
  /\ GoesOn(w, "lineage", [pkg |-> p, bundle |-> packages[p].text])
  /\ UNCHANGED storeVars

\* lineage() reads the package's own object, then its registry record, for
\* MDU's provenance, and then the objects of its ancestors.  Those reads are
\* not modelled here, but each of them may find a file that does not parse.
LookupLineage(w) ==
  LET file == objects[job[w].pkg] IN
  /\ phase[w] = "lineage"
  /\ \/ /\ Exists(file) => Parses(file)
        /\ GoesOn(w, "readiness", job[w])
     \/ Answers(w, "500")
  /\ UNCHANGED storeVars

\* Mutant: the package that the lookup read is assessed.
LookupAssessReuses(w) ==
  /\ phase[w] = "readiness"
  /\ Assess(w, job[w].pkg, job[w].bundle, job[w].bundle)

\* Mutant: evidence that is there already is taken for the answer.
LookupAssessTakesLatest(w) ==
  LET p == job[w].pkg IN
  /\ phase[w] = "readiness"
  /\ UNCHANGED storeVars
  /\ IF Parses(evidence[p])
       THEN GoesOn(w, "reporting", [pkg |-> p, bundle |-> job[w].bundle,
                                    read |-> evidence[p].text, solo |-> FALSE])
       ELSE Answers(w, "500")

\* assess() within the lookup reads the package again.
LookupAssess(w) ==
  LET p == job[w].pkg IN
  /\ phase[w] = "readiness"
  /\ \/ /\ Parses(packages[p])
        /\ Assess(w, p, job[w].bundle, packages[p].text)
     \/ /\ ~Parses(packages[p])
        /\ Answers(w, "500")
        /\ UNCHANGED storeVars

\* The knowledge object is read and the rules are evaluated.
Judge(w) ==
  /\ phase[w] = "judging"
  /\ LET file == objects[job[w].pkg] IN
       IF Exists(file) /\ ~Parses(file)
         THEN Answers(w, "500")
         ELSE GoesOn(w, "saving",
                     [job[w] EXCEPT !.read = EvidenceOf(@, file.text)])
  /\ UNCHANGED storeVars

Open(w) ==
  /\ phase[w] = "saving"
  /\ evidence' = [evidence EXCEPT ![job[w].pkg] = Truncated]
  /\ GoesOn(w, "opened", job[w])
  /\ UNCHANGED <<packages, objects>>

\* The evidence is written; a lookup goes on to the certification report.
Flush(w) ==
  LET p == job[w].pkg IN
  /\ phase[w] = "opened"
  /\ evidence' = [evidence EXCEPT ![p] = Written(evidence[p], job[w].read)]
  /\ IF job[w].bundle = Absent THEN Answers(w, "200") ELSE GoesOn(w, "reporting", job[w])
  /\ UNCHANGED <<packages, objects>>

\* get_status(): the report is there, is missing, or does not parse.
LookupAnswers(w) ==
  /\ phase[w] = "reporting"
  /\ \E status \in {"200", "500"} : Answers(w, status)
  /\ UNCHANGED storeVars

-----------------------------------------------------------------------------
(* discover()                                                               *)

\* The statuses of the lifecycle in the order in which packages come by.
Rank(status) ==
  CHOOSE i \in 1..8 : (Gates \o <<"DEPRECATED", "ARCHIVED">>)[i] = status

NotBefore(later, earlier) == Rank(later) >= Rank(earlier)

\* glob(): the files that are there.
DiscoverBegin(w) ==
  /\ phase[w] = "idle"
  /\ GoesOn(w, "listing",
            [todo |-> {p \in Packages : Exists(packages[p])},
             found |-> [p \in Packages |-> NoStatus],
             began |-> reached])
  /\ UNCHANGED storeVars

\* Mutant: files that do not parse are skipped.
DiscoverReadsSkipping(w, p) ==
  /\ phase[w] = "listing"
  /\ p \in job[w].todo
  /\ GoesOn(w, "listing",
            [job[w] EXCEPT !.todo = @ \ {p},
                           !.found[p] = IF Parses(packages[p]) THEN packages[p].text.status
                                        ELSE NoStatus])
  /\ UNCHANGED storeVars

\* The next file is read.  The order is that of the package ids, which are
\* random.
DiscoverReads(w, p) ==
  /\ phase[w] = "listing"
  /\ p \in job[w].todo
  /\ IF Parses(packages[p])
       THEN GoesOn(w, "listing", [job[w] EXCEPT !.todo = @ \ {p},
                                                !.found[p] = packages[p].text.status])
       ELSE Answers(w, "500")
  /\ UNCHANGED storeVars

\* The records found are filtered and returned.
DiscoverAnswers(w) ==
  /\ phase[w] = "listing"
  /\ job[w].todo = {}
  /\ Answers(w, "200")
  /\ UNCHANGED storeVars

-----------------------------------------------------------------------------

\* The process dies and is started again: saves are cut short, files stay.
\* (Without a save under way, that changes nothing.)
Crash ==
  /\ crashes < MaxCrashes
  /\ \/ \E w \in Workers : phase[w] = "opened"
     \/ \E o \in Others : saving[o] # NoJob /\ saving[o].opened
  /\ crashes' = crashes + 1
  /\ phase' = [w \in Workers |-> "idle"]
  /\ job' = [w \in Workers |-> NoJob]
  /\ answer' = "none"
  /\ saving' = [o \in Others |-> NoJob]
  /\ UNCHANGED <<storeVars, moves, reached, sourced, disturbed>>

Other(o) ==
  \/ \E p \in Packages : RegisterBegin(o, p) \/ PromoteBegin(o, p) \/ ObjectBegin(o, p)
  \/ OtherOpens(o) \/ PackageWritten(o) \/ ObjectWritten(o)

Request(w) ==
  \/ \E p \in Assessed : NotAssessed(w, p) \/ AssessBegin(w, p) \/ LookupBegin(w, p)
  \/ DiscoverBegin(w)

Step(w) ==
  \/ LookupLineage(w) \/ LookupAssess(w) \/ Judge(w) \/ Open(w) \/ Flush(w)
  \/ LookupAnswers(w)
  \/ \E p \in Packages : DiscoverReads(w, p)
  \/ DiscoverAnswers(w)

Next == (\E o \in Others : Other(o)) \/ (\E w \in Workers : Request(w) \/ Step(w)) \/ Crash

Spec == Init /\ [][Next]_vars

-----------------------------------------------------------------------------
(* Properties                                                               *)

\* What a handler holds in each of its phases.
JobTyped(ph, held) ==
  /\ ph \in {"lineage", "readiness"} => held \in Lookup
  /\ ph = "judging" => held \in Assessment(Package)
  /\ ph \in {"saving", "opened", "reporting"} => held \in Assessment(Evidence)
  /\ ph = "listing" => held \in Listing

\* The types of the variables.
TypeOK ==
  /\ packages \in [Packages -> [text : Package \cup NotAText, extent : Nat]]
  /\ objects \in [Packages -> [text : Object \cup NotAText, extent : Nat]]
  /\ evidence \in [Packages -> [text : Evidence \cup NotAText, extent : Nat]]
  /\ saving \in [Others -> Save \cup {NoJob}]
  /\ phase \in [Workers -> {"idle", "lineage", "readiness", "judging", "saving", "opened",
                            "reporting", "listing"}]
  /\ job = [w \in Workers |-> job[w]]
  /\ \A w \in Workers : JobTyped(phase[w], job[w])
  /\ moves \in Nat /\ crashes \in Nat
  /\ reached \in [Packages -> SUBSET PackageStatus] /\ sourced \subseteq Packages
  /\ disturbed \subseteq Packages

\* Stored evidence that lets a package be retrieved rests on facts: on a
\* status the package was really stored with, RETRIEVAL_READY for
\* CERTIFIED_RETRIEVABLE and CERTIFIED otherwise, on complete metadata, and on
\* an object with a source that was really registered, although package and
\* object are read apart and both change, and whatever a crash left behind.
EvidenceIsJustified ==
  \A p \in Packages :
    Parses(evidence[p]) /\ evidence[p].text.status \in {"RETRIEVABLE", "CERTIFIED_RETRIEVABLE"}
      => /\ p \in sourced
         /\ evidence[p].text.basis \in reached[p]
         /\ evidence[p].text.basis =
              (IF evidence[p].text.status = "RETRIEVABLE" THEN "CERTIFIED" ELSE "RETRIEVAL_READY")
         /\ Parses(packages[p]) => packages[p].text.complete

\* Evidence does not go back in time while the package does not: unless two
\* promotions of it overlapped, an assessment that overlapped no other of its
\* package, a lookup's included, replaces stored evidence only by evidence on
\* the same or a later status.
EvidenceMovesForward ==
  \A w \in Workers :
    /\ phase[w] = "saving" /\ job[w].solo /\ Parses(evidence[job[w].pkg])
    /\ job[w].pkg \notin disturbed
    => NotBefore(job[w].read.basis, evidence[job[w].pkg].text.basis)

\* The bundle of a runtime lookup is no snapshot, but it is in order: its
\* readiness was judged on a status the package has had, also when others
\* assess the package meanwhile; and that is the status the bundle shows or a
\* later one, unless two promotions of the package overlapped.
BundleIsOrdered ==
  \A w \in Workers :
    phase[w] = "reporting" =>
      /\ job[w].read.basis \in reached[job[w].pkg]
      /\ job[w].pkg \notin disturbed =>
           NotBefore(job[w].read.basis, job[w].bundle.status)

\* A listing of the registry that is answered leaves out no package that was
\* stored before it began, neither while a file is being saved nor after a
\* crash has damaged it, shows each in a status it has had, and in none it
\* had left, unless two promotions of it overlapped.
DiscoveryIsComplete ==
  [][\A w \in Workers :
       phase[w] = "listing" /\ phase'[w] = "idle" /\ answer' = "200" =>
         \A p \in Packages :
           job[w].began[p] # {} =>
             /\ job[w].found[p] \in reached[p]
             /\ p \notin disturbed =>
                  \A s \in job[w].began[p] : NotBefore(job[w].found[p], s)]_vars
=============================================================================
