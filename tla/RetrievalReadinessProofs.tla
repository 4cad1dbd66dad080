---------------------- MODULE RetrievalReadinessProofs ----------------------
(***************************************************************************)
(* Theorems about RetrievalReadiness, for any number of workers, packages,  *)
(* saves by other handlers and crashes.                                     *)
(*                                                                          *)
(* First the order of the lifecycle; then what is known of one package at   *)
(* two moments, the later one after the earlier; then, action by action,    *)
(* that what handlers hold and what is stored stays true.                   *)
(***************************************************************************)
EXTENDS RetrievalReadiness, TLAPS, FiniteSetTheorems

-----------------------------------------------------------------------------
(* The order of the lifecycle                                               *)

LEMMA Ranks ==
  /\ Rank("REGISTERED") = 1 /\ Rank("INGESTED") = 2 /\ Rank("VALIDATED") = 3
  /\ Rank("VERIFIED") = 4 /\ Rank("CERTIFIED") = 5 /\ Rank("RETRIEVAL_READY") = 6
  /\ Rank("DEPRECATED") = 7 /\ Rank("ARCHIVED") = 8
  <1> DEFINE line == Gates \o <<"DEPRECATED", "ARCHIVED">>
  <1>1. Len(Gates) = 6
    BY DEF Gates
  <1>2. /\ line[1] = "REGISTERED" /\ line[2] = "INGESTED" /\ line[3] = "VALIDATED"
        /\ line[4] = "VERIFIED" /\ line[5] = "CERTIFIED" /\ line[6] = "RETRIEVAL_READY"
        /\ line[7] = "DEPRECATED" /\ line[8] = "ARCHIVED"
    BY <1>1 DEF Gates
  <1>3. \A status : Rank(status) = CHOOSE i \in 1..8 : line[i] = status
    BY DEF Rank
  <1> HIDE DEF line
  <1>4. ASSUME NEW i \in 1..8, NEW j \in 1..8, line[i] = line[j]
        PROVE  i = j
    <2>1. i \in {1, 2, 3, 4, 5, 6, 7, 8} /\ j \in {1, 2, 3, 4, 5, 6, 7, 8}
      BY SMT
    <2> QED
      BY <1>2, <1>4, <2>1
  <1>5. \A i \in 1..8 : Rank(line[i]) = i
    BY <1>3, <1>4
  <1> QED
    BY <1>2, <1>5

LEMMA RankType ==
  ASSUME NEW s \in PackageStatus
  PROVE  Rank(s) \in 1..8
  BY Ranks DEF PackageStatus

LEMMA NotBeforeFacts ==
  /\ \A s \in PackageStatus : NotBefore(s, s)
  /\ \A r, s, t \in PackageStatus : NotBefore(r, s) /\ NotBefore(s, t) => NotBefore(r, t)
  BY RankType DEF NotBefore

\* A package moves on in the lifecycle, never back.
LEMMA MovesOn ==
  ASSUME NEW package, package.status \in PackageStatus, NEW to \in PackageStatus,
         CanMove(package, to)
  PROVE  NotBefore(to, package.status)
  BY Ranks DEF CanMove, PACKAGE_LIFECYCLE_GRAPH, PackageStatus, NotBefore

-----------------------------------------------------------------------------
(* Types                                                                    *)

PackageFile == [text : Package \cup NotAText, extent : Nat]
ObjectFile == [text : Object \cup NotAText, extent : Nat]
EvidenceFile == [text : Evidence \cup NotAText, extent : Nat]

\* Saving puts a record, or garbage, where a file was.
LEMMA WrittenFact ==
  ASSUME NEW Records, NEW file \in [text : Records \cup NotAText, extent : Nat],
         NEW record \in Records, record.size \in Nat, record \notin NotAText
  PROVE  /\ Written(file, record) \in [text : Records \cup NotAText, extent : Nat]
         /\ Parses(Written(file, record)) => Written(file, record).text = record
         /\ Exists(Written(file, record))
  <1>1. CASE record.size >= file.extent
    <2>1. Written(file, record) = [text |-> record, extent |-> record.size]
      BY <1>1 DEF Written
    <2> QED
      BY <2>1 DEF Exists, NotAText
  <1>2. CASE ~(record.size >= file.extent)
    <2>1. Written(file, record) = [text |-> Garbled, extent |-> file.extent]
      BY <1>2 DEF Written
    <2>2. Garbled \in NotAText /\ Garbled # Absent
      BY ArtifactStoreAssumption DEF NotAText
    <2> QED
      BY <2>1, <2>2 DEF Exists, Parses
  <1> QED
    BY <1>1, <1>2

LEMMA TruncatedFact ==
  ASSUME NEW Records
  PROVE  /\ Truncated \in [text : Records \cup NotAText, extent : Nat]
         /\ ~Parses(Truncated) /\ Exists(Truncated)
  BY ArtifactStoreAssumption DEF Truncated, Parses, Exists, NotAText

\* Records are no sentinels.
LEMMA NoSentinel ==
  /\ \A r \in Package \cup Object \cup Evidence : r \notin NotAText /\ r # Absent
  /\ Absent \in NotAText
  BY SentinelAssumption DEF NotAText

\* The rules make evidence of the right type.
LEMMA EvidenceType ==
  ASSUME NEW package \in Package, NEW object \in Object \cup {Absent}
  PROVE  EvidenceOf(package, object) \in Evidence
  <1> DEFINE failed == Failed(package, object)
  <1>1. failed \in SUBSET Rules
    BY DEF Failed
  <1>2. Cardinality(failed) \in Nat
    <2>1. IsFiniteSet(Rules)
      <3>1. Rules = {"PACKAGE_CERTIFIED"} \cup {"NOT_DEPRECATED_OR_ARCHIVED"}
                    \cup {"METADATA_COMPLETE"} \cup {"LINEAGE_REGISTERED"}
        BY DEF Rules
      <3> QED
        BY <3>1, FS_Singleton, FS_Union
    <2> QED
      BY <1>1, <2>1, FS_Subset, FS_CardinalityType
  <1>3. StatusOf(package, failed) \in RetrievalStatus
    BY DEF StatusOf, RetrievalStatus
  <1>4. package.status \in PackageStatus
    BY DEF Package
  <1> HIDE DEF failed
  <1>5. EvidenceOf(package, object) =
          [basis |-> package.status, failed |-> failed,
           status |-> StatusOf(package, failed), size |-> 1 + Cardinality(failed)]
    BY DEF EvidenceOf, failed
  <1> QED
    BY <1>1, <1>2, <1>3, <1>4, <1>5 DEF Evidence
-----------------------------------------------------------------------------
(* What is known of one package, at one moment: x is At(p) of the package.   *)

Savers(p) == {o \in Others : Saves(o, "package", p)}
Recs(p) == {saving[o].record : o \in Savers(p)}

At(p) == [file |-> packages[p], recs |-> Recs(p), reached |-> reached[p],
          sourced |-> p \in sourced, disturbed |-> p \in disturbed]

\* Its metadata are, and will be, complete or not.
Agrees(c, x) ==
  /\ Parses(x.file) => x.file.text.complete = c
  /\ \A r \in x.recs : r.complete = c

\* Evidence rests on facts.
Justified(e, x) ==
  /\ e.basis \in x.reached
  /\ e.status \in {"RETRIEVABLE", "CERTIFIED_RETRIEVABLE"} =>
       /\ x.sourced
       /\ e.basis = (IF e.status = "RETRIEVABLE" THEN "CERTIFIED" ELSE "RETRIEVAL_READY")
       /\ Agrees(TRUE, x)

\* In order, unless promotions have overlapped.
Follows(bundle, status, x) == bundle # Absent /\ ~x.disturbed => NotBefore(status, bundle.status)

\* What a handler holds of its package.
Knows(ph, held, x) ==
  /\ ph \in {"lineage", "readiness"} => held.bundle.status \in x.reached
  /\ ph = "judging" => /\ held.read.status \in x.reached
                       /\ Agrees(held.read.complete, x)
                       /\ Follows(held.bundle, held.read.status, x)
  /\ ph \in {"saving", "opened", "reporting"} => /\ Justified(held.read, x)
                                                 /\ Follows(held.bundle, held.read.basis, x)
  /\ ph = "reporting" => held.bundle # Absent

\* What a listing under way holds, when packages have had these statuses and
\* promotions of those in apart have overlapped.
Lists(held, statuses, apart) ==
  \A p \in Packages : held.began[p] # {} =>
    /\ held.began[p] \subseteq statuses[p]
    /\ \/ p \in held.todo
       \/ /\ held.found[p] \in statuses[p]
          /\ p \notin apart => \A s \in held.began[p] : NotBefore(held.found[p], s)

\* y is a later moment than x.
Later(x, y) ==
  /\ x.reached \subseteq y.reached
  /\ x.sourced => y.sourced
  /\ x.disturbed => y.disturbed
  /\ x.reached # {} => \A c : Agrees(c, x) => Agrees(c, y)

\* What was known stays known.
LEMMA JustifiedLater ==
  ASSUME NEW x, NEW y, Later(x, y), NEW e, Justified(e, x)
  PROVE  Justified(e, y)
  BY DEF Later, Justified

LEMMA KnowsLater ==
  ASSUME NEW x, NEW y, Later(x, y), NEW ph, NEW held, Knows(ph, held, x)
  PROVE  Knows(ph, held, y)
  <1>1. CASE ph \in {"lineage", "readiness"}
    BY <1>1 DEF Later, Knows
  <1>2. CASE ph = "judging"
    BY <1>2 DEF Later, Knows, Follows
  <1>3. CASE ph \in {"saving", "opened", "reporting"}
    BY <1>3, JustifiedLater DEF Knows, Later, Follows
  <1>4. CASE ph \notin {"lineage", "readiness", "judging", "saving", "opened", "reporting"}
    BY <1>4 DEF Knows
  <1> QED
    BY <1>1, <1>2, <1>3, <1>4

LEMMA ListsLater ==
  ASSUME NEW before, NEW after, \A p \in Packages : before[p] \subseteq after[p],
         NEW earlier, NEW later, earlier \subseteq later,
         NEW held, Lists(held, before, earlier)
  PROVE  Lists(held, after, later)
  BY DEF Lists

-----------------------------------------------------------------------------
(* The inductive invariant                                                  *)

Talking == {"lineage", "readiness", "judging", "saving", "opened", "reporting"}
Phases == {"idle", "listing"} \cup Talking

\* While promotions of a package have not overlapped, one handler at most is
\* saving it, and what is stored, or about to be, is the latest of its statuses.
InOrder(p) ==
  /\ \A o, q \in Savers(p) : o = q
  /\ \A t \in reached[p] :
       /\ Parses(packages[p]) => NotBefore(packages[p].text.status, t)
       /\ \A r \in Recs(p) : NotBefore(r.status, t)

StoreInv ==
  \A p \in Packages :
    /\ Parses(packages[p]) => packages[p].text.status \in reached[p]
    /\ reached[p] # {} => Exists(packages[p])
    /\ \E c : Agrees(c, At(p))
    /\ p \in disturbed \/ InOrder(p)
    /\ Parses(objects[p]) /\ objects[p].text.sourced => p \in sourced

HandlerInv ==
  \A w \in Workers :
    /\ phase[w] \in Talking => Knows(phase[w], job[w], At(job[w].pkg))
    /\ phase[w] = "listing" => Lists(job[w], reached, disturbed)

EvidenceInv == \A p \in Packages : Parses(evidence[p]) => Justified(evidence[p].text, At(p))

\* The status that an assessment judges, or has judged.
Basis(ph, held) == IF ph = "judging" THEN held.read.status ELSE held.read.basis

\* A handler alone on a package shares it with no other, and finds no later
\* evidence, unless promotions have overlapped.
SoloInv ==
  \A w \in Workers : Assessing(w) /\ job[w].solo =>
    /\ \A v \in Workers \ {w} : Assessing(v) => job[v].pkg # job[w].pkg
    /\ Parses(evidence[job[w].pkg]) /\ job[w].pkg \notin disturbed =>
         NotBefore(Basis(phase[w], job[w]), evidence[job[w].pkg].text.basis)

IInv == TypeOK /\ StoreInv /\ HandlerInv /\ EvidenceInv /\ SoloInv

FileTypes ==
  /\ packages \in [Packages -> PackageFile]
  /\ objects \in [Packages -> ObjectFile]
  /\ evidence \in [Packages -> EvidenceFile]

OtherTypes ==
  /\ saving \in [Others -> Save \cup {NoJob}]
  /\ moves \in Nat /\ crashes \in Nat
  /\ reached \in [Packages -> SUBSET PackageStatus] /\ sourced \subseteq Packages
  /\ disturbed \subseteq Packages

HandlerTypes ==
  /\ phase \in [Workers -> Phases]
  /\ job = [w \in Workers |-> job[w]]
  /\ \A w \in Workers : JobTyped(phase[w], job[w])

LEMMA Types ==
  /\ TypeOK <=> FileTypes /\ OtherTypes /\ HandlerTypes
  /\ TypeOK' <=> FileTypes' /\ OtherTypes' /\ HandlerTypes'
  <1>1. Phases = {"idle", "lineage", "readiness", "judging", "saving", "opened",
                  "reporting", "listing"}
    BY DEF Phases, Talking
  <1> QED
    BY <1>1 DEF TypeOK, FileTypes, OtherTypes, HandlerTypes, PackageFile, ObjectFile, EvidenceFile

\* The fields of what a handler in conversation holds.
LEMMA HeldFields ==
  ASSUME NEW ph, NEW held, JobTyped(ph, held)
  PROVE  /\ ph \in Talking => held.pkg \in Packages
         /\ ph \in {"lineage", "readiness"} => held.bundle \in Package
         /\ ph \in Talking \ {"lineage", "readiness"} =>
              held.bundle \in Package \cup {Absent} /\ held.solo \in BOOLEAN
         /\ ph = "judging" => held.read \in Package
         /\ ph \in {"saving", "opened", "reporting"} => held.read \in Evidence
         /\ ph = "listing" => /\ held.todo \subseteq Packages
                              /\ held.found \in [Packages -> PackageStatus \cup {NoStatus}]
                              /\ held.began \in [Packages -> SUBSET PackageStatus]
  BY DEF JobTyped, Lookup, Assessment, Listing, Talking

-----------------------------------------------------------------------------
(* What the actions are made of                                             *)

Apart(w) == \A v \in Workers \ {w} : phase'[v] = phase[v] /\ job'[v] = job[v]

LEMMA AnswersFact ==
  ASSUME HandlerTypes, OtherTypes, NEW w \in Workers, NEW status, Answers(w, status)
  PROVE  /\ HandlerTypes' /\ OtherTypes'
         /\ Apart(w) /\ phase'[w] = "idle" /\ UNCHANGED <<otherVars, crashes>>
  <1>1. /\ phase' = [phase EXCEPT ![w] = "idle"]
        /\ job' = [job EXCEPT ![w] = NoJob]
        /\ UNCHANGED <<otherVars, crashes>>
    BY DEF Answers
  <1>2. \A v \in Workers : /\ phase'[v] = IF v = w THEN "idle" ELSE phase[v]
                           /\ job'[v] = IF v = w THEN NoJob ELSE job[v]
    BY <1>1 DEF HandlerTypes
  <1>3. OtherTypes'
    BY <1>1 DEF OtherTypes, otherVars
  <1>4. HandlerTypes'
    <2>1. phase' \in [Workers -> Phases]
      BY <1>1 DEF HandlerTypes, Phases
    <2>2. job' = [v \in Workers |-> job'[v]]
      BY <1>1 DEF HandlerTypes
    <2>3. ASSUME NEW v \in Workers
          PROVE  JobTyped(phase'[v], job'[v])
      BY <1>2 DEF HandlerTypes, JobTyped
    <2> QED
      BY <2>1, <2>2, <2>3 DEF HandlerTypes
  <1> QED
    BY <1>1, <1>2, <1>3, <1>4 DEF Apart

LEMMA GoesOnFact ==
  ASSUME HandlerTypes, OtherTypes, NEW w \in Workers, NEW ph \in Phases, NEW held,
         JobTyped(ph, held), GoesOn(w, ph, held)
  PROVE  /\ HandlerTypes' /\ OtherTypes'
         /\ Apart(w) /\ phase'[w] = ph /\ job'[w] = held /\ UNCHANGED <<otherVars, crashes>>
  <1>1. /\ phase' = [phase EXCEPT ![w] = ph]
        /\ job' = [job EXCEPT ![w] = held]
        /\ UNCHANGED <<otherVars, crashes>>
    BY DEF GoesOn
  <1>2. \A v \in Workers : /\ phase'[v] = IF v = w THEN ph ELSE phase[v]
                           /\ job'[v] = IF v = w THEN held ELSE job[v]
    BY <1>1 DEF HandlerTypes
  <1>3. OtherTypes'
    BY <1>1 DEF OtherTypes, otherVars
  <1>4. HandlerTypes'
    <2>1. phase' \in [Workers -> Phases]
      BY <1>1 DEF HandlerTypes
    <2>2. job' = [v \in Workers |-> job'[v]]
      BY <1>1 DEF HandlerTypes
    <2>3. ASSUME NEW v \in Workers
          PROVE  JobTyped(phase'[v], job'[v])
      BY <1>2 DEF HandlerTypes
    <2> QED
      BY <2>1, <2>2, <2>3 DEF HandlerTypes
  <1> QED
    BY <1>1, <1>2, <1>3, <1>4 DEF Apart
LEMMA AssessFact ==
  ASSUME HandlerTypes, OtherTypes, NEW w \in Workers, NEW p \in Packages,
         NEW bundle \in Package \cup {Absent}, NEW package \in Package,
         Assess(w, p, bundle, package)
  PROVE  /\ HandlerTypes' /\ OtherTypes'
         /\ UNCHANGED <<storeVars, otherVars, crashes>>
         /\ phase'[w] = "judging"
         /\ job'[w] \in Assessment(Package)
         /\ job'[w].pkg = p /\ job'[w].bundle = bundle /\ job'[w].read = package
         /\ job'[w].solo => \A v \in Workers : Assessing(v) => job[v].pkg # p
         /\ \A v \in Workers \ {w} :
              /\ phase'[v] = phase[v]
              /\ job'[v] = job[v] \/ /\ Assessing(v)
                                     /\ job'[v] = [job[v] EXCEPT !.solo = FALSE]
              /\ Assessing(v) /\ job[v].pkg = p => ~job'[v].solo
  <1> DEFINE rivals == {v \in Workers : Assessing(v) /\ job[v].pkg = p}
             new == [pkg |-> p, bundle |-> bundle, read |-> package, solo |-> rivals = {}]
  <1>1. /\ phase' = [phase EXCEPT ![w] = "judging"]
        /\ job' = [v \in Workers |-> IF v = w THEN new
                                     ELSE IF v \in rivals THEN [job[v] EXCEPT !.solo = FALSE]
                                     ELSE job[v]]
        /\ UNCHANGED <<storeVars, otherVars, crashes>>
    BY DEF Assess
  <1>2. new \in Assessment(Package)
    BY DEF Assessment
  <1>3. new.pkg = p /\ new.bundle = bundle /\ new.read = package /\ new.solo = (rivals = {})
    OBVIOUS
  <1>4. rivals \subseteq Workers /\ \A v \in Workers : v \in rivals <=> Assessing(v) /\ job[v].pkg = p
    OBVIOUS
  <1> HIDE DEF new, rivals
  <1>5. phase'[w] = "judging" /\ job'[w] = new
    BY <1>1 DEF HandlerTypes
  <1>6. \A v \in Workers \ {w} :
          /\ phase'[v] = phase[v]
          /\ v \in rivals => job'[v] = [job[v] EXCEPT !.solo = FALSE]
          /\ v \notin rivals => job'[v] = job[v]
    BY <1>1 DEF HandlerTypes
  <1>7. ASSUME NEW v \in rivals
        PROVE  /\ [job[v] EXCEPT !.solo = FALSE].solo = FALSE
               /\ JobTyped(phase[v], [job[v] EXCEPT !.solo = FALSE])
    <2>1. v \in Workers /\ Assessing(v) /\ JobTyped(phase[v], job[v])
      BY <1>4 DEF HandlerTypes
    <2>2. CASE phase[v] = "judging"
      BY <2>1, <2>2 DEF JobTyped, Assessment
    <2>3. CASE phase[v] \in {"saving", "opened"}
      BY <2>1, <2>3 DEF JobTyped, Assessment
    <2> QED
      BY <2>1, <2>2, <2>3 DEF Assessing
  <1>8. OtherTypes'
    BY <1>1 DEF OtherTypes, otherVars
  <1>9. HandlerTypes'
    <2>1. phase' \in [Workers -> Phases]
      BY <1>1 DEF HandlerTypes, Phases, Talking
    <2>2. job' = [v \in Workers |-> job'[v]]
      BY <1>1
    <2>3. ASSUME NEW v \in Workers
          PROVE  JobTyped(phase'[v], job'[v])
      <3>1. CASE v = w
        BY <3>1, <1>2, <1>5 DEF JobTyped
      <3>2. CASE v # w /\ v \in rivals
        BY <3>2, <1>6, <1>7
      <3>3. CASE v # w /\ v \notin rivals
        BY <3>3, <1>6 DEF HandlerTypes
      <3> QED
        BY <3>1, <3>2, <3>3
    <2> QED
      BY <2>1, <2>2, <2>3 DEF HandlerTypes
  <1>10. \A v \in Workers \ {w} :
           /\ job'[v] = job[v] \/ /\ Assessing(v)
                                  /\ job'[v] = [job[v] EXCEPT !.solo = FALSE]
           /\ Assessing(v) /\ job[v].pkg = p => ~job'[v].solo
    BY <1>4, <1>6, <1>7
  <1>11. new.solo => \A v \in Workers : Assessing(v) => job[v].pkg # p
    BY <1>3, <1>4
  <1> QED
    BY <1>1, <1>2, <1>3, <1>5, <1>6, <1>8, <1>9, <1>10, <1>11

-----------------------------------------------------------------------------
(* A step of a handler, which changes no package and no object              *)

\* What is known of packages does not change.
LEMMA NothingMoves ==
  ASSUME IInv, UNCHANGED <<packages, objects, otherVars>>
  PROVE  StoreInv' /\ \A p \in Packages : At(p)' = At(p)
  <1>1. \A p \in Packages : Savers(p)' = Savers(p) /\ Recs(p)' = Recs(p)
    BY DEF Savers, Recs, Saves, otherVars
  <1>2. \A p \in Packages : At(p)' = At(p)
    BY <1>1 DEF At, otherVars
  <1>3. ASSUME NEW p \in Packages
        PROVE  InOrder(p)' = InOrder(p)
    BY <1>1 DEF InOrder, otherVars
  <1> QED
    BY <1>2, <1>3 DEF IInv, StoreInv, otherVars

\* Nor does what the other handlers hold.
LEMMA HandlersKeep ==
  ASSUME IInv, NEW w \in Workers, Apart(w), HandlerTypes',
         UNCHANGED <<packages, objects, otherVars>>,
         phase'[w] \in Talking => Knows(phase'[w], job'[w], At(job'[w].pkg)),
         phase'[w] = "listing" => Lists(job'[w], reached, disturbed)
  PROVE  HandlerInv'
  <1>1. \A p \in Packages : At(p)' = At(p)
    BY NothingMoves
  <1>2. reached' = reached /\ disturbed' = disturbed
    BY DEF otherVars
  <1>3. ASSUME NEW v \in Workers
        PROVE  /\ phase'[v] \in Talking => job'[v].pkg \in Packages
               /\ phase'[v] \in Talking => Knows(phase'[v], job'[v], At(job'[v].pkg))
               /\ phase'[v] = "listing" => Lists(job'[v], reached, disturbed)
    <2>1. phase'[v] \in Talking => job'[v].pkg \in Packages
      BY HeldFields DEF HandlerTypes
    <2>2. CASE v = w
      BY <2>1, <2>2
    <2>3. CASE v # w
      BY <2>1, <2>3 DEF Apart, IInv, HandlerInv
    <2> QED
      BY <2>2, <2>3
  <1>4. ASSUME NEW v \in Workers, phase'[v] \in Talking
        PROVE  Knows(phase'[v], job'[v], At(job[v].pkg)')
    <2>1. PICK q \in Packages : q = job'[v].pkg
      BY <1>3, <1>4
    <2>2. Knows(phase'[v], job'[v], At(q)')
      BY <1>1, <1>3, <1>4, <2>1
    <2>3. At(q)' = At(job[v].pkg)'
      BY <2>1 DEF At
    <2> QED
      BY <2>2, <2>3
  <1> QED
    BY <1>2, <1>3, <1>4 DEF HandlerInv

\* And handlers that are alone stay alone.
LEMMA SoloKeeps ==
  ASSUME IInv, NEW w \in Workers, Apart(w), evidence' = evidence, disturbed' = disturbed,
         Assessing(w)' => /\ Assessing(w)
                          /\ job'[w].pkg = job[w].pkg /\ job'[w].solo = job[w].solo
                          /\ Basis(phase'[w], job'[w]) = Basis(phase[w], job[w])
  PROVE  SoloInv'
  <1>1. \A v \in Workers : Assessing(v)' => Assessing(v)
    BY DEF Apart, Assessing
  <1>2. \A v \in Workers : Assessing(v)' =>
          /\ job'[v].pkg = job[v].pkg /\ job'[v].solo = job[v].solo
          /\ Basis(phase'[v], job'[v]) = Basis(phase[v], job[v])
    BY DEF Apart, Assessing
  <1>3. SoloInv
    BY DEF IInv
  <1>4. ASSUME NEW v \in Workers, Assessing(v)', job'[v].solo
        PROVE  /\ \A u \in Workers \ {v} : Assessing(u)' => job'[u].pkg # job'[v].pkg
               /\ Parses(evidence'[job'[v].pkg]) /\ job'[v].pkg \notin disturbed =>
                    NotBefore(Basis(phase'[v], job'[v]), evidence'[job'[v].pkg].text.basis)
    <2>1. Assessing(v) /\ job[v].solo
      BY <1>1, <1>2, <1>4
    <2> QED
      BY <1>1, <1>2, <1>3, <1>4, <2>1 DEF SoloInv
  <1> QED
    BY <1>4 DEF SoloInv

\* A handler that goes on and writes nothing.
LEMMA QuietStep ==
  ASSUME IInv, NEW w \in Workers, Apart(w), HandlerTypes', OtherTypes',
         UNCHANGED <<storeVars, otherVars>>,
         phase'[w] \in Talking => Knows(phase'[w], job'[w], At(job'[w].pkg)),
         phase'[w] = "listing" => Lists(job'[w], reached, disturbed),
         Assessing(w)' => /\ Assessing(w)
                          /\ job'[w].pkg = job[w].pkg /\ job'[w].solo = job[w].solo
                          /\ Basis(phase'[w], job'[w]) = Basis(phase[w], job[w])
  PROVE  IInv'
  <1>1. packages' = packages /\ objects' = objects /\ evidence' = evidence
    BY DEF storeVars
  <1>2. FileTypes'
    BY <1>1, Types DEF IInv, FileTypes
  <1>3. TypeOK'
    BY <1>2, Types
  <1>4. StoreInv' /\ \A p \in Packages : At(p)' = At(p)
    BY <1>1, NothingMoves
  <1>5. HandlerInv'
    BY <1>1, HandlersKeep
  <1>6. EvidenceInv'
    BY <1>1, <1>4 DEF IInv, EvidenceInv
  <1>7. SoloInv'
    BY <1>1, SoloKeeps DEF otherVars
  <1> QED
    BY <1>3, <1>4, <1>5, <1>6, <1>7 DEF IInv
\* The beginning of an assessment.
LEMMA AssessStep ==
  ASSUME IInv, NEW w \in Workers, NEW p \in Packages, NEW bundle \in Package \cup {Absent},
         ~Assessing(w), Parses(packages[p]), Assess(w, p, bundle, packages[p].text),
         bundle # Absent => bundle.status \in reached[p]
  PROVE  IInv'
  <1> DEFINE package == packages[p].text
  <1>1. package \in Package
    BY Types DEF IInv, FileTypes, PackageFile, Parses
  <1>2. HandlerTypes /\ OtherTypes
    BY Types DEF IInv
  <1>3. /\ HandlerTypes' /\ OtherTypes'
        /\ UNCHANGED <<storeVars, otherVars, crashes>>
        /\ phase'[w] = "judging"
        /\ job'[w].pkg = p /\ job'[w].bundle = bundle /\ job'[w].read = package
        /\ job'[w].solo => \A v \in Workers : Assessing(v) => job[v].pkg # p
        /\ \A v \in Workers \ {w} :
             /\ phase'[v] = phase[v]
             /\ job'[v] = job[v] \/ /\ Assessing(v)
                                    /\ job'[v] = [job[v] EXCEPT !.solo = FALSE]
             /\ Assessing(v) /\ job[v].pkg = p => ~job'[v].solo
    BY <1>1, <1>2, AssessFact
  <1>4. /\ packages' = packages /\ objects' = objects /\ evidence' = evidence
        /\ reached' = reached /\ disturbed' = disturbed
    BY <1>3 DEF storeVars, otherVars
  <1>5. TypeOK'
    <2>1. FileTypes'
      BY <1>4, Types DEF IInv, FileTypes
    <2> QED
      BY <1>3, <2>1, Types
  <1>6. StoreInv' /\ \A q \in Packages : At(q)' = At(q)
    BY <1>3, <1>4, NothingMoves
  <1>7. /\ package.status \in reached[p] /\ package.status \in PackageStatus
        /\ p \notin disturbed => \A t \in reached[p] : NotBefore(package.status, t)
        /\ Agrees(package.complete, At(p))
    <2>1. PICK c : Agrees(c, At(p))
      BY DEF IInv, StoreInv
    <2>2. c = package.complete
      BY <2>1 DEF Agrees, At
    <2>3. package.status \in reached[p] /\ (p \notin disturbed => InOrder(p))
      BY DEF IInv, StoreInv
    <2> QED
      BY <1>1, <2>1, <2>2, <2>3 DEF InOrder, Package
  <1> HIDE DEF package
  <1>8. \A v \in Workers \ {w} :
          /\ job'[v].solo => job'[v] = job[v] \/ ~Assessing(v)
          /\ Assessing(v) =>
               /\ job'[v].pkg = job[v].pkg /\ job'[v].bundle = job[v].bundle
               /\ job'[v].read = job[v].read
               /\ job'[v].solo => job'[v] = job[v] /\ job[v].pkg # p
    <2>1. TAKE v \in Workers \ {w}
    <2>2. CASE job'[v] = job[v]
      BY <1>3, <2>2
    <2>3. CASE Assessing(v) /\ job'[v] = [job[v] EXCEPT !.solo = FALSE]
      <3>1. JobTyped(phase[v], job[v])
        BY <1>2 DEF HandlerTypes
      <3>2. job[v] \in Assessment(Package) \cup Assessment(Evidence)
        BY <2>3, <3>1 DEF JobTyped, Assessing
      <3> QED
        BY <2>3, <3>2 DEF Assessment
    <2> QED
      BY <1>3, <2>2, <2>3
  <1>9. HandlerInv'
    <2>1. ASSUME NEW v \in Workers
          PROVE  /\ phase'[v] \in Talking => Knows(phase'[v], job'[v], At(job[v].pkg)')
                 /\ phase'[v] = "listing" => Lists(job'[v], reached', disturbed')
      <3>1. CASE v = w
        <4>1. Knows("judging", job'[w], At(p))
          BY <1>3, <1>7 DEF Knows, Follows, At
        <4>2. At(job[w].pkg)' = At(p)
          <5>1. At(p)' = At(p)
            BY <1>6
          <5> QED
            BY <1>3, <5>1 DEF At
        <4> QED
          BY <1>3, <3>1, <4>1, <4>2 DEF Talking
      <3>2. CASE v # w /\ Assessing(v)
        <4>1. PICK q \in Packages : q = job[v].pkg
          BY <1>2, <3>2, HeldFields DEF HandlerTypes, Assessing, Talking
        <4>2. Knows(phase[v], job[v], At(q)) /\ phase'[v] = phase[v]
          BY <1>3, <3>2, <4>1 DEF IInv, HandlerInv, Assessing, Talking
        <4>3. Knows(phase[v], job'[v], At(q))
          BY <1>8, <3>2, <4>2 DEF Knows, Assessing
        <4>4. At(job[v].pkg)' = At(q)
          <5>1. At(q)' = At(q) /\ job'[v].pkg = q
            BY <1>6, <1>8, <3>2, <4>1
          <5> QED
            BY <5>1 DEF At
        <4> QED
          BY <3>2, <4>2, <4>3, <4>4 DEF Assessing
      <3>3. CASE v # w /\ ~Assessing(v)
        <4>1. phase'[v] = phase[v] /\ job'[v] = job[v]
          BY <1>3, <3>3
        <4>2. CASE phase[v] \in Talking
          <5>1. PICK q \in Packages : q = job[v].pkg
            BY <1>2, <4>2, HeldFields DEF HandlerTypes
          <5>2. At(job[v].pkg)' = At(job[v].pkg)
            <6>1. At(q)' = At(q)
              BY <1>6
            <6> QED
              BY <4>1, <5>1, <6>1 DEF At
          <5> QED
            BY <4>1, <4>2, <5>2 DEF IInv, HandlerInv, Talking
        <4>3. CASE phase[v] \notin Talking
          BY <1>4, <4>1, <4>3 DEF IInv, HandlerInv
        <4> QED
          BY <4>2, <4>3
      <3> QED
        BY <3>1, <3>2, <3>3
    <2> QED
      BY <2>1 DEF HandlerInv
  <1>10. EvidenceInv'
    BY <1>4, <1>6 DEF IInv, EvidenceInv
  <1>11. SoloInv'
    <2>1. ASSUME NEW v \in Workers, Assessing(v)', job'[v].solo
          PROVE  /\ \A u \in Workers \ {v} : Assessing(u)' => job'[u].pkg # job'[v].pkg
                 /\ Parses(evidence'[job'[v].pkg]) /\ job'[v].pkg \notin disturbed =>
                      NotBefore(Basis(phase'[v], job'[v]), evidence'[job'[v].pkg].text.basis)
      <3>1. CASE v = w
        <4>1. \A u \in Workers \ {w} : Assessing(u)' => Assessing(u) /\ job'[u].pkg = job[u].pkg
          BY <1>3, <1>8 DEF Assessing
        <4>2. \A u \in Workers \ {w} : Assessing(u)' => job'[u].pkg # p
          BY <1>3, <2>1, <3>1, <4>1
        <4>3. Parses(evidence[p]) => evidence[p].text.basis \in reached[p]
          BY DEF IInv, EvidenceInv, Justified, At
        <4>4. Basis(phase'[w], job'[w]) = package.status
          BY <1>3 DEF Basis
        <4> QED
          BY <1>3, <1>4, <1>7, <3>1, <4>2, <4>3, <4>4
      <3>2. CASE v # w
        <4>1. /\ Assessing(v) /\ phase'[v] = phase[v] /\ job'[v] = job[v]
              /\ job[v].solo /\ job[v].pkg # p
          BY <1>3, <1>8, <2>1, <3>2 DEF Assessing
        <4>2. /\ \A u \in Workers \ {v} : Assessing(u) => job[u].pkg # job[v].pkg
              /\ Parses(evidence[job[v].pkg]) /\ job[v].pkg \notin disturbed =>
                   NotBefore(Basis(phase[v], job[v]), evidence[job[v].pkg].text.basis)
          BY <4>1 DEF IInv, SoloInv
        <4>3. ASSUME NEW u \in Workers \ {v}, Assessing(u)'
              PROVE  job'[u].pkg # job'[v].pkg
          <5>1. CASE u = w
            BY <1>3, <4>1, <5>1
          <5>2. CASE u # w
            <6>1. Assessing(u) /\ job'[u].pkg = job[u].pkg
              BY <1>3, <1>8, <4>3, <5>2 DEF Assessing
            <6> QED
              BY <4>1, <4>2, <6>1
          <5> QED
            BY <5>1, <5>2
        <4> QED
          BY <1>4, <4>1, <4>2, <4>3
      <3> QED
        BY <3>1, <3>2
    <2> QED
      BY <1>4, <2>1 DEF SoloInv
  <1> QED
    BY <1>5, <1>6, <1>9, <1>10, <1>11 DEF IInv
-----------------------------------------------------------------------------
(* The actions of the handlers                                              *)

\* The rules find what there is to find.
LEMMA RulesFact ==
  ASSUME NEW package \in Package, NEW object \in Object \cup {Absent}, NEW x,
         package.status \in x.reached, Agrees(package.complete, x),
         object # Absent /\ object.sourced => x.sourced
  PROVE  /\ EvidenceOf(package, object).basis = package.status
         /\ Justified(EvidenceOf(package, object), x)
  <1> DEFINE failed == Failed(package, object)
             e == EvidenceOf(package, object)
  <1>1. e.basis = package.status /\ e.status = StatusOf(package, failed)
    BY DEF EvidenceOf
  <1>2. /\ "PACKAGE_CERTIFIED" \notin failed => package.status \in {"CERTIFIED", "RETRIEVAL_READY"}
        /\ "METADATA_COMPLETE" \notin failed => package.complete
        /\ "LINEAGE_REGISTERED" \notin failed => object # Absent /\ object.sourced
    BY DEF Failed, Rules
  <1>3. package.complete \in BOOLEAN
    BY DEF Package
  <1> HIDE DEF failed, e
  <1>4. ASSUME e.status \in {"RETRIEVABLE", "CERTIFIED_RETRIEVABLE"}
        PROVE  /\ failed = {}
               /\ e.status = IF package.status = "RETRIEVAL_READY" THEN "CERTIFIED_RETRIEVABLE"
                                                                   ELSE "RETRIEVABLE"
    BY <1>1, <1>4 DEF StatusOf
  <1>5. ASSUME e.status \in {"RETRIEVABLE", "CERTIFIED_RETRIEVABLE"}
        PROVE  /\ x.sourced /\ Agrees(TRUE, x)
               /\ e.basis = (IF e.status = "RETRIEVABLE" THEN "CERTIFIED" ELSE "RETRIEVAL_READY")
    <2>1. package.complete = TRUE
      BY <1>2, <1>3, <1>4, <1>5
    <2>2. x.sourced
      BY <1>2, <1>4, <1>5
    <2>3. Agrees(TRUE, x)
      BY <2>1
    <2>4. e.basis = (IF e.status = "RETRIEVABLE" THEN "CERTIFIED" ELSE "RETRIEVAL_READY")
      BY <1>1, <1>2, <1>4, <1>5
    <2> QED
      BY <2>2, <2>3, <2>4
  <1> QED
    BY <1>1, <1>5 DEF Justified, e

LEMMA AnswersStep ==
  ASSUME IInv, NEW w \in Workers, NEW status, Answers(w, status), UNCHANGED storeVars
  PROVE  IInv'
  <1>1. HandlerTypes /\ OtherTypes
    BY Types DEF IInv
  <1>2. /\ HandlerTypes' /\ OtherTypes' /\ Apart(w) /\ phase'[w] = "idle"
        /\ UNCHANGED otherVars
    BY <1>1, AnswersFact
  <1> QED
    BY <1>2, QuietStep DEF Talking, Assessing

\* What a busy handler holds.
LEMMA BusyFact ==
  ASSUME IInv, NEW w \in Workers, phase[w] \in Talking
  PROVE  /\ job[w].pkg \in Packages /\ JobTyped(phase[w], job[w])
         /\ Knows(phase[w], job[w], At(job[w].pkg))
  <1>1. JobTyped(phase[w], job[w])
    BY Types DEF IInv, HandlerTypes
  <1> QED
    BY <1>1, HeldFields DEF IInv, HandlerInv

LEMMA LookupBeginStep ==
  ASSUME IInv, NEW w \in Workers, NEW p \in Packages, LookupBegin(w, p)
  PROVE  IInv'
  <1> DEFINE held == [pkg |-> p, bundle |-> packages[p].text]
  <1>1. packages[p].text \in Package
    BY Types DEF IInv, FileTypes, PackageFile, Parses, LookupBegin
  <1>2. JobTyped("lineage", held)
    BY <1>1 DEF JobTyped, Lookup
  <1>3. HandlerTypes /\ OtherTypes
    BY Types DEF IInv
  <1>4. "lineage" \in Phases
    BY DEF Phases, Talking
  <1>5. GoesOn(w, "lineage", held) /\ UNCHANGED storeVars
    BY DEF LookupBegin
  <1>6. packages[p].text.status \in reached[p]
    BY DEF LookupBegin, IInv, StoreInv
  <1>7. held.pkg = p /\ Knows("lineage", held, At(p))
    BY <1>6 DEF Knows, At
  <1> HIDE DEF held
  <1>8. /\ HandlerTypes' /\ OtherTypes' /\ Apart(w) /\ phase'[w] = "lineage"
        /\ job'[w] = held /\ UNCHANGED otherVars
    BY <1>2, <1>3, <1>4, <1>5, GoesOnFact
  <1> QED
    BY <1>5, <1>7, <1>8, QuietStep DEF Assessing, Talking

LEMMA LookupLineageStep ==
  ASSUME IInv, NEW w \in Workers, LookupLineage(w)
  PROVE  IInv'
  <1>1. phase[w] = "lineage" /\ UNCHANGED storeVars
    BY DEF LookupLineage
  <1>2. CASE Answers(w, "500")
    BY <1>1, <1>2, AnswersStep
  <1>3. CASE GoesOn(w, "readiness", job[w])
    <2>1. JobTyped("lineage", job[w]) /\ Knows("lineage", job[w], At(job[w].pkg))
      BY <1>1, BusyFact DEF Talking
    <2>2. JobTyped("readiness", job[w]) /\ Knows("readiness", job[w], At(job[w].pkg))
      BY <2>1 DEF JobTyped, Knows
    <2>3. HandlerTypes /\ OtherTypes /\ "readiness" \in Phases
      BY Types DEF IInv, Phases, Talking
    <2>4. /\ HandlerTypes' /\ OtherTypes' /\ Apart(w) /\ phase'[w] = "readiness"
          /\ job'[w] = job[w] /\ UNCHANGED otherVars
      BY <1>3, <2>2, <2>3, GoesOnFact
    <2> QED
      BY <1>1, <2>2, <2>4, QuietStep DEF Assessing, Talking
  <1> QED
    BY <1>2, <1>3 DEF LookupLineage

LEMMA AssessBeginStep ==
  ASSUME IInv, NEW w \in Workers, NEW p \in Packages, AssessBegin(w, p)
  PROVE  IInv'
  <1>1. ~Assessing(w) /\ Parses(packages[p]) /\ Assess(w, p, Absent, packages[p].text)
    BY DEF AssessBegin, Assessing
  <1> QED
    BY <1>1, AssessStep

LEMMA LookupAssessStep ==
  ASSUME IInv, NEW w \in Workers, LookupAssess(w)
  PROVE  IInv'
  <1>1. phase[w] = "readiness"
    BY DEF LookupAssess
  <1>2. CASE Answers(w, "500") /\ UNCHANGED storeVars
    BY <1>2, AnswersStep
  <1>3. CASE Parses(packages[job[w].pkg])
             /\ Assess(w, job[w].pkg, job[w].bundle, packages[job[w].pkg].text)
    <2>1. /\ job[w].pkg \in Packages /\ job[w].bundle \in Package
          /\ job[w].bundle.status \in reached[job[w].pkg]
      BY <1>1, BusyFact, HeldFields DEF Talking, Knows, At
    <2>2. ~Assessing(w)
      BY <1>1 DEF Assessing
    <2> QED
      BY <1>3, <2>1, <2>2, AssessStep
  <1> QED
    BY <1>2, <1>3 DEF LookupAssess

LEMMA JudgeStep ==
  ASSUME IInv, NEW w \in Workers, Judge(w)
  PROVE  IInv'
  <1> DEFINE file == objects[job[w].pkg]
             read == EvidenceOf(job[w].read, file.text)
             held == [job[w] EXCEPT !.read = EvidenceOf(@, file.text)]
  <1>1. phase[w] = "judging" /\ UNCHANGED storeVars
    BY DEF Judge
  <1>2. CASE Answers(w, "500")
    BY <1>1, <1>2, AnswersStep
  <1>3. CASE (Exists(file) => Parses(file)) /\ GoesOn(w, "saving", held)
    <2>1. /\ job[w].pkg \in Packages /\ job[w] \in Assessment(Package)
          /\ Knows("judging", job[w], At(job[w].pkg))
      BY <1>1, BusyFact DEF Talking, JobTyped
    <2>2. file.text \in Object \cup {Absent}
      <3>1. file \in ObjectFile
        BY <2>1, Types DEF IInv, FileTypes
      <3> QED
        BY <1>3, <3>1 DEF ObjectFile, Exists, Parses
    <2>3. file.text # Absent /\ file.text.sourced => At(job[w].pkg).sourced
      <3>1. file.text # Absent => Parses(file)
        BY <1>3 DEF Exists
      <3> QED
        BY <2>1, <3>1 DEF IInv, StoreInv, At
    <2>4. job[w].read \in Package
      BY <2>1 DEF Assessment
    <2>5. /\ read \in Evidence /\ read.basis = job[w].read.status
          /\ Justified(read, At(job[w].pkg))
      BY <2>1, <2>2, <2>3, <2>4, EvidenceType, RulesFact DEF Knows
    <2> HIDE DEF file
    <2>6. held = [job[w] EXCEPT !.read = read]
      BY <2>1 DEF Assessment
    <2> HIDE DEF read, held
    <2>7. /\ held \in Assessment(Evidence) /\ held.read = read
          /\ held.pkg = job[w].pkg /\ held.bundle = job[w].bundle /\ held.solo = job[w].solo
      BY <2>1, <2>5, <2>6 DEF Assessment
    <2>8. JobTyped("saving", held) /\ Knows("saving", held, At(held.pkg))
      BY <2>1, <2>5, <2>7 DEF JobTyped, Knows
    <2>9. HandlerTypes /\ OtherTypes /\ "saving" \in Phases
      BY Types DEF IInv, Phases, Talking
    <2>10. /\ HandlerTypes' /\ OtherTypes' /\ Apart(w) /\ phase'[w] = "saving"
           /\ job'[w] = held /\ UNCHANGED otherVars
      BY <1>3, <2>8, <2>9, GoesOnFact
    <2>11. Basis(phase'[w], job'[w]) = Basis(phase[w], job[w])
      BY <1>1, <2>5, <2>7, <2>10 DEF Basis
    <2> QED
      BY <1>1, <2>7, <2>8, <2>10, <2>11, QuietStep DEF Assessing, Talking
  <1> QED
    BY <1>2, <1>3 DEF Judge
\* A save of evidence, first or second half: w works on the file of its
\* package, on which no handler is alone but w itself.
LEMMA SaveStep ==
  ASSUME IInv, NEW w \in Workers, Apart(w), HandlerTypes', OtherTypes',
         UNCHANGED <<packages, objects, otherVars>>,
         phase[w] \in {"saving", "opened"}, phase'[w] \notin {"judging", "saving", "listing"},
         phase'[w] \in Talking => job'[w] = job[w] /\ Knows(phase'[w], job[w], At(job[w].pkg)),
         NEW file \in EvidenceFile,
         evidence' = [evidence EXCEPT ![job[w].pkg] = file],
         Parses(file) => phase[w] = "opened" /\ phase'[w] # "opened" /\ file.text = job[w].read
  PROVE  IInv'
  <1>1. PICK p \in Packages : p = job[w].pkg
    BY BusyFact DEF Talking
  <1>2. JobTyped(phase[w], job[w]) /\ Knows(phase[w], job[w], At(p))
    BY <1>1, BusyFact DEF Talking
  <1>3. FileTypes /\ OtherTypes /\ HandlerTypes
    BY Types DEF IInv
  <1>4. /\ evidence' \in [Packages -> EvidenceFile]
        /\ evidence'[p] = file
        /\ \A q \in Packages \ {p} : evidence'[q] = evidence[q]
    BY <1>1, <1>3 DEF FileTypes
  <1>5. TypeOK'
    BY <1>3, <1>4, Types DEF FileTypes
  <1>6. StoreInv' /\ \A q \in Packages : At(q)' = At(q)
    BY NothingMoves
  <1>7. HandlerInv'
    <2>1. phase'[w] \in Talking => Knows(phase'[w], job'[w], At(job'[w].pkg))
      OBVIOUS
    <2> QED
      BY <2>1, HandlersKeep
  <1>8. EvidenceInv'
    <2>1. Parses(file) => Justified(file.text, At(p))
      BY <1>2 DEF Knows
    <2> QED
      BY <1>4, <1>6, <2>1 DEF IInv, EvidenceInv
  <1>9. SoloInv'
    <2>1. ASSUME NEW v \in Workers, Assessing(v)', job'[v].solo
          PROVE  /\ \A u \in Workers \ {v} : Assessing(u)' => job'[u].pkg # job'[v].pkg
                 /\ Parses(evidence'[job'[v].pkg]) /\ job'[v].pkg \notin disturbed =>
                      NotBefore(Basis(phase'[v], job'[v]), evidence'[job'[v].pkg].text.basis)
      <3>1. \A u \in Workers : Assessing(u)' => Assessing(u) /\ job'[u] = job[u]
        BY DEF Apart, Assessing, Talking
      <3>2. /\ \A u \in Workers \ {v} : Assessing(u) => job[u].pkg # job[v].pkg
            /\ Parses(evidence[job[v].pkg]) /\ job[v].pkg \notin disturbed =>
                 NotBefore(Basis(phase[v], job[v]), evidence[job[v].pkg].text.basis)
        BY <2>1, <3>1 DEF IInv, SoloInv
      <3> disturbed' = disturbed
        BY DEF otherVars
      <3>3. CASE v = w
        <4>1. ~Parses(file)
          BY <2>1, <3>3 DEF Assessing
        <4> QED
          BY <1>1, <1>4, <3>1, <3>2, <3>3, <2>1, <4>1
      <3>4. CASE v # w
        <4>1. Assessing(w) /\ job[v].pkg # p
          BY <1>1, <3>2, <3>4 DEF Assessing
        <4>2. job[v].pkg \in Packages /\ phase'[v] = phase[v]
          BY <2>1, <3>1, <3>4, BusyFact DEF Apart, Assessing, Talking
        <4>3. evidence'[job'[v].pkg] = evidence[job[v].pkg]
          BY <1>4, <2>1, <3>1, <4>1, <4>2
        <4> QED
          BY <2>1, <3>1, <3>2, <4>2, <4>3
      <3> QED
        BY <3>3, <3>4
    <2> QED
      BY <2>1 DEF SoloInv, otherVars
  <1> QED
    BY <1>5, <1>6, <1>7, <1>8, <1>9 DEF IInv

LEMMA OpenStep ==
  ASSUME IInv, NEW w \in Workers, Open(w)
  PROVE  IInv'
  <1>1. /\ phase[w] = "saving" /\ GoesOn(w, "opened", job[w])
        /\ evidence' = [evidence EXCEPT ![job[w].pkg] = Truncated]
        /\ packages' = packages /\ objects' = objects
    BY DEF Open
  <1>2. JobTyped("saving", job[w]) /\ Knows("saving", job[w], At(job[w].pkg))
    BY <1>1, BusyFact DEF Talking
  <1>3. JobTyped("opened", job[w]) /\ Knows("opened", job[w], At(job[w].pkg))
    BY <1>2 DEF JobTyped, Knows
  <1>4. HandlerTypes /\ OtherTypes /\ "opened" \in Phases
    BY Types DEF IInv, Phases, Talking
  <1>5. /\ HandlerTypes' /\ OtherTypes' /\ Apart(w) /\ phase'[w] = "opened"
        /\ job'[w] = job[w] /\ UNCHANGED otherVars
    BY <1>1, <1>3, <1>4, GoesOnFact
  <1>6. Truncated \in EvidenceFile /\ ~Parses(Truncated)
    BY TruncatedFact DEF EvidenceFile
  <1> QED
    BY <1>1, <1>3, <1>5, <1>6, SaveStep

LEMMA FlushStep ==
  ASSUME IInv, NEW w \in Workers, Flush(w)
  PROVE  IInv'
  <1> DEFINE file == Written(evidence[job[w].pkg], job[w].read)
  <1>1. /\ phase[w] = "opened" /\ evidence' = [evidence EXCEPT ![job[w].pkg] = file]
        /\ packages' = packages /\ objects' = objects
        /\ IF job[w].bundle = Absent THEN Answers(w, "200") ELSE GoesOn(w, "reporting", job[w])
    BY DEF Flush
  <1>2. /\ JobTyped("opened", job[w]) /\ Knows("opened", job[w], At(job[w].pkg))
        /\ job[w].pkg \in Packages
    BY <1>1, BusyFact DEF Talking
  <1>3. job[w].read \in Evidence
    BY <1>2 DEF JobTyped, Assessment
  <1>4. evidence[job[w].pkg] \in EvidenceFile
    BY <1>2, Types DEF IInv, FileTypes
  <1>5. file \in EvidenceFile /\ (Parses(file) => file.text = job[w].read)
    <2>1. job[w].read.size \in Nat /\ job[w].read \notin NotAText
      BY <1>3, NoSentinel DEF Evidence
    <2> QED
      BY <1>3, <1>4, <2>1, WrittenFact DEF EvidenceFile
  <1> HIDE DEF file
  <1>6. HandlerTypes /\ OtherTypes /\ "reporting" \in Phases
    BY Types DEF IInv, Phases, Talking
  <1>7. CASE job[w].bundle = Absent
    <2>1. /\ HandlerTypes' /\ OtherTypes' /\ Apart(w) /\ phase'[w] = "idle"
          /\ UNCHANGED otherVars
      BY <1>1, <1>6, <1>7, AnswersFact
    <2> QED
      BY <1>1, <1>5, <2>1, SaveStep DEF Talking
  <1>8. CASE job[w].bundle # Absent
    <2>1. JobTyped("reporting", job[w]) /\ Knows("reporting", job[w], At(job[w].pkg))
      BY <1>2, <1>8 DEF JobTyped, Knows
    <2>2. /\ HandlerTypes' /\ OtherTypes' /\ Apart(w) /\ phase'[w] = "reporting"
          /\ job'[w] = job[w] /\ UNCHANGED otherVars
      BY <1>1, <1>6, <1>8, <2>1, GoesOnFact
    <2> QED
      BY <1>1, <1>5, <2>1, <2>2, SaveStep
  <1> QED
    BY <1>7, <1>8

LEMMA DiscoverBeginStep ==
  ASSUME IInv, NEW w \in Workers, DiscoverBegin(w)
  PROVE  IInv'
  <1> DEFINE held == [todo |-> {p \in Packages : Exists(packages[p])},
                      found |-> [p \in Packages |-> NoStatus],
                      began |-> reached]
  <1>1. GoesOn(w, "listing", held) /\ UNCHANGED storeVars
    BY DEF DiscoverBegin
  <1>2. JobTyped("listing", held)
    BY Types DEF IInv, OtherTypes, JobTyped, Listing
  <1>3. Lists(held, reached, disturbed)
    BY DEF IInv, StoreInv, Lists
  <1> HIDE DEF held
  <1>4. HandlerTypes /\ OtherTypes /\ "listing" \in Phases
    BY Types DEF IInv, Phases
  <1>5. /\ HandlerTypes' /\ OtherTypes' /\ Apart(w) /\ phase'[w] = "listing"
        /\ job'[w] = held /\ UNCHANGED otherVars
    BY <1>1, <1>2, <1>4, GoesOnFact
  <1> QED
    BY <1>1, <1>3, <1>5, QuietStep DEF Assessing, Talking

LEMMA DiscoverReadsStep ==
  ASSUME IInv, NEW w \in Workers, NEW p \in Packages, DiscoverReads(w, p)
  PROVE  IInv'
  <1> DEFINE status == packages[p].text.status
             held == [job[w] EXCEPT !.todo = @ \ {p}, !.found[p] = status]
  <1>1. phase[w] = "listing" /\ UNCHANGED storeVars
    BY DEF DiscoverReads
  <1>2. CASE Answers(w, "500")
    BY <1>1, <1>2, AnswersStep
  <1>3. CASE Parses(packages[p]) /\ GoesOn(w, "listing", held)
    <2>1. JobTyped("listing", job[w]) /\ Lists(job[w], reached, disturbed)
      BY <1>1, Types DEF IInv, HandlerTypes, HandlerInv
    <2>2. job[w] \in Listing
      BY <2>1 DEF JobTyped
    <2>3. /\ status \in PackageStatus /\ status \in reached[p]
          /\ p \notin disturbed => \A t \in reached[p] : NotBefore(status, t)
      <3>1. packages[p].text \in Package
        BY <1>3, Types DEF IInv, FileTypes, PackageFile, Parses
      <3>2. status \in reached[p] /\ (p \notin disturbed => InOrder(p))
        BY <1>3 DEF IInv, StoreInv
      <3> QED
        BY <1>3, <3>1, <3>2 DEF InOrder, Package
    <2> HIDE DEF status
    <2>4. /\ held \in Listing /\ held.began = job[w].began
          /\ held.todo = job[w].todo \ {p}
          /\ held.found = [job[w].found EXCEPT ![p] = status]
      BY <2>2, <2>3 DEF Listing
    <2>5. /\ held.found[p] = status
          /\ \A q \in Packages \ {p} : held.found[q] = job[w].found[q]
      BY <2>2, <2>4 DEF Listing
    <2> HIDE DEF held
    <2>6. Lists(held, reached, disturbed)
      BY <2>1, <2>3, <2>4, <2>5 DEF Lists
    <2>7. JobTyped("listing", held)
      BY <2>4 DEF JobTyped
    <2>8. HandlerTypes /\ OtherTypes /\ "listing" \in Phases
      BY Types DEF IInv, Phases
    <2>9. /\ HandlerTypes' /\ OtherTypes' /\ Apart(w) /\ phase'[w] = "listing"
          /\ job'[w] = held /\ UNCHANGED otherVars
      BY <1>3, <2>7, <2>8, GoesOnFact
    <2> QED
      BY <1>1, <2>6, <2>9, QuietStep DEF Assessing, Talking
  <1> QED
    BY <1>2, <1>3 DEF DiscoverReads

LEMMA HandlerStep ==
  ASSUME IInv, NEW w \in Workers, Request(w) \/ Step(w)
  PROVE  IInv'
  <1>1. CASE \E p \in Assessed : NotAssessed(w, p)
    BY <1>1, AnswersStep DEF NotAssessed
  <1>2. CASE \E p \in Assessed : AssessBegin(w, p)
    BY <1>2, AssessBeginStep, PackagesAssumption
  <1>3. CASE \E p \in Assessed : LookupBegin(w, p)
    BY <1>3, LookupBeginStep, PackagesAssumption
  <1>4. CASE DiscoverBegin(w)
    BY <1>4, DiscoverBeginStep
  <1>5. CASE LookupLineage(w)
    BY <1>5, LookupLineageStep
  <1>6. CASE LookupAssess(w)
    BY <1>6, LookupAssessStep
  <1>7. CASE Judge(w)
    BY <1>7, JudgeStep
  <1>8. CASE Open(w)
    BY <1>8, OpenStep
  <1>9. CASE Flush(w)
    BY <1>9, FlushStep
  <1>10. CASE LookupAnswers(w)
    BY <1>10, AnswersStep DEF LookupAnswers
  <1>11. CASE \E p \in Packages : DiscoverReads(w, p)
    BY <1>11, DiscoverReadsStep
  <1>12. CASE DiscoverAnswers(w)
    BY <1>12, AnswersStep DEF DiscoverAnswers
  <1> QED
    BY <1>1, <1>2, <1>3, <1>4, <1>5, <1>6, <1>7, <1>8, <1>9, <1>10, <1>11, <1>12
       DEF Request, Step
-----------------------------------------------------------------------------
(* The actions of others                                                    *)

LEMMA OthersKeep ==
  ASSUME IInv, UNCHANGED <<evidence, phase, job>>, TypeOK', StoreInv',
         \A q \in Packages : Later(At(q), At(q)')
  PROVE  IInv'
  <1>1. HandlerInv'
    <2>1. ASSUME NEW w \in Workers, phase[w] \in Talking
          PROVE  Knows(phase[w], job[w], At(job[w].pkg)')
      <3>1. PICK q \in Packages : q = job[w].pkg
        BY <2>1, BusyFact
      <3>2. Knows(phase[w], job[w], At(q))
        BY <2>1, <3>1, BusyFact
      <3>3. Knows(phase[w], job[w], At(q)')
        BY <3>2, KnowsLater
      <3>4. At(job[w].pkg)' = At(q)'
        BY <3>1 DEF At, Recs, Savers, Saves
      <3> QED
        BY <3>3, <3>4
    <2>2. \A q \in Packages : reached[q] \subseteq reached'[q]
      BY DEF Later, At
    <2>3. disturbed \subseteq disturbed'
      <3>1. disturbed \subseteq Packages
        BY Types DEF IInv, OtherTypes
      <3> QED
        BY <3>1 DEF Later, At
    <2>4. \A w \in Workers : phase[w] = "listing" => Lists(job[w], reached', disturbed')
      BY <2>2, <2>3, ListsLater DEF IInv, HandlerInv
    <2> QED
      BY <2>1, <2>4 DEF HandlerInv
  <1>2. EvidenceInv'
    <2>1. ASSUME NEW q \in Packages, Parses(evidence[q])
          PROVE  Justified(evidence[q].text, At(q)')
      BY <2>1, JustifiedLater DEF IInv, EvidenceInv
    <2> QED
      BY <2>1 DEF EvidenceInv
  <1>3. SoloInv'
    <2>1. ASSUME NEW w \in Workers, Assessing(w)
          PROVE  job[w].pkg \notin disturbed' => job[w].pkg \notin disturbed
      <3>1. job[w].pkg \in Packages
        BY <2>1, BusyFact DEF Assessing, Talking
      <3> QED
        BY <3>1 DEF Later, At
    <2> QED
      BY <2>1 DEF IInv, SoloInv, Assessing
  <1> QED
    BY <1>1, <1>2, <1>3 DEF IInv

LEMMA LaterReflexive == \A x : Later(x, x)
  BY DEF Later

\* The saves under way of other packages, and of objects, are not touched by
\* one handler's load, opening or write.
LEMMA SaversKeep ==
  ASSUME NEW o \in Others, NEW p \in Packages,
         \A r \in Others \ {o} : saving'[r] = saving[r],
         saving[o] # NoJob => saving[o].pkg = p, saving'[o] # NoJob => saving'[o].pkg = p
  PROVE  /\ \A q \in Packages \ {p} : Savers(q)' = Savers(q) /\ Recs(q)' = Recs(q)
         /\ Savers(p)' \subseteq Savers(p) \cup {o}
         /\ saving'[o] = NoJob => Savers(p)' = Savers(p) \ {o} /\ Recs(p)' \subseteq Recs(p)
         /\ saving'[o] # NoJob => Recs(p)' \subseteq Recs(p) \cup {saving'[o].record}
  <1>1. \A q : /\ Savers(q)' = {r \in Others : saving'[r] # NoJob /\ saving'[r].kind = "package"
                                              /\ saving'[r].pkg = q}
               /\ Savers(q) = {r \in Others : saving[r] # NoJob /\ saving[r].kind = "package"
                                              /\ saving[r].pkg = q}
    BY DEF Savers, Saves
  <1>2. \A q : \A r \in Others \ {o} : r \in Savers(q)' <=> r \in Savers(q)
    BY <1>1
  <1>3. \A q \in Packages \ {p} : o \notin Savers(q) /\ o \notin Savers(q)'
    BY <1>1
  <1>4. \A q : Savers(q) \subseteq Others /\ Savers(q)' \subseteq Others
    BY <1>1
  <1>5. ASSUME NEW q \in Packages \ {p}
        PROVE  Savers(q)' = Savers(q) /\ Recs(q)' = Recs(q)
    <2>1. o \notin Savers(q) /\ o \notin Savers(q)'
      BY <1>3
    <2>2. \A r \in Others \ {o} : r \in Savers(q)' <=> r \in Savers(q)
      BY <1>2
    <2>3. Savers(q)' = Savers(q)
      BY <1>4, <2>1, <2>2
    <2>4. \A r \in Savers(q) : saving'[r] = saving[r]
      BY <1>4, <2>1
    <2> QED
      BY <2>3, <2>4 DEF Recs
  <1>6. \A r \in Savers(p)' : r = o \/ (r \in Savers(p) /\ saving'[r] = saving[r])
    BY <1>2, <1>4
  <1>7. ASSUME saving'[o] = NoJob
        PROVE  Savers(p)' = Savers(p) \ {o} /\ Recs(p)' \subseteq Recs(p)
    <2>1. o \notin Savers(p)'
      BY <1>1, <1>7
    <2>2. \A r \in Others \ {o} : r \in Savers(p)' <=> r \in Savers(p)
      BY <1>2
    <2>3. Savers(p)' = Savers(p) \ {o}
      BY <1>4, <2>1, <2>2
    <2> QED
      BY <1>6, <2>1, <2>3 DEF Recs
  <1>8. saving'[o] # NoJob => Recs(p)' \subseteq Recs(p) \cup {saving'[o].record}
    BY <1>6 DEF Recs
  <1> QED
    BY <1>5, <1>6, <1>7, <1>8

\* Saves of objects touch none of them.
LEMMA SaversSame ==
  ASSUME NEW o \in Others, \A r \in Others \ {o} : saving'[r] = saving[r],
         \/ /\ saving[o] # NoJob => saving[o].kind = "object"
            /\ saving'[o] # NoJob => saving'[o].kind = "object"
         \/ /\ saving[o] # NoJob /\ saving'[o] # NoJob
            /\ saving'[o].kind = saving[o].kind /\ saving'[o].pkg = saving[o].pkg
            /\ saving'[o].record = saving[o].record
  PROVE  \A q \in Packages : Savers(q)' = Savers(q) /\ Recs(q)' = Recs(q)
  <1> SUFFICES ASSUME NEW q \in Packages PROVE Savers(q)' = Savers(q) /\ Recs(q)' = Recs(q)
    OBVIOUS
  <1>1. \A r \in Others : Saves(r, "package", q)' <=> Saves(r, "package", q)
    BY DEF Saves
  <1>2. Savers(q)' = Savers(q)
    BY <1>1 DEF Savers
  <1>3. \A r \in Savers(q) : saving'[r].record = saving[r].record
    BY DEF Savers, Saves
  <1> QED
    BY <1>2, <1>3 DEF Recs

\* Fewer saves under way keep what is known of a package whose file, object and
\* history stay.
LEMMA StaysInOrder ==
  ASSUME NEW p \in Packages, InOrder(p), Savers(p)' \subseteq Savers(p),
         Recs(p)' \subseteq Recs(p), reached'[p] = reached[p],
         packages'[p] = packages[p] \/ ~Parses(packages'[p])
  PROVE  InOrder(p)'
  BY DEF InOrder

LEMMA AgreesLess ==
  ASSUME NEW p \in Packages, Recs(p)' \subseteq Recs(p),
         packages'[p] = packages[p] \/ ~Parses(packages'[p])
  PROVE  \A c : Agrees(c, At(p)) => Agrees(c, At(p)')
  BY DEF Agrees, At

\* A handler has loaded a package and is about to save record, a registration
\* or a promotion.
LEMMA PackageBeginStep ==
  ASSUME IInv, NEW o \in Others, NEW p \in Packages, NEW record \in Package,
         Prepares(o, "package", p, record),
         disturbed \subseteq disturbed', disturbed' \subseteq disturbed \cup {p},
         p \notin disturbed' => Savers(p) = {},
         \/ ~Exists(packages[p]) /\ Savers(p) = {}
         \/ /\ Parses(packages[p]) /\ record.complete = packages[p].text.complete
            /\ NotBefore(record.status, packages[p].text.status)
  PROVE  IInv'
  <1> DEFINE new == [kind |-> "package", pkg |-> p, record |-> record, opened |-> FALSE]
  <1>1. /\ saving[o] = NoJob /\ saving' = [saving EXCEPT ![o] = new] /\ moves' = moves + 1
        /\ UNCHANGED <<packages, objects, evidence, reached, sourced, phase, job, crashes>>
    BY DEF Prepares, storeVars, handlerVars
  <1>2. FileTypes /\ OtherTypes /\ HandlerTypes
    BY Types DEF IInv
  <1>3. /\ new \in Save /\ new # NoJob /\ new.kind = "package" /\ new.pkg = p
        /\ new.record = record
    <2>1. new \in SaveOf("package", Package)
      BY DEF SaveOf
    <2>2. new \in Save
      BY <2>1 DEF Save
    <2>3. NoJob \notin Save
      BY SentinelAssumption
    <2>4. new.kind = "package" /\ new.pkg = p /\ new.record = record
      OBVIOUS
    <2> HIDE DEF new
    <2> QED
      BY <2>2, <2>3, <2>4
  <1> HIDE DEF new
  <1>4. saving \in [Others -> Save \cup {NoJob}] /\ saving' \in [Others -> Save \cup {NoJob}]
    BY <1>1, <1>2, <1>3 DEF OtherTypes
  <1>5. /\ \A q \in Packages \ {p} : Savers(q)' = Savers(q) /\ Recs(q)' = Recs(q)
        /\ Savers(p)' \subseteq Savers(p) \cup {o}
        /\ Recs(p)' \subseteq Recs(p) \cup {record}
    <2>1. saving'[o] = new /\ \A r \in Others \ {o} : saving'[r] = saving[r]
      BY <1>1, <1>4
    <2> QED
      BY <1>1, <1>3, <2>1, SaversKeep
  <1>6. TypeOK'
    <2>1. FileTypes' /\ HandlerTypes'
      BY <1>1, <1>2 DEF FileTypes, HandlerTypes
    <2>2. OtherTypes'
      BY <1>1, <1>2, <1>4 DEF OtherTypes
    <2> QED
      BY <2>1, <2>2, Types
  <1>7. \A q \in Packages \ {p} : At(q)' = At(q)
    BY <1>1, <1>5 DEF At
  <1>8. \A c : Agrees(c, At(p)) /\ (Parses(packages[p]) \/ c = record.complete) =>
          Agrees(c, At(p)')
    <2> SUFFICES ASSUME NEW c, Agrees(c, At(p)), Parses(packages[p]) \/ c = record.complete
                 PROVE  Agrees(c, At(p)')
      OBVIOUS
    <2>1. record.complete = c
      BY DEF Agrees, At, Exists, Parses, NotAText
    <2>2. \A r \in Recs(p)' : r.complete = c
      BY <1>5, <2>1 DEF Agrees, At
    <2> QED
      BY <1>1, <2>2 DEF Agrees, At
  <1>9. Savers(p) = {} => Recs(p) = {}
    BY DEF Recs
  <1>10. \E c : Agrees(c, At(p)')
    <2>1. CASE ~Exists(packages[p]) /\ Savers(p) = {}
      <3>1. Agrees(record.complete, At(p))
        BY <1>9, <2>1, NoSentinel DEF Agrees, At, Exists, Parses
      <3> QED
        BY <1>8, <3>1
    <2>2. CASE Parses(packages[p])
      BY <1>8, <2>2 DEF IInv, StoreInv
    <2> QED
      BY <2>1, <2>2
  <1>11. reached[p] # {} => Parses(packages[p])
    BY DEF IInv, StoreInv
  <1>12. Later(At(p), At(p)')
    <2>1. At(p).reached = reached[p] /\ At(p)'.reached = reached[p]
      BY <1>1 DEF At
    <2>2. At(p).sourced = At(p)'.sourced /\ (At(p).disturbed => At(p)'.disturbed)
      BY <1>1 DEF At
    <2>3. reached[p] # {} => \A c : Agrees(c, At(p)) => Agrees(c, At(p)')
      BY <1>8, <1>11
    <2> QED
      BY <2>1, <2>2, <2>3 DEF Later
  <1>13. ASSUME p \notin disturbed'
         PROVE  InOrder(p)'
    <2>1. Savers(p) = {} /\ Recs(p) = {} /\ InOrder(p)
      BY <1>9, <1>13 DEF IInv, StoreInv
    <2>2. Savers(p)' \subseteq {o} /\ Recs(p)' \subseteq {record}
      BY <1>5, <2>1
    <2>3. ASSUME NEW t \in reached[p]
          PROVE  NotBefore(record.status, t)
      <3>1. packages[p].text \in Package
        BY <1>2, <1>11, <2>3 DEF FileTypes, PackageFile, Parses
      <3>2. NotBefore(record.status, packages[p].text.status) /\ NotBefore(packages[p].text.status, t)
        BY <1>11, <2>1, <2>3 DEF InOrder, Exists, Parses, NotAText
      <3>3. t \in PackageStatus
        BY <1>2, <2>3 DEF OtherTypes
      <3> QED
        BY <3>1, <3>2, <3>3, NotBeforeFacts DEF Package
    <2> QED
      BY <1>1, <2>1, <2>2, <2>3 DEF InOrder
  <1>14. StoreInv'
    <2>1. ASSUME NEW q \in Packages \ {p}
          PROVE  q \in disturbed' \/ InOrder(q)'
      BY <1>1, <1>5, StaysInOrder DEF IInv, StoreInv
    <2>2. \A q \in Packages : q \in disturbed' \/ InOrder(q)'
      BY <1>13, <2>1
    <2>3. \A q \in Packages : \E c : Agrees(c, At(q)')
      BY <1>7, <1>10 DEF IInv, StoreInv
    <2> QED
      BY <1>1, <2>2, <2>3 DEF IInv, StoreInv
  <1>15. \A q \in Packages : Later(At(q), At(q)')
    BY <1>7, <1>12, LaterReflexive
  <1> QED
    BY <1>1, <1>6, <1>14, <1>15, OthersKeep

LEMMA RegisterBeginStep ==
  ASSUME IInv, NEW o \in Others, NEW p \in Packages, RegisterBegin(o, p)
  PROVE  IInv'
  <1>1. PICK c \in BOOLEAN :
          Prepares(o, "package", p, [status |-> "REGISTERED", complete |-> c, size |-> 1])
    BY DEF RegisterBegin
  <1>2. [status |-> "REGISTERED", complete |-> c, size |-> 1] \in Package
    BY DEF Package, PackageStatus
  <1>3. Savers(p) = {} /\ ~Exists(packages[p]) /\ disturbed' = disturbed
    BY DEF RegisterBegin, Savers
  <1> QED
    BY <1>1, <1>2, <1>3, PackageBeginStep

LEMMA PromoteBeginStep ==
  ASSUME IInv, NEW o \in Others, NEW p \in Packages, PromoteBegin(o, p)
  PROVE  IInv'
  <1> DEFINE old == packages[p].text
  <1>1. PICK to \in PackageStatus :
          /\ CanMove(old, to)
          /\ Prepares(o, "package", p, [old EXCEPT !.status = to, !.size = @ + 1])
    BY DEF PromoteBegin
  <1> DEFINE record == [old EXCEPT !.status = to, !.size = @ + 1]
  <1>2. Parses(packages[p]) /\ old \in Package
    BY Types DEF IInv, FileTypes, PackageFile, Parses, PromoteBegin
  <1>3. record \in Package /\ record.complete = old.complete /\ record.status = to
    <2> HIDE DEF old
    <2>1. old.size + 1 \in Nat
      BY <1>2 DEF Package
    <2> QED
      BY <1>2, <2>1 DEF Package
  <1>4. NotBefore(to, old.status)
    BY <1>1, <1>2, MovesOn DEF Package
  <1>5. /\ disturbed \subseteq disturbed' /\ disturbed' \subseteq disturbed \cup {p}
        /\ p \notin disturbed' => Savers(p) = {}
    BY DEF PromoteBegin, Savers
  <1>6. Prepares(o, "package", p, record)
    BY <1>1
  <1> HIDE DEF record
  <1> QED
    BY <1>2, <1>3, <1>4, <1>5, <1>6, PackageBeginStep

LEMMA ObjectBeginStep ==
  ASSUME IInv, NEW o \in Others, NEW p \in Packages, ObjectBegin(o, p)
  PROVE  IInv'
  <1>1. PICK object \in Object : Prepares(o, "object", p, object)
    BY DEF ObjectBegin
  <1> DEFINE new == [kind |-> "object", pkg |-> p, record |-> object, opened |-> FALSE]
  <1>2. /\ saving[o] = NoJob /\ saving' = [saving EXCEPT ![o] = new] /\ moves' = moves + 1
        /\ UNCHANGED <<packages, objects, evidence, reached, sourced, disturbed, phase, job, crashes>>
    BY <1>1 DEF ObjectBegin, Prepares, storeVars, handlerVars
  <1>3. FileTypes /\ OtherTypes /\ HandlerTypes
    BY Types DEF IInv
  <1>4. new \in Save /\ new # NoJob /\ new.kind = "object" /\ new.pkg = p
    <2>1. new \in SaveOf("object", Object)
      BY DEF SaveOf
    <2>2. new \in Save
      BY <2>1 DEF Save
    <2>3. NoJob \notin Save
      BY SentinelAssumption
    <2>4. new.kind = "object" /\ new.pkg = p
      OBVIOUS
    <2> HIDE DEF new
    <2> QED
      BY <2>2, <2>3, <2>4
  <1> HIDE DEF new
  <1>5. saving \in [Others -> Save \cup {NoJob}] /\ saving' \in [Others -> Save \cup {NoJob}]
    BY <1>2, <1>3, <1>4 DEF OtherTypes
  <1>6. \A q \in Packages : Savers(q)' = Savers(q) /\ Recs(q)' = Recs(q)
    <2>1. saving'[o] = new /\ \A r \in Others \ {o} : saving'[r] = saving[r]
      BY <1>2, <1>5
    <2> QED
      BY <1>2, <1>4, <2>1, SaversSame
  <1>7. TypeOK'
    <2>1. FileTypes' /\ HandlerTypes'
      BY <1>2, <1>3 DEF FileTypes, HandlerTypes
    <2>2. OtherTypes'
      BY <1>2, <1>3, <1>5 DEF OtherTypes
    <2> QED
      BY <2>1, <2>2, Types
  <1>8. \A q \in Packages : At(q)' = At(q)
    BY <1>2, <1>6 DEF At
  <1>9. StoreInv'
    <2>1. ASSUME NEW q \in Packages
          PROVE  q \in disturbed' \/ InOrder(q)'
      BY <1>2, <1>6, StaysInOrder DEF IInv, StoreInv
    <2> QED
      BY <1>2, <1>8, <2>1 DEF IInv, StoreInv
  <1> QED
    BY <1>2, <1>7, <1>8, <1>9, LaterReflexive, OthersKeep

LEMMA OtherOpensStep ==
  ASSUME IInv, NEW o \in Others, OtherOpens(o)
  PROVE  IInv'
  <1> DEFINE new == [saving[o] EXCEPT !.opened = TRUE]
  <1>1. /\ saving[o] # NoJob /\ saving' = [saving EXCEPT ![o] = new]
        /\ UNCHANGED <<evidence, moves, reached, sourced, disturbed, phase, job, crashes>>
    BY DEF OtherOpens, handlerVars
  <1>2. FileTypes /\ OtherTypes /\ HandlerTypes
    BY Types DEF IInv
  <1>3. saving[o] \in Save
    BY <1>1, <1>2 DEF OtherTypes
  <1>4. PICK p \in Packages : p = saving[o].pkg
    BY <1>3 DEF Save, SaveOf
  <1>5. /\ new \in Save /\ new # NoJob /\ new.kind = saving[o].kind /\ new.pkg = p
        /\ new.record = saving[o].record
    <2>1. /\ new \in Save /\ new.kind = saving[o].kind /\ new.pkg = p
          /\ new.record = saving[o].record
      BY <1>3, <1>4 DEF Save, SaveOf
    <2>2. NoJob \notin Save
      BY SentinelAssumption
    <2> HIDE DEF new
    <2> QED
      BY <2>1, <2>2
  <1> HIDE DEF new
  <1>6. saving \in [Others -> Save \cup {NoJob}] /\ saving' \in [Others -> Save \cup {NoJob}]
    BY <1>1, <1>2, <1>5 DEF OtherTypes
  <1>7. \A q \in Packages : Savers(q)' = Savers(q) /\ Recs(q)' = Recs(q)
    <2>1. saving'[o] = new /\ \A r \in Others \ {o} : saving'[r] = saving[r]
      BY <1>1, <1>6
    <2> QED
      BY <1>1, <1>4, <1>5, <2>1, SaversSame
  <1>8. /\ packages' = packages \/ packages' = [packages EXCEPT ![p] = Truncated]
        /\ objects' = objects \/ objects' = [objects EXCEPT ![p] = Truncated]
    BY <1>4 DEF OtherOpens
  <1>9. Truncated \in PackageFile /\ Truncated \in ObjectFile /\ ~Parses(Truncated) /\ Exists(Truncated)
    BY TruncatedFact DEF PackageFile, ObjectFile
  <1>10. /\ packages' \in [Packages -> PackageFile] /\ objects' \in [Packages -> ObjectFile]
         /\ \A q \in Packages : /\ packages'[q] \in {packages[q], Truncated}
                                /\ objects'[q] \in {objects[q], Truncated}
    BY <1>2, <1>8, <1>9 DEF FileTypes
  <1>11. TypeOK'
    <2>1. FileTypes' /\ HandlerTypes'
      BY <1>1, <1>2, <1>10 DEF FileTypes, HandlerTypes
    <2>2. OtherTypes'
      BY <1>1, <1>2, <1>6 DEF OtherTypes
    <2> QED
      BY <2>1, <2>2, Types
  <1>12. \A q \in Packages : \A c : Agrees(c, At(q)) => Agrees(c, At(q)')
    BY <1>7, <1>9, <1>10, AgreesLess
  <1>13. \A q \in Packages : Later(At(q), At(q)')
    <2>1. ASSUME NEW q \in Packages
          PROVE  /\ At(q)'.reached = At(q).reached /\ At(q)'.sourced = At(q).sourced
                 /\ At(q)'.disturbed = At(q).disturbed
      BY <1>1 DEF At
    <2> QED
      BY <1>12, <2>1 DEF Later
  <1>14. StoreInv'
    <2>1. ASSUME NEW q \in Packages
          PROVE  q \in disturbed' \/ InOrder(q)'
      BY <1>1, <1>7, <1>9, <1>10, StaysInOrder DEF IInv, StoreInv
    <2>2. \A q \in Packages : \E c : Agrees(c, At(q)')
      BY <1>12 DEF IInv, StoreInv
    <2> QED
      BY <1>1, <1>9, <1>10, <2>1, <2>2 DEF IInv, StoreInv
  <1> QED
    BY <1>1, <1>11, <1>13, <1>14, OthersKeep

LEMMA PackageWrittenStep ==
  ASSUME IInv, NEW o \in Others, PackageWritten(o)
  PROVE  IInv'
  <1>1. FileTypes /\ OtherTypes /\ HandlerTypes
    BY Types DEF IInv
  <1>2. saving[o] # NoJob /\ saving[o].kind = "package"
    BY DEF PackageWritten
  <1>3. saving[o] \in SaveOf("package", Package)
    BY <1>1, <1>2 DEF OtherTypes, Save, SaveOf
  <1>4. PICK p \in Packages : p = saving[o].pkg
    BY <1>3 DEF SaveOf
  <1> DEFINE record == saving[o].record
             file == Written(packages[p], record)
  <1>5. /\ packages' = [packages EXCEPT ![p] = file]
        /\ reached' = [reached EXCEPT ![p] = @ \cup Statuses(file)]
        /\ saving' = [saving EXCEPT ![o] = NoJob]
        /\ UNCHANGED <<objects, evidence, moves, sourced, disturbed, phase, job, crashes>>
    BY <1>4 DEF PackageWritten, handlerVars
  <1>6. record \in Package /\ record.status \in PackageStatus /\ record.size \in Nat
    BY <1>3 DEF SaveOf, Package
  <1>7. file \in PackageFile /\ (Parses(file) => file.text = record) /\ Exists(file)
    BY <1>1, <1>6, NoSentinel, WrittenFact DEF FileTypes, PackageFile
  <1>8. o \in Savers(p) /\ record \in Recs(p)
    BY <1>2, <1>4 DEF Savers, Saves, Recs
  <1> HIDE DEF file, record
  <1>9. saving \in [Others -> Save \cup {NoJob}] /\ saving' \in [Others -> Save \cup {NoJob}]
    BY <1>1, <1>5 DEF OtherTypes
  <1>10. /\ \A q \in Packages \ {p} : Savers(q)' = Savers(q) /\ Recs(q)' = Recs(q)
         /\ Savers(p)' = Savers(p) \ {o} /\ Recs(p)' \subseteq Recs(p)
    <2>1. saving'[o] = NoJob /\ \A r \in Others \ {o} : saving'[r] = saving[r]
      BY <1>5, <1>9
    <2> QED
      BY <1>2, <1>4, <2>1, SaversKeep
  <1>11. /\ packages' \in [Packages -> PackageFile]
         /\ packages'[p] = file
         /\ \A q \in Packages \ {p} : packages'[q] = packages[q]
    BY <1>1, <1>5, <1>7 DEF FileTypes
  <1>12. Statuses(file) = IF Parses(file) THEN {record.status} ELSE {}
    BY <1>7 DEF Statuses
  <1>13. /\ reached' \in [Packages -> SUBSET PackageStatus]
         /\ reached'[p] = reached[p] \cup Statuses(file)
         /\ \A q \in Packages \ {p} : reached'[q] = reached[q]
    BY <1>1, <1>5, <1>6, <1>12 DEF OtherTypes
  <1>14. TypeOK'
    <2>1. FileTypes' /\ HandlerTypes'
      BY <1>1, <1>5, <1>11 DEF FileTypes, HandlerTypes
    <2>2. OtherTypes'
      BY <1>1, <1>5, <1>9, <1>13 DEF OtherTypes
    <2> QED
      BY <2>1, <2>2, Types
  <1>15. \A q \in Packages \ {p} : At(q)' = At(q)
    BY <1>5, <1>10, <1>11, <1>13 DEF At
  <1>16. \A c : Agrees(c, At(p)) => Agrees(c, At(p)')
    BY <1>7, <1>8, <1>10, <1>11 DEF Agrees, At
  <1>17. Later(At(p), At(p)')
    <2>1. /\ At(p).reached \subseteq At(p)'.reached /\ At(p)'.sourced = At(p).sourced
          /\ At(p)'.disturbed = At(p).disturbed
      BY <1>5, <1>13 DEF At
    <2> QED
      BY <1>16, <2>1 DEF Later
  <1>18. p \in disturbed \/ InOrder(p)'
    <2> SUFFICES ASSUME p \notin disturbed PROVE InOrder(p)'
      OBVIOUS
    <2>1. InOrder(p)
      BY DEF IInv, StoreInv
    <2>2. Savers(p)' = {}
      BY <1>8, <1>10, <2>1 DEF InOrder
    <2>3. Recs(p)' = {}
      BY <2>2 DEF Recs
    <2>4. \A t \in reached[p] \cup {record.status} : NotBefore(record.status, t)
      BY <1>6, <1>8, <2>1, NotBeforeFacts DEF InOrder
    <2> QED
      BY <1>7, <1>11, <1>12, <1>13, <2>2, <2>3, <2>4 DEF InOrder
  <1>19. StoreInv'
    <2>1. ASSUME NEW q \in Packages \ {p}
          PROVE  q \in disturbed' \/ InOrder(q)'
      BY <1>5, <1>10, <1>11, <1>13, StaysInOrder DEF IInv, StoreInv
    <2>2. \A q \in Packages : \E c : Agrees(c, At(q)')
      BY <1>15, <1>16 DEF IInv, StoreInv
    <2>3. \A q \in Packages : q \in disturbed' \/ InOrder(q)'
      BY <1>5, <1>18, <2>1
    <2>4. /\ Parses(packages'[p]) => packages'[p].text.status \in reached'[p]
          /\ Exists(packages'[p])
      BY <1>7, <1>11, <1>12, <1>13
    <2> QED
      BY <1>5, <1>11, <1>13, <2>2, <2>3, <2>4 DEF IInv, StoreInv
  <1>20. \A q \in Packages : Later(At(q), At(q)')
    BY <1>15, <1>17, LaterReflexive
  <1> QED
    BY <1>5, <1>14, <1>19, <1>20, OthersKeep

LEMMA ObjectWrittenStep ==
  ASSUME IInv, NEW o \in Others, ObjectWritten(o)
  PROVE  IInv'
  <1>1. FileTypes /\ OtherTypes /\ HandlerTypes
    BY Types DEF IInv
  <1>2. saving[o] # NoJob /\ saving[o].kind = "object"
    BY DEF ObjectWritten
  <1>3. saving[o] \in SaveOf("object", Object)
    BY <1>1, <1>2 DEF OtherTypes, Save, SaveOf
  <1>4. PICK p \in Packages : p = saving[o].pkg
    BY <1>3 DEF SaveOf
  <1> DEFINE object == saving[o].record
             file == Written(objects[p], object)
  <1>5. /\ objects' = [objects EXCEPT ![p] = file]
        /\ sourced' = IF Parses(file) /\ file.text.sourced THEN sourced \cup {p} ELSE sourced
        /\ saving' = [saving EXCEPT ![o] = NoJob]
        /\ UNCHANGED <<packages, evidence, moves, reached, disturbed, phase, job, crashes>>
    BY <1>4 DEF ObjectWritten, handlerVars
  <1>6. object \in Object /\ object.size \in Nat
    BY <1>3 DEF SaveOf, Object
  <1>7. file \in ObjectFile
    BY <1>1, <1>6, NoSentinel, WrittenFact DEF FileTypes, ObjectFile
  <1> HIDE DEF file, object
  <1>8. saving \in [Others -> Save \cup {NoJob}] /\ saving' \in [Others -> Save \cup {NoJob}]
    BY <1>1, <1>5 DEF OtherTypes
  <1>9. \A q \in Packages : Savers(q)' = Savers(q) /\ Recs(q)' = Recs(q)
    <2>1. saving'[o] = NoJob /\ \A r \in Others \ {o} : saving'[r] = saving[r]
      BY <1>5, <1>8
    <2> QED
      BY <1>2, <2>1, SaversSame
  <1>10. /\ objects' \in [Packages -> ObjectFile]
         /\ objects'[p] = file
         /\ \A q \in Packages \ {p} : objects'[q] = objects[q]
    BY <1>1, <1>5, <1>7 DEF FileTypes
  <1>11. sourced \subseteq sourced' /\ sourced' \subseteq Packages
    BY <1>1, <1>5 DEF OtherTypes
  <1>12. TypeOK'
    <2>1. FileTypes' /\ HandlerTypes'
      BY <1>1, <1>5, <1>10 DEF FileTypes, HandlerTypes
    <2>2. OtherTypes'
      BY <1>1, <1>5, <1>8, <1>11 DEF OtherTypes
    <2> QED
      BY <2>1, <2>2, Types
  <1>13. \A q \in Packages : \A c : Agrees(c, At(q)) => Agrees(c, At(q)')
    BY <1>5, <1>9, AgreesLess
  <1>14. \A q \in Packages : Later(At(q), At(q)')
    <2>1. ASSUME NEW q \in Packages
          PROVE  /\ At(q)'.reached = At(q).reached /\ (At(q).sourced => At(q)'.sourced)
                 /\ At(q)'.disturbed = At(q).disturbed
      BY <1>5, <1>11 DEF At
    <2> QED
      BY <1>13, <2>1 DEF Later
  <1>15. StoreInv'
    <2>1. ASSUME NEW q \in Packages
          PROVE  q \in disturbed' \/ InOrder(q)'
      BY <1>5, <1>9, StaysInOrder DEF IInv, StoreInv
    <2>2. \A q \in Packages : \E c : Agrees(c, At(q)')
      BY <1>13 DEF IInv, StoreInv
    <2>3. \A q \in Packages : Parses(objects'[q]) /\ objects'[q].text.sourced => q \in sourced'
      BY <1>5, <1>10, <1>11 DEF IInv, StoreInv
    <2> QED
      BY <1>5, <2>1, <2>2, <2>3 DEF IInv, StoreInv
  <1> QED
    BY <1>5, <1>12, <1>14, <1>15, OthersKeep

LEMMA OtherStep ==
  ASSUME IInv, NEW o \in Others, Other(o)
  PROVE  IInv'
  <1>1. CASE \E p \in Packages : RegisterBegin(o, p)
    BY <1>1, RegisterBeginStep
  <1>2. CASE \E p \in Packages : PromoteBegin(o, p)
    BY <1>2, PromoteBeginStep
  <1>3. CASE \E p \in Packages : ObjectBegin(o, p)
    BY <1>3, ObjectBeginStep
  <1>4. CASE OtherOpens(o)
    BY <1>4, OtherOpensStep
  <1>5. CASE PackageWritten(o)
    BY <1>5, PackageWrittenStep
  <1>6. CASE ObjectWritten(o)
    BY <1>6, ObjectWrittenStep
  <1> QED
    BY <1>1, <1>2, <1>3, <1>4, <1>5, <1>6 DEF Other

\* A crash forgets all that handlers hold, and what others were saving.
LEMMA CrashStep ==
  ASSUME IInv, Crash
  PROVE  IInv'
  <1>1. /\ phase' = [w \in Workers |-> "idle"] /\ job' = [w \in Workers |-> NoJob]
        /\ saving' = [o \in Others |-> NoJob] /\ crashes' = crashes + 1
        /\ UNCHANGED <<packages, objects, evidence, moves, reached, sourced, disturbed>>
    BY DEF Crash, storeVars
  <1>2. FileTypes /\ OtherTypes
    BY Types DEF IInv
  <1>3. TypeOK'
    <2>1. FileTypes'
      BY <1>1, <1>2 DEF FileTypes
    <2>2. OtherTypes'
      BY <1>1, <1>2 DEF OtherTypes
    <2>3. HandlerTypes'
      BY <1>1 DEF HandlerTypes, Phases, JobTyped
    <2> QED
      BY <2>1, <2>2, <2>3, Types
  <1>4. \A q \in Packages : Savers(q)' = {} /\ Recs(q)' = {}
    BY <1>1 DEF Savers, Saves, Recs
  <1>5. \A q \in Packages : \A c : Agrees(c, At(q)) => Agrees(c, At(q)')
    BY <1>1, <1>4, AgreesLess
  <1>6. \A q \in Packages : Later(At(q), At(q)')
    <2>1. ASSUME NEW q \in Packages
          PROVE  /\ At(q)'.reached = At(q).reached /\ At(q)'.sourced = At(q).sourced
                 /\ At(q)'.disturbed = At(q).disturbed
      BY <1>1 DEF At
    <2> QED
      BY <1>5, <2>1 DEF Later
  <1>7. StoreInv'
    <2>1. ASSUME NEW q \in Packages
          PROVE  q \in disturbed' \/ InOrder(q)'
      BY <1>1, <1>4, StaysInOrder DEF IInv, StoreInv
    <2>2. \A q \in Packages : \E c : Agrees(c, At(q)')
      BY <1>5 DEF IInv, StoreInv
    <2> QED
      BY <1>1, <2>1, <2>2 DEF IInv, StoreInv
  <1>8. HandlerInv' /\ SoloInv'
    BY <1>1 DEF HandlerInv, SoloInv, Assessing, Talking
  <1>9. EvidenceInv'
    <2>1. ASSUME NEW q \in Packages, Parses(evidence[q])
          PROVE  Justified(evidence[q].text, At(q)')
      BY <1>6, <2>1, JustifiedLater DEF IInv, EvidenceInv
    <2> QED
      BY <1>1, <2>1 DEF EvidenceInv
  <1> QED
    BY <1>3, <1>7, <1>8, <1>9 DEF IInv

-----------------------------------------------------------------------------
(* The theorems                                                             *)

LEMMA StoredFact ==
  ASSUME NEW Records, NEW record \in Records, record.size \in Nat
  PROVE  /\ Stored(record) \in [text : Records \cup NotAText, extent : Nat]
         /\ Stored(record).text = record
  BY DEF Stored

LEMMA InitIInv == Init => IInv
  <1> SUFFICES ASSUME Init PROVE IInv
    OBVIOUS
  <1>1. NoFile \in PackageFile /\ NoFile \in ObjectFile /\ NoFile \in EvidenceFile
    BY NoSentinel DEF NoFile, PackageFile, ObjectFile, EvidenceFile
  <1>2. ~Parses(NoFile) /\ ~Exists(NoFile)
    BY NoSentinel DEF NoFile, Parses, Exists
  <1>3. ASSUME NEW p \in Packages
        PROVE  /\ packages[p] \in PackageFile /\ objects[p] \in ObjectFile
               /\ Parses(packages[p]) => packages[p].text.status \in PackageStatus
               /\ Parses(packages[p]) => Exists(packages[p])
               /\ Parses(objects[p]) => Exists(objects[p])
    <2>1. packages[p] \in PackageFile
      <3>1. CASE packages[p] = NoFile
        BY <1>1, <3>1
      <3>2. CASE packages[p] # NoFile
        <4>1. PICK package \in Start : packages[p] = Stored(package)
          BY <3>2 DEF Init
        <4>2. package \in Package /\ package.size \in Nat
          BY StartAssumption DEF Package
        <4> QED
          BY <4>1, <4>2, StoredFact DEF PackageFile
      <3> QED
        BY <3>1, <3>2
    <2>2. objects[p] \in ObjectFile
      <3>1. CASE objects[p] = NoFile
        BY <1>1, <3>1
      <3>2. CASE objects[p] # NoFile
        <4>1. PICK object \in StartObjects : objects[p] = Stored(object)
          BY <3>2 DEF Init
        <4>2. object \in Object /\ object.size \in Nat
          BY StartAssumption DEF Object
        <4> QED
          BY <4>1, <4>2, StoredFact DEF ObjectFile
      <3> QED
        BY <3>1, <3>2
    <2>3. /\ Parses(packages[p]) => Exists(packages[p])
          /\ Parses(objects[p]) => Exists(objects[p])
      BY NoSentinel DEF Parses, Exists
    <2> QED
      BY <2>1, <2>2, <2>3 DEF PackageFile, Parses, Package
  <1>4. TypeOK
    <2>1. FileTypes
      BY <1>1, <1>3 DEF FileTypes, Init
    <2>2. OtherTypes
      <3>1. reached \in [Packages -> SUBSET PackageStatus]
        BY <1>3 DEF Init, Statuses
      <3> QED
        BY <3>1 DEF Init, OtherTypes
    <2>3. HandlerTypes
      BY DEF HandlerTypes, Init, Phases, JobTyped
    <2> QED
      BY <2>1, <2>2, <2>3, Types
  <1>5. StoreInv
    <2>1. ASSUME NEW p \in Packages
          PROVE  /\ Parses(packages[p]) => packages[p].text.status \in reached[p]
                 /\ reached[p] # {} => Exists(packages[p])
                 /\ \E c : Agrees(c, At(p))
                 /\ InOrder(p)
      <3>1. reached[p] = Statuses(packages[p])
        BY DEF Init
      <3>2. Savers(p) = {} /\ Recs(p) = {}
        BY DEF Init, Savers, Recs, Saves
      <3>3. Agrees(packages[p].text.complete, At(p))
        BY <3>2 DEF Agrees, At
      <3> QED
        BY <1>3, <3>1, <3>2, <3>3, NotBeforeFacts DEF Statuses, InOrder
    <2>2. \A p \in Packages : Parses(objects[p]) /\ objects[p].text.sourced => p \in sourced
      BY <1>3 DEF Init
    <2> QED
      BY <2>1, <2>2 DEF StoreInv
  <1>6. HandlerInv /\ EvidenceInv /\ SoloInv
    BY <1>2 DEF Init, HandlerInv, EvidenceInv, SoloInv, Assessing, Talking
  <1> QED
    BY <1>4, <1>5, <1>6 DEF IInv

LEMMA NextIInv == IInv /\ [Next]_vars => IInv'
  <1> SUFFICES ASSUME IInv, [Next]_vars PROVE IInv'
    OBVIOUS
  <1>1. CASE \E o \in Others : Other(o)
    BY <1>1, OtherStep
  <1>2. CASE \E w \in Workers : Request(w) \/ Step(w)
    BY <1>2, HandlerStep
  <1>3. CASE Crash
    BY <1>3, CrashStep
  <1>4. CASE UNCHANGED vars
    <2>1. UNCHANGED <<packages, objects, evidence, saving, moves, reached, sourced, disturbed,
                      phase, job, crashes, otherVars>>
      BY <1>4 DEF vars, storeVars, otherVars, handlerVars
    <2>2. TypeOK'
      BY <2>1 DEF IInv, TypeOK
    <2>3. StoreInv' /\ \A q \in Packages : At(q)' = At(q)
      BY <2>1, NothingMoves
    <2> QED
      BY <2>1, <2>2, <2>3, LaterReflexive, OthersKeep
  <1> QED
    BY <1>1, <1>2, <1>3, <1>4 DEF Next

\* Every reachable state satisfies the inductive invariant.
THEOREM InvariantHolds == Spec => []IInv
  BY InitIInv, NextIInv, PTL DEF Spec

\* The variables keep their types.
THEOREM TypeCorrect == Spec => []TypeOK
  <1>1. IInv => TypeOK
    BY DEF IInv
  <1> QED
    BY <1>1, InvariantHolds, PTL

\* Stored evidence that lets a package be retrieved rests on facts, for any
\* number of handlers that assess and others that save, and any crashes.
THEOREM EvidenceJustified == Spec => []EvidenceIsJustified
  <1>1. IInv => EvidenceIsJustified
    BY DEF IInv, EvidenceInv, Justified, Agrees, At, EvidenceIsJustified
  <1> QED
    BY <1>1, InvariantHolds, PTL

\* Unless promotions of its package overlapped, an assessment that overlapped
\* no other of it never replaces evidence by evidence on an earlier status.
THEOREM EvidenceForward == Spec => []EvidenceMovesForward
  <1>1. IInv => EvidenceMovesForward
    BY DEF IInv, SoloInv, Basis, Assessing, EvidenceMovesForward
  <1> QED
    BY <1>1, InvariantHolds, PTL

\* The readiness in a bundle was judged on a status the package has had, the
\* one the bundle shows or, unless promotions overlapped, a later one.
THEOREM BundleOrdered == Spec => []BundleIsOrdered
  <1>1. ASSUME IInv, NEW w \in Workers, phase[w] = "reporting"
        PROVE  /\ job[w].read.basis \in reached[job[w].pkg]
               /\ job[w].pkg \notin disturbed =>
                    NotBefore(job[w].read.basis, job[w].bundle.status)
    <2>1. Knows("reporting", job[w], At(job[w].pkg))
      BY <1>1, BusyFact DEF Talking
    <2> QED
      BY <2>1 DEF Knows, Justified, Follows, At
  <1>2. IInv => BundleIsOrdered
    BY <1>1 DEF BundleIsOrdered
  <1> QED
    BY <1>2, InvariantHolds, PTL

\* A listing that is answered is complete, and in order unless promotions
\* overlapped.
THEOREM DiscoveryComplete == Spec => DiscoveryIsComplete
  <1> DEFINE Complete(w) ==
               phase[w] = "listing" /\ phase'[w] = "idle" /\ answer' = "200" =>
                 \A p \in Packages :
                   job[w].began[p] # {} =>
                     /\ job[w].found[p] \in reached[p]
                     /\ p \notin disturbed =>
                          \A s \in job[w].began[p] : NotBefore(job[w].found[p], s)
  <1>1. ASSUME IInv, [Next]_vars, NEW w \in Workers,
               phase[w] = "listing", phase'[w] = "idle", answer' = "200"
        PROVE  job[w].todo = {}
    <2>1. phase' # phase
      BY <1>1
    <2>2. ASSUME NEW v \in Workers, v # w
          PROVE  ~(Request(v) \/ Step(v))
      <3>1. SUFFICES ASSUME Request(v) \/ Step(v) PROVE FALSE
        OBVIOUS
      <3>2. HandlerTypes
        BY <1>1, Types DEF IInv
      <3>3. phase'[w] = phase[w]
        BY <2>2, <3>1, <3>2
           DEF HandlerTypes, Request, Step, NotAssessed, AssessBegin, LookupBegin, DiscoverBegin,
               LookupLineage, LookupAssess, Judge, Open, Flush, LookupAnswers, DiscoverReads,
               DiscoverAnswers, Answers, GoesOn, Assess
      <3> QED
        BY <1>1, <3>3
    <2>3. ~Crash
      BY <1>1 DEF Crash
    <2>4. ~\E o \in Others : Other(o)
      BY <2>1 DEF Other, RegisterBegin, PromoteBegin, ObjectBegin, Prepares, OtherOpens,
                  PackageWritten, ObjectWritten, handlerVars
    <2>5. UNCHANGED vars => phase' = phase
      BY DEF vars, handlerVars
    <2>6. Request(w) \/ Step(w)
      BY <1>1, <2>1, <2>2, <2>3, <2>4, <2>5 DEF Next
    <2>7. ~Request(w)
      BY <1>1 DEF Request, NotAssessed, AssessBegin, LookupBegin, DiscoverBegin
    <2>8. ~(LookupLineage(w) \/ LookupAssess(w) \/ Judge(w) \/ Open(w) \/ Flush(w)
            \/ LookupAnswers(w))
      BY <1>1 DEF LookupLineage, LookupAssess, Judge, Open, Flush, LookupAnswers
    <2>9. ASSUME NEW p \in Packages
          PROVE  ~DiscoverReads(w, p)
      <3>1. HandlerTypes
        BY <1>1, Types DEF IInv
      <3>2. GoesOn(w, "listing", [job[w] EXCEPT !.todo = @ \ {p}, !.found[p] = packages[p].text.status])
              => phase'[w] = "listing"
        BY <3>1 DEF GoesOn, HandlerTypes
      <3>3. Answers(w, "500") => answer' = "500"
        BY DEF Answers
      <3> QED
        BY <1>1, <3>2, <3>3 DEF DiscoverReads
    <2>10. DiscoverAnswers(w)
      BY <2>6, <2>7, <2>8, <2>9 DEF Step
    <2> QED
      BY <2>10 DEF DiscoverAnswers
  <1>2. IInv /\ [Next]_vars => [\A w \in Workers : Complete(w)]_vars
    <2> SUFFICES ASSUME IInv, [Next]_vars, NEW w \in Workers PROVE Complete(w)
      OBVIOUS
    <2>1. phase[w] = "listing" => Lists(job[w], reached, disturbed)
      BY DEF IInv, HandlerInv
    <2> QED
      BY <1>1, <2>1 DEF Lists
  <1> QED
    BY <1>2, InvariantHolds, PTL DEF Spec, DiscoveryIsComplete
=============================================================================
