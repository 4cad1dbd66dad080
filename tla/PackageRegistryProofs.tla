----------------------- MODULE PackageRegistryProofs -----------------------
(***************************************************************************)
(* Theorems about PackageRegistry, for any number of workers, packages,     *)
(* transitions and crashes.                                                 *)
(*                                                                          *)
(* Every proof has the same outline: only Begin, Open, Flush and Crash      *)
(* touch files, phase or job in a way that matters, so each invariant has   *)
(* one step per action and the answers without effect are one of them.      *)
(***************************************************************************)
EXTENDS PackageRegistry, TLAPS

-----------------------------------------------------------------------------
(* What registration and promotion do to a record, for every record         *)

\* register() builds a record of the right type.
LEMMA RegisteredType ==
  ASSUME NEW id \in Nat, NEW attributed \in BOOLEAN, NEW len \in Nat
  PROVE  Registered(id, attributed, len) \in KnowledgePackage
BY DEF Registered, Transition, KnowledgePackage, PackageTransition,
       PackageStatus, NoStatus

\* So does promote() from a record of the right type.
LEMMA PromotedType ==
  ASSUME NEW pkg \in KnowledgePackage, NEW id \in Nat, NEW to \in PackageStatus,
         NEW attributed \in BOOLEAN, NEW len \in Nat
  PROVE  Promoted(pkg, id, to, attributed, len) \in KnowledgePackage
<1> DEFINE t == Transition(id, pkg.status, to, attributed)
<1>1. t \in PackageTransition
  BY DEF Transition, KnowledgePackage, PackageTransition
<1>2. Append(pkg.history, t) \in Seq(PackageTransition)
  BY <1>1 DEF KnowledgePackage
<1>3. pkg.size + len \in Nat
  BY DEF KnowledgePackage
<1> HIDE DEF t
<1> QED
  BY <1>2, <1>3 DEF Promoted, KnowledgePackage, t

\* A new record is sound and has passed its first gate.
LEMMA RegisteredSound ==
  ASSUME NEW id \in Nat, NEW attributed \in BOOLEAN, NEW len \in Nat
  PROVE  /\ Sound(Registered(id, attributed, len))
         /\ PassedItsGates(Registered(id, attributed, len))
BY DEF Registered, Transition, Sound, ReplayConsistent, TrailInOrder,
       PassedItsGates, Gates, Withdrawn

\* A legal, later promotion keeps a record sound.
LEMMA PromotedSound ==
  ASSUME NEW pkg \in KnowledgePackage, NEW id \in Nat, NEW to \in PackageStatus,
         NEW attributed \in BOOLEAN, NEW len \in Nat,
         Sound(pkg), CanMove(pkg, to), Newest(pkg).id <= id
  PROVE  Sound(Promoted(pkg, id, to, attributed, len))
<1> DEFINE h == pkg.history
           t == Transition(id, pkg.status, to, attributed)
           g == Append(h, t)
           n == Len(h)
<1>1. h \in Seq(PackageTransition) /\ pkg.status \in PackageStatus
  BY DEF KnowledgePackage
<1>2. n \in Nat /\ n # 0 /\ Len(g) = n + 1 /\ g[n + 1] = t /\ g # <<>>
  BY <1>1 DEF Sound, TrailInOrder
<1>3. \A i \in 1..n : g[i] = h[i]
  BY <1>1
<1>4. t.to = to /\ t.from = pkg.status /\ t.id = id /\ t.from # NoStatus
  BY <1>1 DEF Transition, NoStatus, PackageStatus
<1>5. h[n].to = pkg.status /\ h[n].id <= id
  BY DEF Sound, ReplayConsistent, Newest
<1>6. \A i \in 2..n : /\ h[i].to \in PACKAGE_LIFECYCLE_GRAPH[h[i - 1].to]
                      /\ h[i].from # NoStatus
                      /\ h[i - 1].id <= h[i].id
  BY DEF Sound, ReplayConsistent, TrailInOrder
<1>7. h[1].from = NoStatus
  BY DEF Sound, TrailInOrder
<1>8. to \in PACKAGE_LIFECYCLE_GRAPH[pkg.status]
  BY DEF CanMove
<1> HIDE DEF h, t, g, n
<1>9. ASSUME NEW i \in 2..(n + 1)
      PROVE  /\ g[i].to \in PACKAGE_LIFECYCLE_GRAPH[g[i - 1].to]
             /\ g[i].from # NoStatus
             /\ g[i - 1].id <= g[i].id
  <2>1. CASE i = n + 1
    <3>1. g[i] = t /\ g[i - 1] = h[n]
      BY <1>2, <1>3, <2>1
    <3> QED
      BY <3>1, <1>4, <1>5, <1>8
  <2>2. CASE i # n + 1
    <3>1. i \in 2..n /\ g[i] = h[i] /\ g[i - 1] = h[i - 1]
      BY <1>2, <1>3, <2>2
    <3> QED
      BY <3>1, <1>6
  <2> QED
    BY <2>1, <2>2
<1>10. g[1].from = NoStatus /\ g[Len(g)].to = to
  BY <1>2, <1>3, <1>4, <1>7
<1>11. Promoted(pkg, id, to, attributed, len) =
         [status |-> to, history |-> g, size |-> pkg.size + len]
  BY DEF Promoted, g, h, t
<1> QED
  BY <1>2, <1>9, <1>10, <1>11 DEF Sound, ReplayConsistent, TrailInOrder

\* And it passes exactly the next gate, or withdraws the package.
LEMMA PromotedGates ==
  ASSUME NEW pkg \in KnowledgePackage, NEW id \in Nat, NEW to \in PackageStatus,
         NEW attributed \in BOOLEAN, NEW len \in Nat,
         Sound(pkg), CanMove(pkg, to), PassedItsGates(pkg)
  PROVE  PassedItsGates(Promoted(pkg, id, to, attributed, len))
<1> DEFINE h == pkg.history
           t == Transition(id, pkg.status, to, attributed)
           g == Append(h, t)
           n == Len(h)
<1> SUFFICES ASSUME to \notin Withdrawn
             PROVE  /\ Len(g) \in DOMAIN Gates
                    /\ \A i \in 1..Len(g) : g[i].to = Gates[i]
  BY DEF PassedItsGates, Promoted
<1>1. h \in Seq(PackageTransition) /\ pkg.status \in PackageStatus
  BY DEF KnowledgePackage
<1>2. n \in Nat /\ n # 0 /\ Len(g) = n + 1 /\ g[n + 1] = t /\ t.to = to
  BY <1>1 DEF Sound, TrailInOrder, Transition
<1>3. \A i \in 1..n : g[i] = h[i]
  BY <1>1
<1>4. pkg.status \notin Withdrawn
  BY <1>1 DEF CanMove, PACKAGE_LIFECYCLE_GRAPH, PackageStatus, Withdrawn
<1>5. DOMAIN Gates = 1..6
  BY DEF Gates
<1>6. n \in 1..6 /\ \A i \in 1..n : h[i].to = Gates[i]
  BY <1>4, <1>5 DEF PassedItsGates
<1>7. pkg.status = Gates[n]
  BY <1>2, <1>6 DEF Sound, ReplayConsistent
<1>8. to \in PACKAGE_LIFECYCLE_GRAPH[Gates[n]]
  BY <1>7 DEF CanMove
<1> HIDE DEF g, h, n, t
<1>9. n \in 1..5 /\ to = Gates[n + 1]
  <2>1. CASE n = 1
    BY <2>1, <1>8 DEF PACKAGE_LIFECYCLE_GRAPH, Withdrawn, Gates
  <2>2. CASE n = 2
    BY <2>2, <1>8 DEF PACKAGE_LIFECYCLE_GRAPH, Withdrawn, Gates
  <2>3. CASE n = 3
    BY <2>3, <1>8 DEF PACKAGE_LIFECYCLE_GRAPH, Withdrawn, Gates
  <2>4. CASE n = 4
    BY <2>4, <1>8 DEF PACKAGE_LIFECYCLE_GRAPH, Withdrawn, Gates
  <2>5. CASE n = 5
    BY <2>5, <1>8 DEF PACKAGE_LIFECYCLE_GRAPH, Withdrawn, Gates
  <2>6. CASE n = 6
    BY <2>6, <1>8 DEF PACKAGE_LIFECYCLE_GRAPH, Withdrawn, Gates
  <2> QED
    BY <1>6, <2>1, <2>2, <2>3, <2>4, <2>5, <2>6
<1> QED
  BY <1>2, <1>3, <1>5, <1>6, <1>9

\* What a record's history holds after a promotion.
LEMMA PromotedRecords ==
  ASSUME NEW pkg \in KnowledgePackage, NEW id \in Nat, NEW to \in PackageStatus,
         NEW attributed \in BOOLEAN, NEW len \in Nat
  PROVE  LET new == Promoted(pkg, id, to, attributed, len) IN
         /\ Newest(new).id = id
         /\ Recorded(new) = Recorded(pkg) \cup {Newest(new)}
<1> DEFINE h == pkg.history
           t == Transition(id, pkg.status, to, attributed)
           g == Append(h, t)
           n == Len(h)
<1>1. h \in Seq(PackageTransition)
  BY DEF KnowledgePackage
<1>2. n \in Nat /\ Len(g) = n + 1 /\ g[n + 1] = t /\ t.id = id
  BY <1>1 DEF Transition
<1>3. \A i \in 1..n : g[i] = h[i]
  BY <1>1
<1> HIDE DEF h, t, g, n
<1>4. {g[i] : i \in 1..Len(g)} = {h[i] : i \in 1..n} \cup {g[Len(g)]}
  BY <1>2, <1>3
<1>5. Promoted(pkg, id, to, attributed, len).history = g
  BY DEF Promoted, g, h, t
<1>6. Newest(Promoted(pkg, id, to, attributed, len)) = g[Len(g)]
  BY <1>5 DEF Newest
<1>7. Recorded(Promoted(pkg, id, to, attributed, len)) = {g[i] : i \in 1..Len(g)}
  BY <1>5 DEF Recorded
<1>8. Recorded(pkg) = {h[i] : i \in 1..n}
  BY DEF Recorded, h, n
<1> QED
  BY <1>2, <1>4, <1>6, <1>7, <1>8

-----------------------------------------------------------------------------
(* Types                                                                    *)

\* The fields of what a busy handler holds.
LEMMA JobType ==
  ASSUME TypeOK, NEW w \in Workers, phase[w] # "idle"
  PROVE  /\ job[w] \in Job
         /\ job[w].pkg \in Packages
         /\ job[w].rec \in KnowledgePackage
         /\ job[w].solo \in BOOLEAN
  BY DEF TypeOK, Job

\* A file that parses holds a package record.
LEMMA ParsedType ==
  ASSUME TypeOK, NEW p \in Packages, Parses(files[p])
  PROVE  files[p].text \in KnowledgePackage
  BY DEF TypeOK, Parses

\* Saving puts a record, or garbage, where a file was.
LEMMA WrittenType ==
  ASSUME NEW file \in [text : KnowledgePackage \cup NotAText, extent : Nat],
         NEW rec \in KnowledgePackage
  PROVE  /\ Written(file, rec) \in [text : KnowledgePackage \cup NotAText, extent : Nat]
         /\ Parses(Written(file, rec)) => Written(file, rec).text = rec
         /\ Exists(Written(file, rec))
  <1>1. rec.size \in Nat
    BY DEF KnowledgePackage
  <1>2. rec \notin NotAText /\ Absent \in NotAText
    BY SentinelAssumption DEF NotAText
  <1>3. CASE rec.size >= file.extent
    <2>1. Written(file, rec) = [text |-> rec, extent |-> rec.size]
      BY <1>3 DEF Written
    <2> QED
      BY <1>1, <1>2, <2>1 DEF Exists
  <1>4. CASE ~(rec.size >= file.extent)
    <2>1. Written(file, rec) = [text |-> Garbled, extent |-> file.extent]
      BY <1>4 DEF Written
    <2> QED
      BY <2>1, ArtifactStoreAssumption DEF Exists, Parses, NotAText
  <1> QED
    BY <1>3, <1>4

\* A record's newest transition.
LEMMA NewestType ==
  ASSUME NEW pkg \in KnowledgePackage, pkg.history # <<>>
  PROVE  Newest(pkg) \in PackageTransition /\ Newest(pkg) \in Recorded(pkg)
  <1>1. pkg.history \in Seq(PackageTransition)
    BY DEF KnowledgePackage
  <1>2. Len(pkg.history) \in 1..Len(pkg.history)
    BY <1>1
  <1> QED
    BY <1>1, <1>2 DEF Newest, Recorded

-----------------------------------------------------------------------------
(* The inductive invariant: what holds of a file also holds of every record *)
(* a handler carries between its load and its save, since that record may   *)
(* become the file's text at any later time.                                *)

GoodRecord(pkg) ==
  Sound(pkg) /\ PassedItsGates(pkg) /\ Newest(pkg).id < nextTxn

IInv ==
  /\ TypeOK
  /\ \A p \in Packages : Parses(files[p]) => GoodRecord(files[p].text)
  /\ \A w \in Workers : phase[w] # "idle" => GoodRecord(job[w].rec)

LEMMA InitIInv == Init => IInv
  <1> SUFFICES ASSUME Init PROVE IInv
    OBVIOUS
  <1>1. NoFile \in [text : KnowledgePackage \cup NotAText, extent : Nat]
    BY DEF NoFile, NotAText
  <1>2. TypeOK
    BY <1>1 DEF Init, TypeOK
  <1>3. \A p \in Packages : ~Parses(files[p])
    BY DEF Init, Parses, NoFile, NotAText
  <1> QED
    BY <1>2, <1>3 DEF Init, IInv

\* A handler that has built a good record may carry it on.
LEMMA BeginIInv ==
  ASSUME IInv, NEW w \in Workers, NEW p \in Packages,
         NEW base \in KnowledgePackage \cup {Absent}, NEW rec \in KnowledgePackage,
         Sound(rec), PassedItsGates(rec), Newest(rec).id = nextTxn,
         Begin(w, p, base, rec)
  PROVE  IInv'
  <1> USE DEF IInv, Begin
  <1>1. nextTxn \in Nat \ {0} /\ nextTxn' = nextTxn + 1
    BY DEF TypeOK
  <1>2. ASSUME NEW v \in Workers
        PROVE  /\ job'[v] \in Job \cup {NoJob}
               /\ phase'[v] # "idle" => job'[v] \in Job /\ GoodRecord(job[v].rec)'
    <2>1. CASE v = w
      <3>1. job'[v] = [pkg |-> p, base |-> base, rec |-> rec, solo |-> ~Busy(p)]
        BY <2>1
      <3>2. (~Busy(p)) \in BOOLEAN
        BY DEF Busy
      <3>3. PICK b \in BOOLEAN :
              job'[v] = [pkg |-> p, base |-> base, rec |-> rec, solo |-> b]
        BY <3>1, <3>2, Zenon
      <3>4. job'[v] \in Job /\ job'[v].rec = rec
        BY <3>3 DEF Job
      <3> QED
        BY <1>1, <3>4 DEF GoodRecord
    <2>2. CASE v # w
      <3>1. phase'[v] = phase[v]
        BY <2>2 DEF TypeOK
      <3>2. CASE v \in MutatorsOf(p)
        <4>1. phase[v] # "idle"
          BY <3>2 DEF MutatorsOf, Mutating
        <4>2. job'[v] = [job[v] EXCEPT !.solo = FALSE]
          BY <2>2, <3>2
        <4>3. job'[v] \in Job /\ job'[v].rec = job[v].rec
          BY <4>1, <4>2, JobType DEF Job
        <4>4. job[v].rec \in KnowledgePackage /\ GoodRecord(job[v].rec)
          BY <4>1, JobType
        <4>5. job[v].rec.history # <<>>
          BY <4>4 DEF GoodRecord, Sound, TrailInOrder
        <4>6. Newest(job[v].rec).id \in Nat
          BY <4>4, <4>5, NewestType DEF PackageTransition
        <4> QED
          BY <1>1, <4>3, <4>4, <4>6 DEF GoodRecord
      <3>3. CASE v \notin MutatorsOf(p)
        <4>1. job'[v] = job[v]
          BY <2>2, <3>3
        <4>2. job[v] \in Job \cup {NoJob}
          BY DEF TypeOK
        <4>3. ASSUME phase[v] # "idle" PROVE GoodRecord(job[v].rec)' /\ job[v] \in Job
          <5>1. job[v] \in Job /\ job[v].rec \in KnowledgePackage /\ GoodRecord(job[v].rec)
            BY <4>3, JobType
          <5>2. job[v].rec.history # <<>>
            BY <5>1 DEF GoodRecord, Sound, TrailInOrder
          <5>3. Newest(job[v].rec).id \in Nat
            BY <5>1, <5>2, NewestType DEF PackageTransition
          <5> QED
            BY <1>1, <4>1, <5>1, <5>3 DEF GoodRecord
        <4> QED
          BY <3>1, <4>1, <4>2, <4>3
      <3> QED
        BY <3>2, <3>3
    <2> QED
      BY <2>1, <2>2
  <1>3. TypeOK'
    <2>1. job' \in [Workers -> Job \cup {NoJob}]
      BY <1>2
    <2>2. phase' \in [Workers -> {"idle", "loaded", "opened", "auditing"}]
      BY DEF TypeOK
    <2>3. disturbed' \subseteq Packages
      BY DEF TypeOK
    <2> QED
      BY <1>1, <1>2, <2>1, <2>2, <2>3 DEF TypeOK
  <1>4. ASSUME NEW q \in Packages, Parses(files[q])' PROVE GoodRecord(files[q].text)'
    <2>1. files[q].text \in KnowledgePackage /\ GoodRecord(files[q].text)
      BY <1>4, ParsedType
    <2>2. files[q].text.history # <<>>
      BY <2>1 DEF GoodRecord, Sound, TrailInOrder
    <2>3. Newest(files[q].text).id \in Nat
      BY <2>1, <2>2, NewestType DEF PackageTransition
    <2> QED
      BY <1>1, <2>1, <2>3 DEF GoodRecord
  <1> QED
    BY <1>2, <1>3, <1>4

\* A step that builds no transition keeps what is good about a record.
LEMMA GoodStays ==
  ASSUME NEW pkg, GoodRecord(pkg), nextTxn' = nextTxn
  PROVE  GoodRecord(pkg)'
  BY DEF GoodRecord

\* Answers that save nothing.
LEMMA AnswerIInv ==
  ASSUME IInv, NEW w \in Workers,
         NEW status \in {"none", "200", "400", "404", "500", "alarm"},
         AnswerNow(w, status)
  PROVE  IInv'
  BY DEF AnswerNow, IInv, TypeOK, GoodRecord, storeVars, ghostVars

LEMMA OpenIInv ==
  ASSUME IInv, NEW w \in Workers, Open(w)
  PROVE  IInv'
  <1> USE DEF IInv, Open, ghostVars
  <1>1. job[w].pkg \in Packages
    BY JobType
  <1>2. Truncated \in [text : KnowledgePackage \cup NotAText, extent : Nat]
    BY DEF Truncated, NotAText
  <1>3. TypeOK'
    BY <1>1, <1>2 DEF TypeOK
  <1>4. ASSUME NEW p \in Packages, Parses(files[p])' PROVE GoodRecord(files[p].text)'
    <2>1. p # job[w].pkg /\ files'[p] = files[p]
      BY <1>1, <1>4 DEF TypeOK, Truncated, Parses, NotAText
    <2> QED
      BY <1>4, <2>1, GoodStays DEF Parses
  <1>5. ASSUME NEW v \in Workers, phase'[v] # "idle" PROVE GoodRecord(job[v].rec)'
    <2>1. phase[v] # "idle"
      BY <1>5 DEF TypeOK
    <2> QED
      BY <2>1 DEF GoodRecord
  <1> QED
    BY <1>3, <1>4, <1>5

LEMMA FlushIInv ==
  ASSUME IInv, NEW w \in Workers, Flush(w)
  PROVE  IInv'
  <1> DEFINE p == job[w].pkg
             rec == job[w].rec
  <1>1. p \in Packages /\ rec \in KnowledgePackage /\ GoodRecord(rec)
    BY JobType DEF IInv, Flush
  <1>2. rec.history # <<>>
    BY <1>1 DEF GoodRecord, Sound, TrailInOrder
  <1>3. Newest(rec) \in PackageTransition
    BY <1>1, <1>2, NewestType
  <1>4. files[p] \in [text : KnowledgePackage \cup NotAText, extent : Nat]
    BY <1>1 DEF IInv, TypeOK
  <1>5. files' \in [Packages -> [text : KnowledgePackage \cup NotAText, extent : Nat]]
    BY <1>1, <1>4, WrittenType DEF IInv, TypeOK, Flush
  <1>6. TypeOK'
    <2>1. /\ acked' \in [Packages -> SUBSET PackageTransition]
          /\ soloAcked' \in [Packages -> SUBSET PackageTransition]
      BY <1>1, <1>3 DEF IInv, TypeOK, Flush
    <2>2. /\ phase' \in [Workers -> {"idle", "loaded", "opened", "auditing"}]
          /\ job' \in [Workers -> Job \cup {NoJob}]
          /\ \A v \in Workers : phase'[v] # "idle" => job'[v] \in Job
          /\ answer' \in [Workers -> {"none", "200", "400", "404", "500", "alarm"}]
      BY DEF IInv, TypeOK, Flush
    <2> QED
      BY <1>5, <2>1, <2>2 DEF IInv, TypeOK, Flush
  <1>7. ASSUME NEW q \in Packages, Parses(files[q])' PROVE GoodRecord(files[q].text)'
    <2>1. CASE q = p
      <3>1. files'[q] = Written(files[p], rec)
        BY <1>1, <2>1 DEF IInv, TypeOK, Flush
      <3>2. files'[q].text = rec
        BY <1>1, <1>4, <1>7, <3>1, WrittenType DEF Parses
      <3> QED
        BY <1>1, <3>2, GoodStays DEF Flush
    <2>2. CASE q # p
      <3>1. files'[q] = files[q]
        BY <2>2 DEF IInv, TypeOK, Flush
      <3> QED
        BY <1>7, <3>1 DEF IInv, Flush, GoodRecord, Parses
    <2> QED
      BY <2>1, <2>2
  <1>8. ASSUME NEW v \in Workers, phase'[v] # "idle" PROVE GoodRecord(job[v].rec)'
    <2>1. v # w /\ phase[v] # "idle" /\ job'[v] = job[v]
      BY <1>8 DEF IInv, TypeOK, Flush
    <2> QED
      BY <2>1 DEF GoodRecord, IInv, Flush
  <1> QED
    BY <1>6, <1>7, <1>8 DEF IInv

LEMMA AuditIInv ==
  ASSUME IInv, NEW w \in Workers,
         \/ \E p \in Packages : AuditBegin(w, p)
         \/ AuditEnd(w)
  PROVE  IInv'
  <1>1. ASSUME NEW p \in Packages, AuditBegin(w, p) PROVE IInv'
    <2>1. files[p].text \in KnowledgePackage /\ GoodRecord(files[p].text)
      BY <1>1, ParsedType DEF IInv, AuditBegin
    <2>2. [pkg |-> p, base |-> Absent, rec |-> files[p].text, solo |-> FALSE] \in Job
      BY <2>1 DEF Job
    <2> QED
      BY <1>1, <2>1, <2>2
      DEF AuditBegin, IInv, TypeOK, GoodRecord, Parses, storeVars, ghostVars
  <1>2. CASE AuditEnd(w)
    BY <1>2 DEF AuditEnd, IInv, TypeOK, GoodRecord, Parses, storeVars, ghostVars
  <1> QED
    BY <1>1, <1>2

LEMMA CrashIInv ==
  ASSUME IInv, Crash
  PROVE  IInv'
  <1>1. ASSUME NEW w \in Workers, phase[w] = "opened" PROVE job[w].pkg \in Packages
    BY <1>1, JobType DEF IInv
  <1>2. disturbed' \subseteq Packages
    BY <1>1 DEF Crash, IInv, TypeOK
  <1> QED
    BY <1>2 DEF Crash, IInv, TypeOK, GoodRecord, Parses

\* register() builds a good record, promote() builds one from a good record.
LEMMA RegisterIInv ==
  ASSUME IInv, NEW w \in Workers, NEW p \in Packages, RegisterBegin(w, p)
  PROVE  IInv'
  <1>1. PICK attributed \in Attributions, len \in TextLens :
          Begin(w, p, Absent, Registered(nextTxn, attributed, len))
    BY DEF RegisterBegin
  <1>2. nextTxn \in Nat /\ attributed \in BOOLEAN /\ len \in Nat
    BY TextLensAssumption, AttributionsAssumption DEF IInv, TypeOK
  <1>3. Newest(Registered(nextTxn, attributed, len)).id = nextTxn
    BY DEF Newest, Registered, Transition
  <1> QED
    BY <1>1, <1>2, <1>3, RegisteredType, RegisteredSound, BeginIInv

LEMMA PromoteIInv ==
  ASSUME IInv, NEW w \in Workers, NEW p \in Packages, NEW to \in PackageStatus,
         PromoteBegin(w, p, to)
  PROVE  IInv'
  <1> DEFINE pkg == files[p].text
  <1>1. PICK attributed \in Attributions, len \in TextLens :
          Begin(w, p, pkg, Promoted(pkg, nextTxn, to, attributed, len))
    BY DEF PromoteBegin
  <1>2. nextTxn \in Nat /\ attributed \in BOOLEAN /\ len \in Nat
    BY TextLensAssumption, AttributionsAssumption DEF IInv, TypeOK
  <1>3. pkg \in KnowledgePackage /\ GoodRecord(pkg) /\ CanMove(pkg, to)
    BY ParsedType DEF IInv, PromoteBegin
  <1>4. pkg.history # <<>>
    BY <1>3 DEF GoodRecord, Sound, TrailInOrder
  <1>5. Newest(pkg).id \in Nat
    BY <1>3, <1>4, NewestType DEF PackageTransition
  <1>6. Newest(pkg).id <= nextTxn
    BY <1>2, <1>3, <1>5 DEF GoodRecord
  <1>7. Promoted(pkg, nextTxn, to, attributed, len) \in KnowledgePackage
    BY <1>2, <1>3, PromotedType
  <1>8. Newest(Promoted(pkg, nextTxn, to, attributed, len)).id = nextTxn
    BY <1>2, <1>3, PromotedRecords
  <1>9. /\ Sound(Promoted(pkg, nextTxn, to, attributed, len))
        /\ PassedItsGates(Promoted(pkg, nextTxn, to, attributed, len))
    BY <1>2, <1>3, <1>6, PromotedSound, PromotedGates DEF GoodRecord
  <1> HIDE DEF pkg
  <1>10. pkg \in KnowledgePackage \cup {Absent}
    BY <1>3
  <1> QED
    BY <1>1, <1>7, <1>8, <1>9, <1>10, BeginIInv

LEMMA NextIInv == IInv /\ [Next]_vars => IInv'
  <1> SUFFICES ASSUME IInv, [Next]_vars PROVE IInv'
    OBVIOUS
  <1>1. ASSUME NEW w \in Workers, Request(w) PROVE IInv'
    <2>1. PICK p \in Packages :
            \/ RegisterBegin(w, p)
            \/ \E to \in PackageStatus : PromoteBegin(w, p, to) \/ PromoteRefused(w, p, to)
            \/ NotFound(w, p) \/ Unreadable(w, p) \/ Read(w, p) \/ AuditBegin(w, p)
      BY <1>1 DEF Request
    <2>2. CASE RegisterBegin(w, p)
      BY <2>2, RegisterIInv
    <2>3. ASSUME NEW to \in PackageStatus, PromoteBegin(w, p, to) PROVE IInv'
      BY <2>3, PromoteIInv
    <2>4. ASSUME NEW to \in PackageStatus, PromoteRefused(w, p, to) PROVE IInv'
      BY <2>4, AnswerIInv DEF PromoteRefused
    <2>5. CASE NotFound(w, p) \/ Unreadable(w, p)
      BY <2>5, AnswerIInv DEF NotFound, Unreadable
    <2>6. CASE Read(w, p)
      BY <2>6, AnswerIInv DEF Read
    <2>7. CASE AuditBegin(w, p)
      BY <2>7, AuditIInv
    <2> QED
      BY <2>1, <2>2, <2>3, <2>4, <2>5, <2>6, <2>7
  <1>2. ASSUME NEW w \in Workers, Step(w) PROVE IInv'
    BY <1>2, OpenIInv, FlushIInv, AuditIInv DEF Step
  <1>3. CASE Crash
    BY <1>3, CrashIInv
  <1>4. CASE UNCHANGED vars
    BY <1>4 DEF vars, storeVars, handlerVars, ghostVars, IInv, TypeOK, GoodRecord, Parses
  <1> QED
    BY <1>1, <1>2, <1>3, <1>4 DEF Next

\* The invariant holds in every behaviour of the unlocked, crashing service.
THEOREM InvariantHolds == Spec => []IInv
  BY InitIInv, NextIInv, PTL DEF Spec

\* Every variable keeps its type, through every interleaving and crash.
THEOREM TypeCorrect == Spec => []TypeOK
  <1>1. IInv => TypeOK
    BY DEF IInv
  <1> QED
    BY <1>1, InvariantHolds, PTL

\* Whatever handlers race each other and wherever the process dies, a record
\* that parses passes replay() and the order checks of audit_completeness().
THEOREM ReplayNeverFails == Spec => []StoredIsReplayable
  <1>1. IInv => StoredIsReplayable
    BY DEF IInv, StoredIsReplayable, GoodRecord
  <1> QED
    BY <1>1, InvariantHolds, PTL

\* A stored package that is not withdrawn has been at every gate before the
\* one it is at: no race ever makes one skip validation or certification.
THEOREM NoGateIsSkipped == Spec => []NoGateSkipped
  <1>1. IInv => NoGateSkipped
    BY DEF IInv, NoGateSkipped, GoodRecord
  <1> QED
    BY <1>1, InvariantHolds, PTL

-----------------------------------------------------------------------------
(* Solo transitions.  One survives because every handler that saves the     *)
(* package later has loaded it: while a solo handler is at work there is no *)
(* other mutation of its package, and after it everybody starts from it.    *)

SoloInv ==
  /\ \A p \in Packages :
       /\ Parses(files[p]) => soloAcked[p] \subseteq Recorded(files[p].text)
       /\ ~Exists(files[p]) => soloAcked[p] = {}
  /\ \A w \in Workers : Mutating(w) =>
       soloAcked[job[w].pkg] \subseteq Recorded(job[w].rec)
  /\ \A w, v \in Workers :
       w # v /\ Mutating(w) /\ Mutating(v) /\ job[w].pkg = job[v].pkg => ~job[w].solo

LEMMA BeginSolo ==
  ASSUME IInv, SoloInv, NEW w \in Workers, NEW p \in Packages,
         NEW base, NEW rec, Begin(w, p, base, rec),
         phase[w] = "idle", soloAcked[p] \subseteq Recorded(rec)
  PROVE  SoloInv'
  <1> USE DEF Begin
  <1>1. files' = files /\ soloAcked' = soloAcked
    OBVIOUS
  <1>2. ASSUME NEW v \in Workers, Mutating(v)'
        PROVE  \/ /\ v = w
                  /\ job'[v] = [pkg |-> p, base |-> base, rec |-> rec, solo |-> ~Busy(p)]
               \/ /\ v # w /\ Mutating(v)
                  /\ job'[v].pkg = job[v].pkg /\ job'[v].rec = job[v].rec
                  /\ job[v].pkg # p => job'[v].solo = job[v].solo
                  /\ job[v].pkg = p => ~job'[v].solo
    <2>1. CASE v = w
      BY <2>1
    <2>2. CASE v # w
      <3>1. Mutating(v) /\ job[v] \in Job
        BY <1>2, <2>2, JobType DEF Mutating, IInv, TypeOK
      <3>2. CASE job[v].pkg = p
        <4>1. job'[v] = [job[v] EXCEPT !.solo = FALSE]
          BY <2>2, <3>1, <3>2 DEF MutatorsOf
        <4> QED
          BY <2>2, <3>1, <3>2, <4>1 DEF Job
      <3>3. CASE job[v].pkg # p
        <4>1. job'[v] = job[v]
          BY <2>2, <3>3 DEF MutatorsOf
        <4> QED
          BY <2>2, <3>1, <3>3, <4>1
      <3> QED
        BY <3>2, <3>3
    <2> QED
      BY <2>1, <2>2
  <1>3. ASSUME NEW v \in Workers, Mutating(v)'
        PROVE  (soloAcked[job[v].pkg] \subseteq Recorded(job[v].rec))'
    <2>1. CASE v = w
      <3>1. job'[v].pkg = p /\ job'[v].rec = rec
        BY <1>2, <1>3, <2>1
      <3> QED
        BY <1>1, <3>1 DEF Recorded
    <2>2. CASE v # w
      <3>1. Mutating(v) /\ job'[v].pkg = job[v].pkg /\ job'[v].rec = job[v].rec
        BY <1>2, <1>3, <2>2
      <3> QED
        BY <1>1, <3>1 DEF SoloInv, Recorded
    <2> QED
      BY <2>1, <2>2
  <1>4. ASSUME NEW v \in Workers, NEW u \in Workers, v # u, Mutating(v)', Mutating(u)',
               job'[v].pkg = job'[u].pkg
        PROVE  ~job'[v].solo
    <2>1. CASE v = w
      <3>1. u # w /\ Mutating(u) /\ job[u].pkg = p
        BY <1>2, <1>4, <2>1
      <3>2. Busy(p)
        BY <3>1 DEF Busy, MutatorsOf
      <3> QED
        BY <1>4, <2>1, <3>2
    <2>2. CASE v # w
      <3>1. CASE job[v].pkg = p
        BY <1>2, <1>4, <2>2, <3>1
      <3>2. CASE job[v].pkg # p
        <4>1. u # w /\ Mutating(u) /\ job[u].pkg = job[v].pkg
          BY <1>2, <1>4, <2>2, <3>2
        <4> QED
          BY <1>2, <1>4, <2>2, <3>2, <4>1 DEF SoloInv
      <3> QED
        BY <3>1, <3>2
    <2> QED
      BY <2>1, <2>2
  <1>5. \A q \in Packages :
          /\ Parses(files[q])' => (soloAcked[q] \subseteq Recorded(files[q].text))'
          /\ ~Exists(files[q])' => soloAcked'[q] = {}
    BY <1>1 DEF SoloInv, Parses, Exists, Recorded
  <1> QED
    BY <1>3, <1>4, <1>5 DEF SoloInv

LEMMA OpenSolo ==
  ASSUME IInv, SoloInv, NEW w \in Workers, Open(w)
  PROVE  SoloInv'
  <1> USE DEF Open, ghostVars
  <1>1. job[w].pkg \in Packages /\ job' = job /\ soloAcked' = soloAcked
    BY JobType DEF IInv
  <1>2. \A v \in Workers : Mutating(v)' => Mutating(v)
    BY DEF Mutating, IInv, TypeOK
  <1>3. ASSUME NEW p \in Packages
        PROVE  /\ Parses(files[p])' => (soloAcked[p] \subseteq Recorded(files[p].text))'
               /\ ~Exists(files[p])' => soloAcked'[p] = {}
    <2>1. CASE p = job[w].pkg
      <3>1. files'[p] = Truncated
        BY <1>1, <2>1 DEF IInv, TypeOK
      <3> QED
        BY <3>1, ArtifactStoreAssumption DEF Truncated, Parses, Exists, NotAText
    <2>2. CASE p # job[w].pkg
      <3>1. files'[p] = files[p]
        BY <2>2 DEF IInv, TypeOK
      <3> QED
        BY <1>1, <3>1 DEF SoloInv, Parses, Exists, Recorded
    <2> QED
      BY <2>1, <2>2
  <1>4. \A v \in Workers : Mutating(v)' =>
          (soloAcked[job[v].pkg] \subseteq Recorded(job[v].rec))'
    BY <1>1, <1>2 DEF SoloInv, Recorded
  <1>5. (\A u, v \in Workers : u # v /\ Mutating(u) /\ Mutating(v)
           /\ job[u].pkg = job[v].pkg => ~job[u].solo)'
    BY <1>1, <1>2 DEF SoloInv
  <1> QED
    BY <1>3, <1>4, <1>5 DEF SoloInv

LEMMA FlushSolo ==
  ASSUME IInv, SoloInv, NEW w \in Workers, Flush(w)
  PROVE  SoloInv'
  <1> DEFINE p == job[w].pkg
             rec == job[w].rec
             txn == Newest(rec)
  <1>1. p \in Packages /\ rec \in KnowledgePackage /\ GoodRecord(rec) /\ Mutating(w)
    BY JobType DEF IInv, Flush, Mutating
  <1>2. txn \in Recorded(rec)
    BY <1>1, NewestType DEF GoodRecord, Sound, TrailInOrder
  <1>3. soloAcked[p] \subseteq Recorded(rec)
    BY <1>1 DEF SoloInv
  <1>4. soloAcked'[p] \subseteq Recorded(rec)
    BY <1>1, <1>2, <1>3 DEF IInv, TypeOK, Flush
  <1>5. \A q \in Packages : q # p => files'[q] = files[q] /\ soloAcked'[q] = soloAcked[q]
    BY <1>1 DEF IInv, TypeOK, Flush
  <1>6. \A v \in Workers : Mutating(v)' => v # w /\ Mutating(v) /\ job'[v] = job[v]
    BY DEF IInv, TypeOK, Flush, Mutating
  <1>7. ASSUME NEW q \in Packages
        PROVE  /\ Parses(files[q])' => (soloAcked[q] \subseteq Recorded(files[q].text))'
               /\ ~Exists(files[q])' => soloAcked'[q] = {}
    <2>1. CASE q = p
      <3>1. files'[q] = Written(files[p], rec)
        BY <1>1, <2>1 DEF IInv, TypeOK, Flush
      <3>2. files[p] \in [text : KnowledgePackage \cup NotAText, extent : Nat]
        BY <1>1 DEF IInv, TypeOK
      <3>3. Exists(files[q])' /\ (Parses(files[q])' => files'[q].text = rec)
        BY <1>1, <3>1, <3>2, WrittenType DEF Parses, Exists
      <3> QED
        BY <1>4, <2>1, <3>3 DEF Recorded
    <2>2. CASE q # p
      BY <1>5, <2>2 DEF SoloInv, Parses, Exists, Recorded
    <2> QED
      BY <2>1, <2>2
  <1>8. ASSUME NEW v \in Workers, Mutating(v)'
        PROVE  (soloAcked[job[v].pkg] \subseteq Recorded(job[v].rec))'
    <2>1. v # w /\ Mutating(v) /\ job'[v] = job[v]
      BY <1>6, <1>8
    <2>2. job[v].pkg \in Packages
      BY <2>1, JobType DEF IInv, Mutating
    <2>3. CASE job[v].pkg = p
      <3>1. ~job[w].solo
        BY <1>1, <2>1, <2>3 DEF SoloInv
      <3>2. soloAcked' = soloAcked
        BY <3>1 DEF Flush
      <3> QED
        BY <2>1, <3>2 DEF SoloInv, Recorded
    <2>4. CASE job[v].pkg # p
      BY <1>5, <2>1, <2>2, <2>4 DEF SoloInv, Recorded
    <2> QED
      BY <2>3, <2>4
  <1>9. (\A u, v \in Workers : u # v /\ Mutating(u) /\ Mutating(v)
           /\ job[u].pkg = job[v].pkg => ~job[u].solo)'
    BY <1>6 DEF SoloInv
  <1> QED
    BY <1>7, <1>8, <1>9 DEF SoloInv

\* Steps that change neither files nor the mutations in flight, other than
\* by ending them.
LEMMA QuietSolo ==
  ASSUME SoloInv, files' = files, soloAcked' = soloAcked,
         \A v \in Workers : Mutating(v)' => Mutating(v) /\ job'[v] = job[v]
  PROVE  SoloInv'
  BY DEF SoloInv, Parses, Exists, Recorded

LEMMA NextSolo == IInv /\ SoloInv /\ [Next]_vars => SoloInv'
  <1> SUFFICES ASSUME IInv, SoloInv, [Next]_vars PROVE SoloInv'
    OBVIOUS
  <1>1. ASSUME NEW w \in Workers, NEW p \in Packages, RegisterBegin(w, p)
        PROVE  SoloInv'
    <2>1. PICK attributed \in Attributions, len \in TextLens :
            Begin(w, p, Absent, Registered(nextTxn, attributed, len))
      BY <1>1 DEF RegisterBegin
    <2>2. soloAcked[p] = {} /\ phase[w] = "idle"
      BY <1>1 DEF RegisterBegin, SoloInv
    <2> QED
      BY <2>1, <2>2, BeginSolo
  <1>2. ASSUME NEW w \in Workers, NEW p \in Packages, NEW to \in PackageStatus,
               PromoteBegin(w, p, to)
        PROVE  SoloInv'
    <2>1. PICK attributed \in Attributions, len \in TextLens :
            Begin(w, p, files[p].text,
                  Promoted(files[p].text, nextTxn, to, attributed, len))
      BY <1>2 DEF PromoteBegin
    <2>2. nextTxn \in Nat /\ attributed \in BOOLEAN /\ len \in Nat
      BY TextLensAssumption, AttributionsAssumption DEF IInv, TypeOK
    <2>3. files[p].text \in KnowledgePackage
      BY <1>2, ParsedType DEF IInv, PromoteBegin
    <2>4. soloAcked[p] \subseteq Recorded(files[p].text) /\ phase[w] = "idle"
      BY <1>2 DEF PromoteBegin, Receives, SoloInv
    <2>5. Recorded(files[p].text) \subseteq
            Recorded(Promoted(files[p].text, nextTxn, to, attributed, len))
      BY <2>2, <2>3, PromotedRecords
    <2> QED
      BY <2>1, <2>4, <2>5, BeginSolo
  <1>3. ASSUME NEW w \in Workers, NEW status, AnswerNow(w, status) PROVE SoloInv'
    BY <1>3, QuietSolo DEF AnswerNow, storeVars, ghostVars, Mutating
  <1>4. ASSUME NEW w \in Workers, NEW p \in Packages, AuditBegin(w, p) PROVE SoloInv'
    BY <1>4, QuietSolo
    DEF AuditBegin, Receives, storeVars, ghostVars, Mutating, IInv, TypeOK
  <1>5. ASSUME NEW w \in Workers, AuditEnd(w) PROVE SoloInv'
    BY <1>5, QuietSolo DEF AuditEnd, storeVars, ghostVars, Mutating, IInv, TypeOK
  <1>6. CASE Crash
    BY <1>6, QuietSolo DEF Crash, Mutating
  <1>7. CASE UNCHANGED vars
    BY <1>7, QuietSolo DEF vars, storeVars, handlerVars, ghostVars, Mutating
  <1>8. ASSUME NEW w \in Workers, Request(w) PROVE SoloInv'
    BY <1>1, <1>2, <1>3, <1>4, <1>8
    DEF Request, PromoteRefused, NotFound, Unreadable, Read
  <1>9. ASSUME NEW w \in Workers, Step(w) PROVE SoloInv'
    BY <1>5, <1>9, OpenSolo, FlushSolo DEF Step
  <1> QED
    BY <1>6, <1>7, <1>8, <1>9 DEF Next

\* An acknowledged transition that overlapped no other mutation of its package
\* is in every readable version of the record from then on, whatever races
\* and crashes follow.
THEOREM SoloSurvives == Spec => []SoloTransitionsSurvive
  <1>1. Init => SoloInv
    BY DEF Init, SoloInv, Mutating, NoFile, Parses, NotAText
  <1>2. Spec => []SoloInv
    BY <1>1, InvariantHolds, NextSolo, PTL DEF Spec
  <1>3. SoloInv => SoloTransitionsSurvive
    BY DEF SoloInv, SoloTransitionsSurvive
  <1> QED
    BY <1>2, <1>3, PTL

-----------------------------------------------------------------------------
(* The refinement.  A handler on an undisturbed package is alone there; what *)
(* it read is what everybody sees until its save is complete, and what it   *)
(* saves is one atomic operation on that.                                   *)

\* rec is what one operation of the abstract registry makes of base.
Builds(base, rec) ==
  \E id \in 1..MaxTxn, attributed \in Attributions, len \in TextLens :
    \/ base = Absent /\ rec = Registered(id, attributed, len)
    \/ /\ base \in KnowledgePackage /\ Newest(base).id < id
       /\ \E to \in PACKAGE_LIFECYCLE_GRAPH[base.status] :
            rec = Promoted(base, id, to, attributed, len)

RefInv ==
  /\ \A u, v \in Workers :
       Mutating(u) /\ Mutating(v) /\ job[u].pkg = job[v].pkg /\ job[u].pkg \notin disturbed =>
         u = v
  /\ \A w \in Workers : Mutating(w) /\ job[w].pkg \notin disturbed =>
       /\ Builds(job[w].base, job[w].rec)
       /\ phase[w] = "loaded" => files[job[w].pkg].text = job[w].base
       /\ phase[w] = "opened" => files[job[w].pkg] = Truncated

\* Steps that change no file, and mutations only by ending them.
LEMMA QuietRef ==
  ASSUME RefInv, files' = files, disturbed \subseteq disturbed',
         \A v \in Workers : Mutating(v)' =>
           Mutating(v) /\ phase'[v] = phase[v] /\ job'[v] = job[v]
  PROVE  RefInv'
  BY DEF RefInv

\* What a handler that begins leaves of the others.
LEMMA BeginOthers ==
  ASSUME IInv, NEW w \in Workers, NEW p \in Packages, NEW base, NEW rec,
         phase[w] = "idle", Begin(w, p, base, rec)
  PROVE  /\ job'[w] = [pkg |-> p, base |-> base, rec |-> rec, solo |-> ~Busy(p)]
         /\ phase[w] = "idle" /\ phase'[w] = "loaded"
         /\ \A v \in Workers : v # w /\ Mutating(v)' =>
              /\ Mutating(v) /\ phase'[v] = phase[v]
              /\ job'[v].pkg = job[v].pkg /\ job'[v].base = job[v].base
              /\ job'[v].rec = job[v].rec
  <1> USE DEF Begin
  <1>1. /\ job'[w] = [pkg |-> p, base |-> base, rec |-> rec, solo |-> ~Busy(p)]
        /\ phase[w] = "idle" /\ phase'[w] = "loaded"
    BY DEF IInv, TypeOK
  <1>2. ASSUME NEW v \in Workers, v # w, Mutating(v)'
        PROVE  /\ Mutating(v) /\ phase'[v] = phase[v]
               /\ job'[v].pkg = job[v].pkg /\ job'[v].base = job[v].base
               /\ job'[v].rec = job[v].rec
    <2>1. Mutating(v) /\ phase'[v] = phase[v] /\ job[v] \in Job
      BY <1>2, JobType DEF Mutating, IInv, TypeOK
    <2>2. CASE v \in MutatorsOf(p)
      <3>1. job'[v] = [job[v] EXCEPT !.solo = FALSE]
        BY <1>2, <2>2
      <3> QED
        BY <2>1, <3>1 DEF Job
    <2>3. CASE v \notin MutatorsOf(p)
      <3>1. job'[v] = job[v]
        BY <1>2, <2>3
      <3> QED
        BY <2>1, <3>1
    <2> QED
      BY <2>2, <2>3
  <1> QED
    BY <1>1, <1>2

LEMMA BeginRef ==
  ASSUME IInv, RefInv, NEW w \in Workers, NEW p \in Packages, NEW rec,
         Builds(files[p].text, rec),
         phase[w] = "idle", Begin(w, p, files[p].text, rec)
  PROVE  RefInv'
  <1> DEFINE base == files[p].text
  <1>1. /\ job'[w] = [pkg |-> p, base |-> base, rec |-> rec, solo |-> ~Busy(p)]
        /\ phase[w] = "idle" /\ phase'[w] = "loaded"
        /\ \A v \in Workers : v # w /\ Mutating(v)' =>
              /\ Mutating(v) /\ phase'[v] = phase[v]
              /\ job'[v].pkg = job[v].pkg /\ job'[v].base = job[v].base
              /\ job'[v].rec = job[v].rec
    BY BeginOthers
  <1>2. /\ files' = files /\ disturbed \subseteq disturbed'
        /\ Busy(p) => p \in disturbed'
    BY DEF Begin
  <1>3. job'[w].pkg = p /\ job'[w].base = base /\ job'[w].rec = rec
    BY <1>1
  <1>4. ASSUME NEW v \in Workers, v # w, Mutating(v), job[v].pkg = p PROVE Busy(p)
    BY <1>4 DEF Busy, MutatorsOf, Mutating
  <1> HIDE DEF base
  <1>5. ASSUME NEW u \in Workers, NEW v \in Workers, Mutating(u)', Mutating(v)',
               job'[u].pkg = job'[v].pkg, job'[u].pkg \notin disturbed'
        PROVE  u = v
    <2>1. CASE u # w /\ v # w
      BY <1>1, <1>2, <1>5, <2>1 DEF RefInv
    <2>2. CASE u = w \/ v = w
      BY <1>1, <1>2, <1>3, <1>4, <1>5, <2>2
    <2> QED
      BY <2>1, <2>2
  <1>6. ASSUME NEW v \in Workers, Mutating(v)', job'[v].pkg \notin disturbed'
        PROVE  /\ Builds(job'[v].base, job'[v].rec)
               /\ phase'[v] = "loaded" => files'[job'[v].pkg].text = job'[v].base
               /\ phase'[v] = "opened" => files'[job'[v].pkg] = Truncated
    <2>1. CASE v = w
      BY <1>1, <1>2, <1>3, <2>1 DEF base
    <2>2. CASE v # w
      BY <1>1, <1>2, <1>6, <2>2 DEF RefInv
    <2> QED
      BY <2>1, <2>2
  <1> QED
    BY <1>5, <1>6 DEF RefInv, Builds

\* register() and promote() build on what they read.
LEMMA RegisterRef ==
  ASSUME IInv, RefInv, NEW w \in Workers, NEW p \in Packages, RegisterBegin(w, p)
  PROVE  RefInv'
  <1>1. PICK attributed \in Attributions, len \in TextLens :
          Begin(w, p, Absent, Registered(nextTxn, attributed, len))
    BY DEF RegisterBegin
  <1>2. files[p].text = Absent /\ phase[w] = "idle"
    BY DEF RegisterBegin, Exists
  <1>3. nextTxn \in 1..MaxTxn
    BY MaxTxnAssumption DEF IInv, TypeOK, RegisterBegin
  <1>4. Builds(files[p].text, Registered(nextTxn, attributed, len))
    BY <1>2, <1>3 DEF Builds
  <1> QED
    BY <1>1, <1>2, <1>4, BeginRef

LEMMA PromoteRef ==
  ASSUME IInv, RefInv, NEW w \in Workers, NEW p \in Packages, NEW to \in PackageStatus,
         PromoteBegin(w, p, to)
  PROVE  RefInv'
  <1> DEFINE base == files[p].text
  <1>1. PICK attributed \in Attributions, len \in TextLens :
          Begin(w, p, base, Promoted(base, nextTxn, to, attributed, len))
    BY DEF PromoteBegin
  <1>2. nextTxn \in 1..MaxTxn /\ phase[w] = "idle"
    BY MaxTxnAssumption DEF IInv, TypeOK, PromoteBegin, Receives
  <1>3. base \in KnowledgePackage /\ Newest(base).id < nextTxn
    BY ParsedType DEF IInv, GoodRecord, PromoteBegin
  <1>4. to \in PACKAGE_LIFECYCLE_GRAPH[base.status]
    BY DEF PromoteBegin, CanMove
  <1>5. Builds(base, Promoted(base, nextTxn, to, attributed, len))
    <2> HIDE DEF base
    <2> QED
      BY <1>2, <1>3, <1>4 DEF Builds
  <1> QED
    BY <1>1, <1>2, <1>5, BeginRef

LEMMA OpenRef ==
  ASSUME IInv, RefInv, NEW w \in Workers, Open(w)
  PROVE  RefInv'
  <1>1. job[w].pkg \in Packages /\ Mutating(w)
    BY JobType DEF IInv, Open, Mutating
  <1>2. /\ job' = job /\ disturbed' = disturbed
        /\ files' = [files EXCEPT ![job[w].pkg] = Truncated]
        /\ phase'[w] = "opened"
        /\ \A v \in Workers : v # w => phase'[v] = phase[v]
    BY DEF Open, ghostVars, IInv, TypeOK
  <1>3. \A v \in Workers : Mutating(v)' => Mutating(v)
    BY <1>1, <1>2 DEF Mutating
  <1>4. \A u, v \in Workers :
          Mutating(u)' /\ Mutating(v)' /\ job'[u].pkg = job'[v].pkg
          /\ job'[u].pkg \notin disturbed' => u = v
    BY <1>2, <1>3 DEF RefInv
  <1>5. ASSUME NEW v \in Workers, Mutating(v)', job'[v].pkg \notin disturbed'
        PROVE  /\ Builds(job'[v].base, job'[v].rec)
               /\ phase'[v] = "loaded" => files'[job'[v].pkg].text = job'[v].base
               /\ phase'[v] = "opened" => files'[job'[v].pkg] = Truncated
    <2>1. Mutating(v) /\ job[v].pkg \notin disturbed /\ job[v].pkg \in Packages
      BY <1>2, <1>3, <1>5, JobType DEF Mutating, IInv
    <2>2. Builds(job'[v].base, job'[v].rec)
      BY <1>2, <2>1 DEF RefInv
    <2>3. CASE v = w
      BY <1>1, <1>2, <2>2, <2>3 DEF IInv, TypeOK
    <2>4. CASE v # w
      <3>1. job[v].pkg # job[w].pkg
        BY <1>1, <2>1, <2>4 DEF RefInv
      <3>2. files'[job[v].pkg] = files[job[v].pkg]
        BY <1>2, <2>1, <3>1 DEF IInv, TypeOK
      <3> QED
        BY <1>2, <2>1, <2>2, <2>4, <3>2 DEF RefInv
    <2> QED
      BY <2>3, <2>4
  <1> QED
    BY <1>4, <1>5 DEF RefInv, Builds

LEMMA FlushRef ==
  ASSUME IInv, RefInv, NEW w \in Workers, Flush(w)
  PROVE  RefInv'
  <1>1. job[w].pkg \in Packages /\ Mutating(w)
    BY JobType DEF IInv, Flush, Mutating
  <1>2. /\ disturbed' = disturbed
        /\ \A q \in Packages : q # job[w].pkg => files'[q] = files[q]
    BY <1>1 DEF Flush, IInv, TypeOK
  <1>3. \A v \in Workers : Mutating(v)' =>
          v # w /\ Mutating(v) /\ phase'[v] = phase[v] /\ job'[v] = job[v]
    BY DEF IInv, TypeOK, Flush, Mutating
  <1>4. \A u, v \in Workers :
          Mutating(u)' /\ Mutating(v)' /\ job'[u].pkg = job'[v].pkg
          /\ job'[u].pkg \notin disturbed' => u = v
    BY <1>2, <1>3 DEF RefInv
  <1>5. ASSUME NEW v \in Workers, Mutating(v)', job'[v].pkg \notin disturbed'
        PROVE  /\ Builds(job'[v].base, job'[v].rec)
               /\ phase'[v] = "loaded" => files'[job'[v].pkg].text = job'[v].base
               /\ phase'[v] = "opened" => files'[job'[v].pkg] = Truncated
    <2>1. /\ v # w /\ Mutating(v) /\ job[v].pkg \notin disturbed /\ job[v].pkg \in Packages
          /\ phase'[v] = phase[v] /\ job'[v] = job[v]
      BY <1>2, <1>3, <1>5, JobType DEF Mutating, IInv
    <2>2. files'[job[v].pkg] = files[job[v].pkg]
      BY <1>1, <1>2, <2>1 DEF RefInv
    <2> QED
      BY <2>1, <2>2 DEF RefInv
  <1> QED
    BY <1>4, <1>5 DEF RefInv, Builds

LEMMA NextRef == IInv /\ RefInv /\ [Next]_vars => RefInv'
  <1> SUFFICES ASSUME IInv, RefInv, [Next]_vars PROVE RefInv'
    OBVIOUS
  <1>1. ASSUME NEW w \in Workers, NEW status, AnswerNow(w, status) PROVE RefInv'
    BY <1>1, QuietRef DEF AnswerNow, storeVars, ghostVars, Mutating
  <1>2. ASSUME NEW w \in Workers, NEW p \in Packages, AuditBegin(w, p) PROVE RefInv'
    BY <1>2, QuietRef
    DEF AuditBegin, Receives, storeVars, ghostVars, Mutating, IInv, TypeOK
  <1>3. ASSUME NEW w \in Workers, AuditEnd(w) PROVE RefInv'
    BY <1>3, QuietRef DEF AuditEnd, storeVars, ghostVars, Mutating, IInv, TypeOK
  <1>4. ASSUME NEW w \in Workers, Request(w) PROVE RefInv'
    BY <1>1, <1>2, <1>4, RegisterRef, PromoteRef
    DEF Request, PromoteRefused, NotFound, Unreadable, Read
  <1>5. ASSUME NEW w \in Workers, Step(w) PROVE RefInv'
    BY <1>3, <1>5, OpenRef, FlushRef DEF Step
  <1>6. CASE Crash
    BY <1>6, QuietRef DEF Crash, Mutating
  <1>7. CASE UNCHANGED vars
    BY <1>7, QuietRef DEF vars, storeVars, handlerVars, ghostVars, Mutating
  <1> QED
    BY <1>4, <1>5, <1>6, <1>7 DEF Next

\* Visible, as a function of the state, so that one lemma speaks of the
\* state before a step and of the one after it.
See(f, ph, jb, ds, p) ==
  IF p \in ds THEN NoJob
  ELSE LET mutators == {v \in Workers : ph[v] \in {"loaded", "opened"} /\ jb[v].pkg = p}
       IN  IF \E w \in mutators : ph[w] = "opened"
             THEN jb[CHOOSE w \in mutators : ph[w] = "opened"].base
             ELSE f[p].text

\* An undisturbed package is what its one saver started from, or its file.
LEMMA SeeFact ==
  ASSUME NEW f, NEW ph, NEW jb, NEW ds, NEW p, p \notin ds,
         \A u, v \in Workers :
           ph[u] = "opened" /\ ph[v] = "opened" /\ jb[u].pkg = p /\ jb[v].pkg = p => u = v
  PROVE  /\ \A w \in Workers : ph[w] = "opened" /\ jb[w].pkg = p =>
              See(f, ph, jb, ds, p) = jb[w].base
         /\ (\A w \in Workers : ~(ph[w] = "opened" /\ jb[w].pkg = p)) =>
              See(f, ph, jb, ds, p) = f[p].text
  <1> DEFINE mutators == {v \in Workers : ph[v] \in {"loaded", "opened"} /\ jb[v].pkg = p}
             chosen == CHOOSE w \in mutators : ph[w] = "opened"
  <1>1. See(f, ph, jb, ds, p) =
          IF \E w \in mutators : ph[w] = "opened" THEN jb[chosen].base ELSE f[p].text
    BY DEF See
  <1>2. (\E w \in mutators : ph[w] = "opened") => chosen \in mutators /\ ph[chosen] = "opened"
    OBVIOUS
  <1>3. \A w : w \in mutators /\ ph[w] = "opened" <=>
               w \in Workers /\ ph[w] = "opened" /\ jb[w].pkg = p
    OBVIOUS
  <1> HIDE DEF mutators, chosen
  <1>4. ASSUME NEW w \in Workers, ph[w] = "opened", jb[w].pkg = p
        PROVE  See(f, ph, jb, ds, p) = jb[w].base
    <2>1. \E v \in mutators : ph[v] = "opened"
      BY <1>3, <1>4
    <2>2. chosen = w
      BY <1>2, <1>3, <1>4, <2>1
    <2> QED
      BY <1>1, <2>1, <2>2
  <1>5. ASSUME \A w \in Workers : ~(ph[w] = "opened" /\ jb[w].pkg = p)
        PROVE  See(f, ph, jb, ds, p) = f[p].text
    <2>1. ~(\E v \in mutators : ph[v] = "opened")
      BY <1>3, <1>5
    <2> QED
      BY <1>1, <2>1
  <1> QED
    BY <1>4, <1>5

LEMMA VisibleIsSee ==
  ASSUME NEW p \in Packages
  PROVE  /\ Visible(p) = See(files, phase, job, disturbed, p)
         /\ Visible(p)' = See(files', phase', job', disturbed', p)
  BY DEF Visible, See, MutatorsOf, Mutating

-----------------------------------------------------------------------------

\* No package changes but for becoming disturbed.
LEMMA QuietStep ==
  ASSUME \A p \in Packages : Visible(p)' = Visible(p) \/ Visible(p)' = NoJob
  PROVE  Abstract!Disturb
  BY DEF Abstract!Disturb

\* One package changes, by an operation on what everybody sees of it.
LEMMA OperationStep ==
  ASSUME NEW p \in Packages, Builds(Visible(p), Visible(p)'),
         \A q \in Packages : q # p => Visible(q)' = Visible(q)
  PROVE  Abstract!LifecycleNext
  <1> DEFINE registry == [q \in Packages |-> Visible(q)]
             base == Visible(p)
             rec == Visible(p)'
  <1>1. registry' = [registry EXCEPT ![p] = rec] /\ registry[p] = base
    OBVIOUS
  <1>2. PICK id \in 1..MaxTxn, attributed \in Attributions, len \in TextLens :
          \/ base = Absent /\ rec = Registered(id, attributed, len)
          \/ /\ base \in KnowledgePackage /\ Newest(base).id < id
             /\ \E to \in PACKAGE_LIFECYCLE_GRAPH[base.status] :
                  rec = Promoted(base, id, to, attributed, len)
    BY DEF Builds
  <1>3. base \in KnowledgePackage => base # Absent /\ base # NoJob
    BY SentinelAssumption DEF NotAText
  <1>4. /\ Abstract!Newest(base) = Newest(base)
        /\ Abstract!PACKAGE_LIFECYCLE_GRAPH = PACKAGE_LIFECYCLE_GRAPH
        /\ Abstract!Registered(id, attributed, len) = Registered(id, attributed, len)
        /\ \A to : Abstract!Promoted(base, id, to, attributed, len)
                    = Promoted(base, id, to, attributed, len)
    BY DEF Abstract!Newest, Newest, Abstract!PACKAGE_LIFECYCLE_GRAPH, PACKAGE_LIFECYCLE_GRAPH,
           Abstract!Registered, Registered, Abstract!Promoted, Promoted,
           Abstract!Transition, Transition, Abstract!NoStatus, NoStatus
  <1> HIDE DEF base, rec
  <1>5. CASE base = Absent /\ rec = Registered(id, attributed, len)
    <2>1. registry[p] = Absent
      BY <1>1, <1>5
    <2>2. registry' = [registry EXCEPT ![p] = Abstract!Registered(id, attributed, len)]
      BY <1>1, <1>4, <1>5
    <2>3. Abstract!AtomicRegister(p)
      BY <2>1, <2>2 DEF Abstract!AtomicRegister
    <2> QED
      BY <2>3 DEF Abstract!LifecycleNext
  <1>6. CASE /\ base \in KnowledgePackage /\ Newest(base).id < id
             /\ \E to \in PACKAGE_LIFECYCLE_GRAPH[base.status] :
                  rec = Promoted(base, id, to, attributed, len)
    <2>1. PICK to \in PACKAGE_LIFECYCLE_GRAPH[base.status] :
            rec = Promoted(base, id, to, attributed, len)
      BY <1>6
    <2>2. registry[p] \notin {Absent, NoJob}
      BY <1>1, <1>3, <1>6
    <2>3. to \in Abstract!PACKAGE_LIFECYCLE_GRAPH[registry[p].status]
      BY <1>1, <1>4, <2>1
    <2>4. Abstract!Newest(registry[p]).id < id
      BY <1>1, <1>4, <1>6
    <2>5. registry' = [registry EXCEPT ![p] =
                         Abstract!Promoted(registry[p], id, to, attributed, len)]
      BY <1>1, <1>4, <2>1
    <2>6. \E next \in Abstract!PACKAGE_LIFECYCLE_GRAPH[registry[p].status],
             new \in 1..MaxTxn, att \in Attributions, length \in TextLens :
            /\ Abstract!Newest(registry[p]).id < new
            /\ registry' = [registry EXCEPT ![p] =
                              Abstract!Promoted(registry[p], new, next, att, length)]
      <3> HIDE DEF registry
      <3> QED
        BY <2>3, <2>4, <2>5
    <2>7. Abstract!AtomicPromote(p)
      BY <2>2, <2>6 DEF Abstract!AtomicPromote
    <2> QED
      BY <2>7 DEF Abstract!LifecycleNext
  <1> QED
    BY <1>2, <1>5, <1>6

\* What is visible of an undisturbed package, before and after a step.
LEMMA VisibleBefore ==
  ASSUME RefInv, NEW p \in Packages
  PROVE  /\ p \in disturbed => Visible(p) = NoJob
         /\ p \notin disturbed =>
              /\ \A w \in Workers : phase[w] = "opened" /\ job[w].pkg = p =>
                   Visible(p) = job[w].base
              /\ (\A w \in Workers : ~(phase[w] = "opened" /\ job[w].pkg = p)) =>
                   Visible(p) = files[p].text
  <1>1. p \notin disturbed =>
          \A u, v \in Workers :
            phase[u] = "opened" /\ phase[v] = "opened" /\ job[u].pkg = p /\ job[v].pkg = p => u = v
    BY DEF RefInv, Mutating
  <1>2. p \in disturbed => See(files, phase, job, disturbed, p) = NoJob
    BY DEF See
  <1> QED
    BY <1>1, <1>2, SeeFact, VisibleIsSee

LEMMA VisibleAfter ==
  ASSUME RefInv', NEW p \in Packages
  PROVE  /\ p \in disturbed' => Visible(p)' = NoJob
         /\ p \notin disturbed' =>
              /\ \A w \in Workers : phase'[w] = "opened" /\ job'[w].pkg = p =>
                   Visible(p)' = job'[w].base
              /\ (\A w \in Workers : ~(phase'[w] = "opened" /\ job'[w].pkg = p)) =>
                   Visible(p)' = files'[p].text
  <1>1. p \notin disturbed' =>
          \A u, v \in Workers :
            phase'[u] = "opened" /\ phase'[v] = "opened" /\ job'[u].pkg = p /\ job'[v].pkg = p
              => u = v
    BY DEF RefInv, Mutating
  <1>2. p \in disturbed' => See(files', phase', job', disturbed', p) = NoJob
    BY DEF See
  <1> QED
    BY <1>1, <1>2, SeeFact, VisibleIsSee

\* A step that opens, ends or begins no save of an undisturbed package, and
\* changes no file, changes nothing visible.
LEMMA UnseenStep ==
  ASSUME IInv, RefInv, RefInv', files' = files, disturbed \subseteq disturbed',
         \A v \in Workers, p \in Packages : p \notin disturbed' =>
           (/\ phase'[v] = "opened" /\ job'[v].pkg = p
              <=> phase[v] = "opened" /\ job[v].pkg = p)
           /\ (phase[v] = "opened" /\ job[v].pkg = p => job'[v].base = job[v].base)
  PROVE  Abstract!Disturb
  <1>1. ASSUME NEW p \in Packages PROVE Visible(p)' = Visible(p) \/ Visible(p)' = NoJob
    <2>1. CASE p \in disturbed'
      BY <2>1, VisibleAfter
    <2>2. CASE p \notin disturbed'
      <3>1. CASE \E w \in Workers : phase[w] = "opened" /\ job[w].pkg = p
        <4>1. PICK w \in Workers : phase[w] = "opened" /\ job[w].pkg = p
          BY <3>1
        <4>2. phase'[w] = "opened" /\ job'[w].pkg = p /\ job'[w].base = job[w].base
          BY <2>2, <4>1
        <4> QED
          BY <2>2, <4>1, <4>2, VisibleBefore, VisibleAfter
      <3>2. CASE \A w \in Workers : ~(phase[w] = "opened" /\ job[w].pkg = p)
        <4>1. \A w \in Workers : ~(phase'[w] = "opened" /\ job'[w].pkg = p)
          BY <2>2, <3>2
        <4> QED
          BY <2>2, <3>2, <4>1, VisibleBefore, VisibleAfter
      <3> QED
        BY <3>1, <3>2
    <2> QED
      BY <2>1, <2>2
  <1> QED
    BY <1>1, QuietStep

\* A handler that has read and built changes nothing visible yet.
LEMMA BeginUnseen ==
  ASSUME IInv, RefInv, RefInv', NEW w \in Workers, NEW p \in Packages, NEW base, NEW rec,
         phase[w] = "idle", Begin(w, p, base, rec)
  PROVE  Abstract!Disturb
  <1>1. /\ phase[w] = "idle" /\ phase'[w] = "loaded"
        /\ \A v \in Workers : v # w /\ Mutating(v)' =>
              /\ phase'[v] = phase[v]
              /\ job'[v].pkg = job[v].pkg /\ job'[v].base = job[v].base
    BY BeginOthers
  <1>2. \A v \in Workers : v # w => phase'[v] = phase[v]
    BY DEF Begin, IInv, TypeOK
  <1>3. files' = files /\ disturbed \subseteq disturbed'
    BY DEF Begin
  <1>4. \A v \in Workers : phase[v] = "opened" \/ phase'[v] = "opened" =>
          /\ v # w /\ phase'[v] = phase[v]
          /\ job'[v].pkg = job[v].pkg /\ job'[v].base = job[v].base
    BY <1>1, <1>2 DEF Mutating
  <1> QED
    BY <1>3, <1>4, UnseenStep

\* Truncating the file shows what the handler started from: the same record.
LEMMA OpenUnseen ==
  ASSUME IInv, RefInv, RefInv', NEW w \in Workers, Open(w)
  PROVE  Abstract!Disturb
  <1>1. /\ job[w].pkg \in Packages /\ Mutating(w) /\ phase[w] = "loaded"
        /\ phase'[w] = "opened" /\ job' = job /\ disturbed' = disturbed
    BY JobType DEF IInv, TypeOK, Open, ghostVars, Mutating
  <1>2. /\ \A v \in Workers : v # w => phase'[v] = phase[v]
        /\ \A p \in Packages : p # job[w].pkg => files'[p] = files[p]
    BY DEF IInv, TypeOK, Open
  <1>3. ASSUME NEW p \in Packages PROVE Visible(p)' = Visible(p) \/ Visible(p)' = NoJob
    <2>1. CASE p \in disturbed
      BY <1>1, <2>1, VisibleAfter
    <2>2. CASE p \notin disturbed /\ p = job[w].pkg
      <3>1. Visible(p)' = job[w].base
        BY <1>1, <2>2, VisibleAfter
      <3>2. files[p].text = job[w].base
        BY <1>1, <2>2 DEF RefInv
      <3>3. \A v \in Workers : ~(phase[v] = "opened" /\ job[v].pkg = p)
        BY <1>1, <2>2 DEF RefInv, Mutating
      <3>4. Visible(p) = files[p].text
        BY <2>2, <3>3, VisibleBefore
      <3> QED
        BY <3>1, <3>2, <3>4
    <2>3. CASE p \notin disturbed /\ p # job[w].pkg
      <3>1. CASE \E v \in Workers : phase[v] = "opened" /\ job[v].pkg = p
        <4>1. PICK v \in Workers : phase[v] = "opened" /\ job[v].pkg = p
          BY <3>1
        <4>2. phase'[v] = "opened" /\ job'[v] = job[v]
          BY <1>1, <1>2, <2>3, <4>1
        <4> QED
          BY <1>1, <2>3, <4>1, <4>2, VisibleBefore, VisibleAfter
      <3>2. CASE \A v \in Workers : ~(phase[v] = "opened" /\ job[v].pkg = p)
        <4>1. \A v \in Workers : ~(phase'[v] = "opened" /\ job'[v].pkg = p)
          BY <1>1, <1>2, <2>3, <3>2
        <4> QED
          BY <1>1, <1>2, <2>3, <3>2, <4>1, VisibleBefore, VisibleAfter
      <3> QED
        BY <3>1, <3>2
    <2> QED
      BY <2>1, <2>2, <2>3
  <1> QED
    BY <1>3, QuietStep

\* The end of a save is the operation.
LEMMA FlushSeen ==
  ASSUME IInv, RefInv, RefInv', NEW w \in Workers, Flush(w)
  PROVE  Abstract!LifecycleNext
  <1>1. PICK p \in Packages, rec \in KnowledgePackage :
          p = job[w].pkg /\ rec = job[w].rec
    BY JobType DEF IInv, Flush
  <1>2. /\ Mutating(w) /\ phase[w] = "opened" /\ disturbed' = disturbed
        /\ phase'[w] = "idle"
        /\ \A v \in Workers : v # w => phase'[v] = phase[v] /\ job'[v] = job[v]
        /\ files'[p] = Written(files[p], rec)
        /\ \A q \in Packages : q # p => files'[q] = files[q]
    BY <1>1 DEF IInv, TypeOK, Flush, Mutating
  <1>3. ASSUME NEW q \in Packages, q # p \/ q \in disturbed
        PROVE  Visible(q)' = Visible(q)
    <2>1. CASE q \in disturbed
      BY <1>2, <2>1, VisibleBefore, VisibleAfter
    <2>2. CASE q \notin disturbed
      <3>1. CASE \E v \in Workers : phase[v] = "opened" /\ job[v].pkg = q
        <4>1. PICK v \in Workers : phase[v] = "opened" /\ job[v].pkg = q
          BY <3>1
        <4>2. phase'[v] = "opened" /\ job'[v] = job[v]
          BY <1>1, <1>2, <1>3, <2>2, <4>1
        <4> QED
          BY <1>2, <2>2, <4>1, <4>2, VisibleBefore, VisibleAfter
      <3>2. CASE \A v \in Workers : ~(phase[v] = "opened" /\ job[v].pkg = q)
        <4>1. \A v \in Workers : ~(phase'[v] = "opened" /\ job'[v].pkg = q)
          BY <1>2, <3>2
        <4> QED
          BY <1>2, <1>3, <2>2, <3>2, <4>1, VisibleBefore, VisibleAfter
      <3> QED
        BY <3>1, <3>2
    <2> QED
      BY <2>1, <2>2
  <1>4. CASE p \in disturbed
    <2>1. Abstract!Disturb
      BY <1>3, <1>4, QuietStep
    <2> QED
      BY <2>1 DEF Abstract!LifecycleNext
  <1>5. CASE p \notin disturbed
    <2>1. files[p] = Truncated /\ Builds(job[w].base, rec)
      BY <1>1, <1>2, <1>5 DEF RefInv
    <2>2. Visible(p) = job[w].base
      BY <1>1, <1>2, <1>5, VisibleBefore
    <2>3. files'[p].text = rec
      <3>1. rec.size \in Nat
        BY DEF KnowledgePackage
      <3>2. rec.size >= Truncated.extent
        BY <3>1 DEF Truncated
      <3> QED
        BY <1>2, <2>1, <3>2 DEF Written
    <2>4. \A v \in Workers : ~(phase'[v] = "opened" /\ job'[v].pkg = p)
      BY <1>1, <1>2, <1>5 DEF RefInv, Mutating
    <2>5. Visible(p)' = rec
      BY <1>2, <1>5, <2>3, <2>4, VisibleAfter
    <2>6. Builds(Visible(p), Visible(p)')
      BY <2>1, <2>2, <2>5
    <2> QED
      BY <1>3, <2>6, OperationStep
  <1> QED
    BY <1>4, <1>5

\* Whatever else happens is not seen, or disturbs.
LEMMA CrashUnseen ==
  ASSUME IInv, RefInv, RefInv', Crash
  PROVE  Abstract!Disturb
  <1>1. /\ files' = files /\ disturbed \subseteq disturbed'
        /\ \A v \in Workers : phase'[v] = "idle"
        /\ \A v \in Workers : phase[v] = "opened" => job[v].pkg \in disturbed'
    BY DEF Crash
  <1> QED
    BY <1>1, UnseenStep

LEMMA StepRefines ==
  IInv /\ RefInv /\ RefInv' /\ [Next]_vars =>
    [Abstract!LifecycleNext]_([p \in Packages |-> Visible(p)])
  <1> SUFFICES ASSUME IInv, RefInv, RefInv', [Next]_vars
               PROVE  Abstract!LifecycleNext
                        \/ UNCHANGED [p \in Packages |-> Visible(p)]
    OBVIOUS
  <1>1. ASSUME Abstract!Disturb PROVE Abstract!LifecycleNext
    BY <1>1 DEF Abstract!LifecycleNext
  <1>2. ASSUME files' = files, disturbed' = disturbed,
               \A v \in Workers : phase[v] = "opened" \/ phase'[v] = "opened" =>
                 phase'[v] = phase[v] /\ job'[v] = job[v]
        PROVE  Abstract!Disturb
    BY <1>2, UnseenStep
  <1>3. ASSUME NEW w \in Workers, NEW p \in Packages, RegisterBegin(w, p)
        PROVE  Abstract!Disturb
    BY <1>3, BeginUnseen DEF RegisterBegin
  <1>4. ASSUME NEW w \in Workers, NEW p \in Packages, NEW to \in PackageStatus,
               PromoteBegin(w, p, to)
        PROVE  Abstract!Disturb
    BY <1>4, BeginUnseen DEF PromoteBegin, Receives
  <1>5. ASSUME NEW w \in Workers, NEW status, AnswerNow(w, status)
        PROVE  Abstract!Disturb
    BY <1>2, <1>5 DEF AnswerNow, storeVars, ghostVars
  <1>6. ASSUME NEW w \in Workers, NEW p \in Packages, AuditBegin(w, p)
        PROVE  Abstract!Disturb
    BY <1>2, <1>6 DEF AuditBegin, Receives, storeVars, ghostVars, IInv, TypeOK
  <1>7. ASSUME NEW w \in Workers, Request(w) PROVE Abstract!Disturb
    BY <1>3, <1>4, <1>5, <1>6, <1>7
    DEF Request, PromoteRefused, NotFound, Unreadable, Read
  <1>8. ASSUME NEW w \in Workers, AuditEnd(w) PROVE Abstract!Disturb
    BY <1>2, <1>8 DEF AuditEnd, storeVars, ghostVars, IInv, TypeOK
  <1>9. ASSUME NEW w \in Workers, Step(w) PROVE Abstract!LifecycleNext
    BY <1>1, <1>8, <1>9, OpenUnseen, FlushSeen DEF Step
  <1>10. CASE UNCHANGED vars
    BY <1>1, <1>2, <1>10 DEF vars, storeVars, handlerVars, ghostVars
  <1> QED
    BY <1>1, <1>7, <1>9, <1>10, CrashUnseen DEF Next

\* The unlocked, crashing registry implements the atomic one: a package is an
\* atomic entry until two mutations of it overlap or a save is cut short.
THEOREM LifecycleImplemented == Spec => ImplementsLifecycle
  <1>1. Init => RefInv
    BY DEF Init, RefInv, Mutating
  <1>2. Init => Abstract!LifecycleInit
    <2> SUFFICES ASSUME Init PROVE Abstract!LifecycleInit
      OBVIOUS
    <2>1. ASSUME NEW p \in Packages PROVE Visible(p) = Absent
      <3>1. RefInv /\ p \notin disturbed /\ \A w \in Workers : phase[w] # "opened"
        BY <1>1 DEF Init
      <3>2. files[p].text = Absent
        BY DEF Init, NoFile
      <3> QED
        BY <3>1, <3>2, VisibleBefore
    <2> QED
      BY <2>1 DEF Abstract!LifecycleInit
  <1>3. Spec => []RefInv
    BY <1>1, InvariantHolds, NextRef, PTL DEF Spec
  <1> QED
    BY <1>2, <1>3, InvariantHolds, StepRefines, PTL
    DEF Spec, ImplementsLifecycle, Abstract!LifecycleSpec

-----------------------------------------------------------------------------
(* Undisturbed packages.  What is stored of one, while nobody overwrites it, *)
(* was acknowledged; what its one saver holds goes one transition further.   *)

Quiet(p) == \A w \in Workers : phase[w] = "opened" => job[w].pkg # p

ExactInv ==
  /\ \A p \in Packages : p \notin disturbed /\ Quiet(p) =>
       /\ Exists(files[p]) => Parses(files[p]) /\ Recorded(files[p].text) = acked[p]
       /\ ~Exists(files[p]) => acked[p] = {}
  /\ \A w \in Workers : Mutating(w) /\ job[w].pkg \notin disturbed =>
       Recorded(job[w].rec) = acked[job[w].pkg] \cup {Newest(job[w].rec)}

\* Steps that change no file, and end no save of an undisturbed package.
LEMMA QuietExact ==
  ASSUME ExactInv, files' = files, acked' = acked, disturbed \subseteq disturbed',
         \A v \in Workers : Mutating(v)' =>
           Mutating(v) /\ phase'[v] = phase[v] /\ job'[v] = job[v],
         \A v \in Workers : phase[v] = "opened" /\ job[v].pkg \notin disturbed' =>
           phase'[v] = "opened" /\ job'[v] = job[v]
  PROVE  ExactInv'
  <1>1. ASSUME NEW p \in Packages, p \notin disturbed', Quiet(p)'
        PROVE  p \notin disturbed /\ Quiet(p)
    BY <1>1 DEF Quiet
  <1>2. ASSUME NEW w \in Workers, Mutating(w)', job'[w].pkg \notin disturbed'
        PROVE  (Recorded(job[w].rec) = acked[job[w].pkg] \cup {Newest(job[w].rec)})'
    <2>1. /\ Mutating(w) /\ job'[w].pkg = job[w].pkg /\ job'[w].rec = job[w].rec
          /\ job[w].pkg \notin disturbed /\ acked' = acked
      BY <1>2
    <2>2. Recorded(job[w].rec) = acked[job[w].pkg] \cup {Newest(job[w].rec)}
      BY <2>1 DEF ExactInv
    <2> QED
      BY <2>1, <2>2 DEF Recorded, Newest
  <1>3. ASSUME NEW p \in Packages, p \notin disturbed', Quiet(p)'
        PROVE  /\ Exists(files[p])' => (Parses(files[p]) /\ Recorded(files[p].text) = acked[p])'
               /\ ~Exists(files[p])' => acked'[p] = {}
    BY <1>1, <1>3 DEF ExactInv, Exists, Parses, Recorded
  <1> QED
    BY <1>2, <1>3 DEF ExactInv

LEMMA BeginExact ==
  ASSUME IInv, ExactInv, NEW w \in Workers, NEW p \in Packages, NEW base, NEW rec,
         phase[w] = "idle", Begin(w, p, base, rec),
         p \notin disturbed => Recorded(rec) = acked[p] \cup {Newest(rec)}
  PROVE  ExactInv'
  <1>1. /\ job'[w] = [pkg |-> p, base |-> base, rec |-> rec, solo |-> ~Busy(p)]
        /\ phase'[w] = "loaded"
        /\ \A v \in Workers : v # w /\ Mutating(v)' =>
              /\ Mutating(v) /\ phase'[v] = phase[v]
              /\ job'[v].pkg = job[v].pkg /\ job'[v].base = job[v].base
              /\ job'[v].rec = job[v].rec
    BY BeginOthers
  <1>2. /\ files' = files /\ acked' = acked /\ disturbed \subseteq disturbed'
        /\ \A v \in Workers : v # w => phase'[v] = phase[v]
    BY DEF Begin, IInv, TypeOK
  <1>3. ASSUME NEW q \in Packages, Quiet(q)' PROVE Quiet(q)
    BY <1>1, <1>2, <1>3 DEF Quiet, Mutating
  <1>4. ASSUME NEW q \in Packages, q \notin disturbed', Quiet(q)'
        PROVE  /\ Exists(files[q])' => (Parses(files[q]) /\ Recorded(files[q].text) = acked[q])'
               /\ ~Exists(files[q])' => acked'[q] = {}
    BY <1>2, <1>3, <1>4 DEF ExactInv, Exists, Parses, Recorded
  <1>5. ASSUME NEW v \in Workers, Mutating(v)', job'[v].pkg \notin disturbed'
        PROVE  (Recorded(job[v].rec) = acked[job[v].pkg] \cup {Newest(job[v].rec)})'
    <2>1. CASE v = w
      <3>1. job'[v].pkg = p /\ job'[v].rec = rec
        BY <1>1, <2>1
      <3> QED
        BY <1>2, <1>5, <3>1 DEF Recorded, Newest
    <2>2. CASE v # w
      <3>1. /\ Mutating(v) /\ job'[v].pkg = job[v].pkg /\ job'[v].rec = job[v].rec
            /\ job[v].pkg \notin disturbed
        BY <1>1, <1>2, <1>5, <2>2
      <3>2. Recorded(job[v].rec) = acked[job[v].pkg] \cup {Newest(job[v].rec)}
        BY <3>1 DEF ExactInv
      <3> QED
        BY <1>2, <3>1, <3>2 DEF Recorded, Newest
    <2> QED
      BY <2>1, <2>2
  <1> QED
    BY <1>4, <1>5 DEF ExactInv

\* While a package that is not disturbed is overwritten, it cannot be read.
LEMMA ReadableIsQuiet ==
  ASSUME RefInv, NEW p \in Packages, p \notin disturbed, Parses(files[p])
  PROVE  Quiet(p)
  <1>1. ~Parses(Truncated)
    BY ArtifactStoreAssumption DEF Truncated, Parses, NotAText
  <1> QED
    BY <1>1 DEF Quiet, RefInv, Mutating

LEMMA RegisterExact ==
  ASSUME IInv, RefInv, ExactInv, NEW w \in Workers, NEW p \in Packages, RegisterBegin(w, p)
  PROVE  ExactInv'
  <1>1. PICK attributed \in Attributions, len \in TextLens :
          Begin(w, p, Absent, Registered(nextTxn, attributed, len))
    BY DEF RegisterBegin
  <1> DEFINE t == Transition(nextTxn, NoStatus, "REGISTERED", attributed)
             rec == Registered(nextTxn, attributed, len)
  <1>2. phase[w] = "idle" /\ ~Exists(files[p]) /\ Quiet(p)
    BY DEF RegisterBegin, Quiet, Busy, MutatorsOf, Mutating
  <1>3. p \notin disturbed => acked[p] = {}
    BY <1>2 DEF ExactInv
  <1>4. rec.history = <<t>>
    BY DEF Registered
  <1>5. Newest(rec) = t /\ Recorded(rec) = {t}
    <2> HIDE DEF t, rec
    <2>1. Len(rec.history) = 1 /\ rec.history[1] = t
      BY <1>4
    <2> QED
      BY <2>1 DEF Newest, Recorded
  <1> HIDE DEF t, rec
  <1>6. p \notin disturbed => Recorded(rec) = acked[p] \cup {Newest(rec)}
    BY <1>3, <1>5
  <1> QED
    BY <1>1, <1>2, <1>6, BeginExact DEF rec

LEMMA PromoteExact ==
  ASSUME IInv, RefInv, ExactInv, NEW w \in Workers, NEW p \in Packages,
         NEW to \in PackageStatus, PromoteBegin(w, p, to)
  PROVE  ExactInv'
  <1> DEFINE base == files[p].text
  <1>1. PICK attributed \in Attributions, len \in TextLens :
          Begin(w, p, base, Promoted(base, nextTxn, to, attributed, len))
    BY DEF PromoteBegin
  <1> DEFINE rec == Promoted(base, nextTxn, to, attributed, len)
  <1>2. nextTxn \in Nat /\ attributed \in BOOLEAN /\ len \in Nat
    BY TextLensAssumption, AttributionsAssumption DEF IInv, TypeOK
  <1>3. phase[w] = "idle" /\ Parses(files[p]) /\ base \in KnowledgePackage
    BY ParsedType DEF IInv, PromoteBegin, Receives
  <1>4. Recorded(rec) = Recorded(base) \cup {Newest(rec)}
    BY <1>2, <1>3, PromotedRecords
  <1>5. p \notin disturbed => Recorded(base) = acked[p]
    <2>1. Parses(files[p]) => Exists(files[p])
      BY DEF Parses, Exists, NotAText
    <2> QED
      BY <1>3, <2>1, ReadableIsQuiet DEF ExactInv
  <1>6. p \notin disturbed => Recorded(rec) = acked[p] \cup {Newest(rec)}
    BY <1>4, <1>5
  <1> HIDE DEF base
  <1> QED
    BY <1>1, <1>3, <1>6, BeginExact

LEMMA OpenExact ==
  ASSUME IInv, ExactInv, NEW w \in Workers, Open(w)
  PROVE  ExactInv'
  <1>1. /\ job[w].pkg \in Packages /\ job' = job /\ acked' = acked /\ disturbed' = disturbed
        /\ phase[w] = "loaded" /\ phase'[w] = "opened"
        /\ \A v \in Workers : v # w => phase'[v] = phase[v]
        /\ \A q \in Packages : q # job[w].pkg => files'[q] = files[q]
    BY JobType DEF IInv, TypeOK, Open, ghostVars
  <1>2. \A v \in Workers : Mutating(v)' => Mutating(v)
    BY <1>1 DEF Mutating
  <1>3. ASSUME NEW q \in Packages, Quiet(q)'
        PROVE  Quiet(q) /\ files'[q] = files[q]
    BY <1>1, <1>3 DEF Quiet
  <1>4. ASSUME NEW q \in Packages, q \notin disturbed', Quiet(q)'
        PROVE  /\ Exists(files[q])' => (Parses(files[q]) /\ Recorded(files[q].text) = acked[q])'
               /\ ~Exists(files[q])' => acked'[q] = {}
    BY <1>1, <1>3, <1>4 DEF ExactInv, Exists, Parses, Recorded
  <1>5. ASSUME NEW v \in Workers, Mutating(v)', job'[v].pkg \notin disturbed'
        PROVE  (Recorded(job[v].rec) = acked[job[v].pkg] \cup {Newest(job[v].rec)})'
    BY <1>1, <1>2, <1>5 DEF ExactInv, Recorded, Newest
  <1> QED
    BY <1>4, <1>5 DEF ExactInv

LEMMA FlushExact ==
  ASSUME IInv, RefInv, ExactInv, NEW w \in Workers, Flush(w)
  PROVE  ExactInv'
  <1>1. PICK p \in Packages, rec \in KnowledgePackage :
          p = job[w].pkg /\ rec = job[w].rec
    BY JobType DEF IInv, Flush
  <1>2. /\ Mutating(w) /\ phase[w] = "opened" /\ disturbed' = disturbed
        /\ phase'[w] = "idle"
        /\ \A v \in Workers : v # w => phase'[v] = phase[v] /\ job'[v] = job[v]
        /\ files'[p] = Written(files[p], rec) /\ acked'[p] = acked[p] \cup {Newest(rec)}
        /\ \A q \in Packages : q # p => files'[q] = files[q] /\ acked'[q] = acked[q]
    BY <1>1 DEF IInv, TypeOK, Flush, Mutating
  <1>3. \A v \in Workers : Mutating(v)' => v # w /\ Mutating(v)
    BY <1>2 DEF Mutating
  <1>4. ASSUME NEW q \in Packages, q \notin disturbed', Quiet(q)'
        PROVE  /\ Exists(files'[q]) => Parses(files'[q]) /\ Recorded(files'[q].text) = acked'[q]
               /\ ~Exists(files'[q]) => acked'[q] = {}
    <2>1. CASE q = p
      <3>1. files[p] = Truncated
        BY <1>1, <1>2, <1>4, <2>1 DEF RefInv
      <3>2. rec.size \in Nat
        BY DEF KnowledgePackage
      <3>3. rec.size >= Truncated.extent
        BY <3>2 DEF Truncated
      <3>4. files'[p] = [text |-> rec, extent |-> rec.size]
        BY <1>2, <3>1, <3>3 DEF Written
      <3>5. rec \notin NotAText /\ rec # Absent
        BY SentinelAssumption DEF NotAText
      <3>6. Recorded(rec) = acked'[p]
        BY <1>1, <1>2, <1>4, <2>1 DEF ExactInv
      <3> QED
        BY <2>1, <3>4, <3>5, <3>6 DEF Exists, Parses
    <2>2. CASE q # p
      <3>1. Quiet(q)
        BY <1>1, <1>2, <1>4, <2>2 DEF Quiet
      <3>2. q \notin disturbed /\ files'[q] = files[q] /\ acked'[q] = acked[q]
        BY <1>2, <1>4, <2>2
      <3> QED
        BY <3>1, <3>2 DEF ExactInv
    <2> QED
      BY <2>1, <2>2
  <1>5. ASSUME NEW v \in Workers, Mutating(v)', job'[v].pkg \notin disturbed'
        PROVE  (Recorded(job[v].rec) = acked[job[v].pkg] \cup {Newest(job[v].rec)})'
    <2>1. v # w /\ Mutating(v) /\ job'[v] = job[v] /\ job[v].pkg \notin disturbed
      BY <1>2, <1>3, <1>5
    <2>2. job[v].pkg \in Packages /\ job[v].pkg # p
      BY <1>1, <1>2, <2>1, JobType DEF RefInv, IInv, Mutating
    <2>3. acked'[job[v].pkg] = acked[job[v].pkg]
      BY <1>2, <2>2
    <2> QED
      BY <2>1, <2>3 DEF ExactInv, Recorded, Newest
  <1> QED
    BY <1>4, <1>5 DEF ExactInv, Exists, Parses, Recorded

LEMMA NextExact == IInv /\ RefInv /\ ExactInv /\ [Next]_vars => ExactInv'
  <1> SUFFICES ASSUME IInv, RefInv, ExactInv, [Next]_vars PROVE ExactInv'
    OBVIOUS
  <1>1. ASSUME NEW w \in Workers, NEW status, AnswerNow(w, status) PROVE ExactInv'
    BY <1>1, QuietExact DEF AnswerNow, storeVars, ghostVars, Mutating
  <1>2. ASSUME NEW w \in Workers, NEW p \in Packages, AuditBegin(w, p) PROVE ExactInv'
    BY <1>2, QuietExact
    DEF AuditBegin, Receives, storeVars, ghostVars, Mutating, IInv, TypeOK
  <1>3. ASSUME NEW w \in Workers, AuditEnd(w) PROVE ExactInv'
    BY <1>3, QuietExact DEF AuditEnd, storeVars, ghostVars, Mutating, IInv, TypeOK
  <1>4. ASSUME NEW w \in Workers, Request(w) PROVE ExactInv'
    BY <1>1, <1>2, <1>4, RegisterExact, PromoteExact
    DEF Request, PromoteRefused, NotFound, Unreadable, Read
  <1>5. ASSUME NEW w \in Workers, Step(w) PROVE ExactInv'
    BY <1>3, <1>5, OpenExact, FlushExact DEF Step
  <1>6. CASE Crash
    BY <1>6, QuietExact DEF Crash, Mutating
  <1>7. CASE UNCHANGED vars
    BY <1>7, QuietExact DEF vars, storeVars, handlerVars, ghostVars, Mutating
  <1> QED
    BY <1>4, <1>5, <1>6, <1>7 DEF Next

\* A package without overlapping mutations or interrupted saves holds exactly
\* the transitions that were acknowledged, once nobody is at work on it.
THEOREM UndisturbedExact == Spec => []UndisturbedIsExact
  <1>1. Init => RefInv
    BY DEF Init, RefInv, Mutating
  <1>2. Init => ExactInv
    BY DEF Init, ExactInv, Mutating, NoFile, Exists
  <1>3. Spec => []RefInv
    BY <1>1, InvariantHolds, NextRef, PTL DEF Spec
  <1>4. Spec => []ExactInv
    BY <1>2, <1>3, InvariantHolds, NextExact, PTL DEF Spec
  <1>5. ExactInv => UndisturbedIsExact
    BY DEF ExactInv, UndisturbedIsExact, Quiet, Busy, MutatorsOf, Mutating
  <1> QED
    BY <1>4, <1>5, PTL

-----------------------------------------------------------------------------
(* Damaged records                                                          *)

\* A handler is at work on the package whose file it opens or writes.
LEMMA WriterIsBusy ==
  ASSUME NEW w \in Workers, Mutating(w)
  PROVE  Busy(job[w].pkg)
  BY DEF Busy, MutatorsOf

\* A record that no longer parses is overwritten by no later request.
THEOREM DamagedIsKept == Spec => DamagedIsNeverReplaced
  <1> DEFINE Kept(p) == files'[p] = files[p] /\ ~Busy(p)'
  <1>1. ASSUME IInv, [Next]_vars, NEW p \in Packages,
               Exists(files[p]), ~Parses(files[p]), ~Busy(p)
        PROVE  Kept(p)
    <2>1. ASSUME files' = files,
                 \A v \in Workers : Mutating(v)' => Mutating(v) /\ job'[v] = job[v]
          PROVE  Kept(p)
      BY <1>1, <2>1 DEF Busy, MutatorsOf
    <2>2. ASSUME NEW w \in Workers, NEW q \in Packages, q # p, NEW base, NEW rec,
                 phase[w] = "idle", Begin(w, q, base, rec)
          PROVE  Kept(p)
      <3>1. /\ job'[w] = [pkg |-> q, base |-> base, rec |-> rec, solo |-> ~Busy(q)]
            /\ \A v \in Workers : v # w /\ Mutating(v)' =>
                 Mutating(v) /\ job'[v].pkg = job[v].pkg
        BY <1>1, <2>2, BeginOthers
      <3>2. files' = files /\ job'[w].pkg = q
        BY <2>2, <3>1 DEF Begin
      <3> QED
        BY <1>1, <2>2, <3>1, <3>2 DEF Busy, MutatorsOf
    <2>3. ASSUME NEW w \in Workers, NEW q \in Packages, RegisterBegin(w, q) PROVE Kept(p)
      BY <1>1, <2>2, <2>3 DEF RegisterBegin
    <2>4. ASSUME NEW w \in Workers, NEW q \in Packages, NEW to \in PackageStatus,
                 PromoteBegin(w, q, to)
          PROVE  Kept(p)
      BY <1>1, <2>2, <2>4 DEF PromoteBegin, Receives
    <2>5. ASSUME NEW w \in Workers, Open(w) PROVE Kept(p)
      <3>1. /\ job[w].pkg # p /\ job' = job
            /\ \A v \in Workers : Mutating(v)' => Mutating(v)
        BY <1>1, <2>5, WriterIsBusy DEF Open, Mutating, IInv, TypeOK
      <3>2. files'[p] = files[p]
        BY <1>1, <2>5, <3>1 DEF Open, IInv, TypeOK
      <3> QED
        BY <1>1, <3>1, <3>2 DEF Busy, MutatorsOf
    <2>6. ASSUME NEW w \in Workers, Flush(w) PROVE Kept(p)
      <3>1. /\ job[w].pkg # p
            /\ \A v \in Workers : Mutating(v)' => Mutating(v) /\ job'[v] = job[v]
        BY <1>1, <2>6, WriterIsBusy DEF Flush, Mutating, IInv, TypeOK
      <3>2. files'[p] = files[p]
        BY <1>1, <2>6, <3>1 DEF Flush, IInv, TypeOK
      <3> QED
        BY <1>1, <3>1, <3>2 DEF Busy, MutatorsOf
    <2>7. ASSUME NEW w \in Workers, NEW status, AnswerNow(w, status) PROVE Kept(p)
      BY <2>1, <2>7 DEF AnswerNow, storeVars, Mutating
    <2>8. ASSUME NEW w \in Workers, NEW q \in Packages, AuditBegin(w, q) PROVE Kept(p)
      BY <1>1, <2>1, <2>8 DEF AuditBegin, Receives, storeVars, Mutating, IInv, TypeOK
    <2>9. ASSUME NEW w \in Workers, AuditEnd(w) PROVE Kept(p)
      BY <1>1, <2>1, <2>9 DEF AuditEnd, storeVars, Mutating, IInv, TypeOK
    <2>10. CASE Crash
      BY <2>1, <2>10 DEF Crash, Mutating
    <2>11. CASE UNCHANGED vars
      BY <2>1, <2>11 DEF vars, storeVars, handlerVars, Mutating
    <2>12. ASSUME NEW w \in Workers, Request(w) PROVE Kept(p)
      <3> HIDE DEF Kept
      <3> QED
        BY <2>3, <2>4, <2>7, <2>8, <2>12
        DEF Request, PromoteRefused, NotFound, Unreadable, Read
    <2> HIDE DEF Kept
    <2> QED
      BY <1>1, <2>5, <2>6, <2>9, <2>10, <2>11, <2>12 DEF Next, Step
  <1>2. IInv /\ [Next]_vars =>
          [\A p \in Packages :
             Exists(files[p]) /\ ~Parses(files[p]) /\ ~Busy(p) =>
               files'[p] = files[p] /\ ~Busy(p)']_vars
    BY <1>1
  <1> QED
    BY <1>2, InvariantHolds, PTL DEF Spec, DamagedIsNeverReplaced

-----------------------------------------------------------------------------
(* Audits.  Both reads of an audit find sound records, though not the same. *)

AttributedInv ==
  /\ \A p \in Packages : Parses(files[p]) => Attributed(files[p].text)
  /\ \A w \in Workers : phase[w] # "idle" => Attributed(job[w].rec)
  /\ \A w \in Workers : answer[w] # "alarm"

\* An attributed transition keeps a record attributed.
LEMMA PromotedAttributed ==
  ASSUME NEW pkg \in KnowledgePackage, NEW id, NEW to, NEW len, Attributed(pkg)
  PROVE  Attributed(Promoted(pkg, id, to, TRUE, len))
  <1> DEFINE h == pkg.history
             t == Transition(id, pkg.status, to, TRUE)
             g == Append(h, t)
  <1>1. h \in Seq(PackageTransition) /\ t.attributed
    BY DEF KnowledgePackage, Transition
  <1>2. \A i \in 1..Len(h) : h[i].attributed
    BY DEF Attributed
  <1>3. Promoted(pkg, id, to, TRUE, len).history = g
    BY DEF Promoted
  <1> HIDE DEF h, t
  <1>4. /\ Len(g) = Len(h) + 1 /\ Len(h) \in Nat /\ g[Len(h) + 1] = t
        /\ \A i \in 1..Len(h) : g[i] = h[i]
    BY <1>1
  <1> HIDE DEF g
  <1>5. ASSUME NEW i \in 1..Len(g) PROVE g[i].attributed
    <2>1. i = Len(h) + 1 \/ i \in 1..Len(h)
      BY <1>4
    <2> QED
      BY <1>1, <1>2, <1>4, <2>1
  <1> QED
    BY <1>3, <1>5 DEF Attributed

LEMMA BeginAttributed ==
  ASSUME IInv, AttributedInv, NEW w \in Workers, NEW p \in Packages, NEW base, NEW rec,
         Begin(w, p, base, rec), Attributed(rec)
  PROVE  AttributedInv'
  <1>1. files' = files /\ answer' = answer
    BY DEF Begin
  <1>2. ASSUME NEW v \in Workers, phase'[v] # "idle"
        PROVE  Attributed(job[v].rec)'
    <2>1. CASE v = w
      <3>1. job'[v].rec = rec
        BY <2>1 DEF Begin
      <3> QED
        BY <3>1 DEF Attributed
    <2>2. CASE v # w
      <3>1. phase[v] # "idle" /\ job[v] \in Job
        BY <1>2, <2>2, JobType DEF Begin, IInv, TypeOK
      <3>2. job'[v] = job[v] \/ job'[v] = [job[v] EXCEPT !.solo = FALSE]
        BY <2>2 DEF Begin
      <3>3. job'[v].rec = job[v].rec
        BY <3>1, <3>2 DEF Job
      <3> QED
        BY <3>1, <3>3 DEF AttributedInv, Attributed
    <2> QED
      BY <2>1, <2>2
  <1> QED
    BY <1>1, <1>2 DEF AttributedInv, Parses, Attributed

LEMMA FlushAttributed ==
  ASSUME IInv, AttributedInv, NEW w \in Workers, Flush(w)
  PROVE  AttributedInv'
  <1>1. PICK p \in Packages, rec \in KnowledgePackage :
          p = job[w].pkg /\ rec = job[w].rec
    BY JobType DEF IInv, Flush
  <1>2. /\ phase[w] = "opened" /\ phase'[w] = "idle"
        /\ \A v \in Workers : v # w => phase'[v] = phase[v] /\ job'[v] = job[v]
        /\ \A v \in Workers : answer'[v] = "200" \/ answer'[v] = answer[v]
        /\ files'[p] = Written(files[p], rec)
        /\ \A q \in Packages : q # p => files'[q] = files[q]
    BY <1>1 DEF IInv, TypeOK, Flush
  <1>3. files[p] \in [text : KnowledgePackage \cup NotAText, extent : Nat]
    BY DEF IInv, TypeOK
  <1>4. Parses(files'[p]) => files'[p].text = rec
    BY <1>2, <1>3, WrittenType
  <1>5. ASSUME NEW q \in Packages, Parses(files'[q]) PROVE Attributed(files'[q].text)
    <2>1. CASE q = p
      BY <1>1, <1>2, <1>4, <1>5, <2>1 DEF AttributedInv
    <2>2. CASE q # p
      BY <1>2, <1>5, <2>2 DEF AttributedInv
    <2> QED
      BY <2>1, <2>2
  <1>6. ASSUME NEW v \in Workers, phase'[v] # "idle" PROVE Attributed(job'[v].rec)
    BY <1>2, <1>6 DEF AttributedInv
  <1>7. \A v \in Workers : answer'[v] # "alarm"
    BY <1>2 DEF AttributedInv
  <1> QED
    BY <1>5, <1>6, <1>7 DEF AttributedInv, Parses, Attributed

\* Steps that change no file, and jobs only by ending them.
LEMMA QuietAttributed ==
  ASSUME AttributedInv, files' = files,
         \A v \in Workers : phase'[v] # "idle" => phase[v] # "idle" /\ job'[v] = job[v],
         \A v \in Workers : answer'[v] # "alarm"
  PROVE  AttributedInv'
  BY DEF AttributedInv, Parses, Attributed

\* An answer raises no alarm.
LEMMA AnswerAttributed ==
  ASSUME AttributedInv, NEW w \in Workers, NEW status, status # "alarm",
         AnswerNow(w, status)
  PROVE  AttributedInv'
  <1>1. \A v \in Workers : answer'[v] # "alarm"
    BY DEF AnswerNow, AttributedInv
  <1> QED
    BY <1>1, QuietAttributed DEF AnswerNow, storeVars

LEMMA OpenAttributed ==
  ASSUME IInv, AttributedInv, NEW w \in Workers, Open(w)
  PROVE  AttributedInv'
  <1>1. /\ job[w].pkg \in Packages /\ job' = job /\ answer' = answer
        /\ files'[job[w].pkg] = Truncated
        /\ \A q \in Packages : q # job[w].pkg => files'[q] = files[q]
        /\ \A v \in Workers : phase'[v] # "idle" => phase[v] # "idle"
    BY JobType DEF IInv, TypeOK, Open
  <1>2. ~Parses(Truncated)
    BY ArtifactStoreAssumption DEF Truncated, Parses, NotAText
  <1>3. ASSUME NEW q \in Packages, Parses(files'[q]) PROVE Attributed(files'[q].text)
    BY <1>1, <1>2, <1>3 DEF AttributedInv
  <1> QED
    BY <1>1, <1>3 DEF AttributedInv, Parses, Attributed

LEMMA AuditAttributed ==
  ASSUME IInv, AttributedInv, NEW w \in Workers
  PROVE  /\ \A p \in Packages : AuditBegin(w, p) => AttributedInv'
         /\ AuditEnd(w) => AttributedInv'
  <1>1. ASSUME NEW p \in Packages, AuditBegin(w, p) PROVE AttributedInv'
    <2>1. Attributed(files[p].text) /\ files' = files /\ answer' = answer
      BY <1>1 DEF AuditBegin, AttributedInv, storeVars
    <2>2. /\ job'[w].rec = files[p].text
          /\ \A v \in Workers : v # w => phase'[v] = phase[v] /\ job'[v] = job[v]
      BY <1>1 DEF AuditBegin, IInv, TypeOK
    <2>3. ASSUME NEW v \in Workers, phase'[v] # "idle" PROVE Attributed(job'[v].rec)
      BY <2>1, <2>2, <2>3 DEF AttributedInv
    <2> QED
      BY <2>1, <2>3 DEF AttributedInv, Parses, Attributed
  <1>2. ASSUME AuditEnd(w) PROVE AttributedInv'
    <2> DEFINE file == files[job[w].pkg]
               rec == job[w].rec
    <2>1. job[w].pkg \in Packages /\ phase[w] # "idle"
      BY <1>2, JobType DEF AuditEnd, IInv
    <2>2. Sound(rec) /\ Attributed(rec)
      BY <2>1 DEF IInv, GoodRecord, AttributedInv
    <2>3. Parses(file) => Sound(file.text)
      BY <2>1 DEF IInv, GoodRecord
    <2>4. Parses(file) => AuditComplete(rec) /\ ReplayConsistent(file.text)
      BY <2>2, <2>3 DEF Sound, AuditComplete
    <2> HIDE DEF file, rec
    <2>5. answer' = [answer EXCEPT ![w] =
            IF ~Parses(file) THEN "500"
            ELSE IF AuditComplete(rec) /\ ReplayConsistent(file.text) THEN "200"
            ELSE "alarm"]
      BY <1>2 DEF AuditEnd, file, rec
    <2>6. \A v \in Workers : answer'[v] # "alarm"
      BY <2>4, <2>5 DEF AttributedInv
    <2> QED
      BY <1>2, <2>6, QuietAttributed DEF AuditEnd, storeVars, IInv, TypeOK
  <1> QED
    BY <1>1, <1>2

LEMMA NextAttributed ==
  ASSUME FALSE \notin Attributions
  PROVE  IInv /\ AttributedInv /\ [Next]_vars => AttributedInv'
  <1> SUFFICES ASSUME IInv, AttributedInv, [Next]_vars PROVE AttributedInv'
    OBVIOUS
  <1>1. ASSUME NEW w \in Workers, NEW p \in Packages, RegisterBegin(w, p)
        PROVE  AttributedInv'
    <2>1. PICK attributed \in Attributions, len \in TextLens :
            Begin(w, p, Absent, Registered(nextTxn, attributed, len))
      BY <1>1 DEF RegisterBegin
    <2>2. attributed
      BY AttributionsAssumption
    <2>3. Attributed(Registered(nextTxn, attributed, len))
      BY <2>2 DEF Attributed, Registered, Transition
    <2> QED
      BY <2>1, <2>3, BeginAttributed
  <1>2. ASSUME NEW w \in Workers, NEW p \in Packages, NEW to \in PackageStatus,
               PromoteBegin(w, p, to)
        PROVE  AttributedInv'
    <2>1. PICK attributed \in Attributions, len \in TextLens :
            Begin(w, p, files[p].text,
                  Promoted(files[p].text, nextTxn, to, attributed, len))
      BY <1>2 DEF PromoteBegin
    <2>2. attributed = TRUE
      BY AttributionsAssumption
    <2>3. files[p].text \in KnowledgePackage /\ Attributed(files[p].text)
      BY <1>2, ParsedType DEF IInv, PromoteBegin, AttributedInv
    <2>4. Attributed(Promoted(files[p].text, nextTxn, to, attributed, len))
      BY <2>2, <2>3, PromotedAttributed
    <2> QED
      BY <2>1, <2>4, BeginAttributed
  <1>3. ASSUME NEW w \in Workers, NEW p \in Packages, Read(w, p) PROVE AttributedInv'
    <2>1. ReplayConsistent(files[p].text)
      BY <1>3 DEF Read, IInv, GoodRecord, Sound
    <2> QED
      BY <1>3, <2>1, AnswerAttributed DEF Read
  <1>4. ASSUME NEW w \in Workers, Request(w) PROVE AttributedInv'
    BY <1>1, <1>2, <1>3, <1>4, AnswerAttributed, AuditAttributed
    DEF Request, PromoteRefused, NotFound, Unreadable
  <1>5. ASSUME NEW w \in Workers, Step(w) PROVE AttributedInv'
    BY <1>5, OpenAttributed, FlushAttributed, AuditAttributed DEF Step
  <1>6. CASE Crash
    BY <1>6, QuietAttributed DEF Crash
  <1>7. CASE UNCHANGED vars
    BY <1>7 DEF vars, storeVars, handlerVars, AttributedInv, Parses, Attributed
  <1> QED
    BY <1>4, <1>5, <1>6, <1>7 DEF Next

\* Where every request names its actor and reason, no replay and no audit
\* reports trouble, although an audit reads its record twice.
THEOREM NoFalseAlarm ==
  ASSUME FALSE \notin Attributions
  PROVE  Spec => []AuditNeverAlarms
  <1>1. Init => AttributedInv
    BY DEF Init, AttributedInv, NoFile, Parses, NotAText
  <1>2. IInv /\ AttributedInv /\ [Next]_vars => AttributedInv'
    BY NextAttributed
  <1>3. Spec => []AttributedInv
    BY <1>1, <1>2, InvariantHolds, PTL DEF Spec
  <1>4. AttributedInv => AuditNeverAlarms
    BY DEF AttributedInv, AuditNeverAlarms
  <1> QED
    BY <1>3, <1>4, PTL

-----------------------------------------------------------------------------
(* Damage without a race.  Liveness rests on this: who has truncated a file *)
(* is still there to write it.                                              *)

\* Unless mutations of it overlapped or a crash cut one short, a record that
\* does not parse is being saved.
UnreadableIsBeingSaved ==
  \A p \in Packages \ disturbed :
    Exists(files[p]) /\ ~Parses(files[p]) =>
      \E w \in Workers : phase[w] = "opened" /\ job[w].pkg = p

\* Steps that change no file and end no save.
LEMMA QuietSaved ==
  ASSUME UnreadableIsBeingSaved, files' = files, disturbed \subseteq disturbed',
         \A v \in Workers : phase[v] = "opened" =>
           \/ phase'[v] = "opened" /\ job'[v].pkg = job[v].pkg
           \/ job[v].pkg \in disturbed'
  PROVE  UnreadableIsBeingSaved'
  BY DEF UnreadableIsBeingSaved

LEMMA BeginSaved ==
  ASSUME IInv, UnreadableIsBeingSaved, NEW w \in Workers, NEW p \in Packages, NEW base, NEW rec,
         phase[w] = "idle", Begin(w, p, base, rec)
  PROVE  UnreadableIsBeingSaved'
  <1>1. ASSUME NEW v \in Workers, phase[v] = "opened"
        PROVE  phase'[v] = "opened" /\ job'[v].pkg = job[v].pkg
    <2>1. v # w /\ phase'[v] = phase[v] /\ job[v] \in Job
      BY <1>1, JobType DEF Begin, IInv, TypeOK
    <2>2. job'[v] = job[v] \/ job'[v] = [job[v] EXCEPT !.solo = FALSE]
      BY <2>1 DEF Begin
    <2> QED
      BY <1>1, <2>1, <2>2 DEF Job
  <1> QED
    BY <1>1, QuietSaved DEF Begin

LEMMA OpenSaved ==
  ASSUME IInv, UnreadableIsBeingSaved, NEW w \in Workers, Open(w)
  PROVE  UnreadableIsBeingSaved'
  <1>1. /\ job' = job /\ disturbed' = disturbed /\ job[w].pkg \in Packages
        /\ files' = [files EXCEPT ![job[w].pkg] = Truncated]
        /\ phase'[w] = "opened"
        /\ \A v \in Workers : phase[v] = "opened" => phase'[v] = "opened"
    BY JobType DEF Open, ghostVars, IInv, TypeOK
  <1>2. ASSUME NEW p \in Packages \ disturbed', Exists(files'[p]), ~Parses(files'[p])
        PROVE  \E v \in Workers : phase'[v] = "opened" /\ job'[v].pkg = p
    <2>1. CASE p = job[w].pkg
      BY <1>1, <2>1
    <2>2. CASE p # job[w].pkg
      <3>1. files'[p] = files[p]
        BY <1>1, <2>2 DEF IInv, TypeOK
      <3> QED
        BY <1>1, <1>2, <3>1 DEF UnreadableIsBeingSaved
    <2> QED
      BY <2>1, <2>2
  <1> QED
    BY <1>2 DEF UnreadableIsBeingSaved

\* Who saves an undisturbed package is alone, and finds the file as he cut it.
LEMMA FlushSaved ==
  ASSUME IInv, RefInv, UnreadableIsBeingSaved, NEW w \in Workers, Flush(w)
  PROVE  UnreadableIsBeingSaved'
  <1> DEFINE q == job[w].pkg
             rec == job[w].rec
  <1>1. /\ phase[w] = "opened" /\ Mutating(w) /\ q \in Packages /\ rec \in KnowledgePackage
        /\ disturbed' = disturbed /\ files' = [files EXCEPT ![q] = Written(files[q], rec)]
        /\ \A v \in Workers : v # w => phase'[v] = phase[v] /\ job'[v] = job[v]
    BY JobType DEF Flush, Mutating, IInv, TypeOK
  <1>2. ASSUME NEW p \in Packages \ disturbed', Exists(files'[p]), ~Parses(files'[p])
        PROVE  \E v \in Workers : phase'[v] = "opened" /\ job'[v].pkg = p
    <2>1. CASE p = q
      <3>1. files[q] = Truncated
        BY <1>1, <1>2, <2>1 DEF RefInv
      <3>2. rec.size \in Nat
        BY <1>1 DEF KnowledgePackage
      <3>3. Written(files[q], rec) = [text |-> rec, extent |-> rec.size]
        BY <3>1, <3>2 DEF Written, Truncated
      <3>4. files'[p].text = rec
        BY <1>1, <2>1, <3>3 DEF IInv, TypeOK
      <3> QED
        BY <1>1, <1>2, <3>4, SentinelAssumption DEF Parses
    <2>2. CASE p # q
      <3>1. files'[p] = files[p]
        BY <1>1, <2>2 DEF IInv, TypeOK
      <3>2. PICK v \in Workers : phase[v] = "opened" /\ job[v].pkg = p
        BY <1>1, <1>2, <3>1 DEF UnreadableIsBeingSaved
      <3> QED
        BY <1>1, <2>2, <3>2
    <2> QED
      BY <2>1, <2>2
  <1> QED
    BY <1>2 DEF UnreadableIsBeingSaved

LEMMA NextSaved ==
  IInv /\ RefInv /\ UnreadableIsBeingSaved /\ [Next]_vars => UnreadableIsBeingSaved'
  <1> SUFFICES ASSUME IInv, RefInv, UnreadableIsBeingSaved, [Next]_vars
               PROVE  UnreadableIsBeingSaved'
    OBVIOUS
  <1>1. ASSUME NEW w \in Workers, NEW status, AnswerNow(w, status)
        PROVE  UnreadableIsBeingSaved'
    BY <1>1, QuietSaved DEF AnswerNow, storeVars, ghostVars
  <1>2. ASSUME NEW w \in Workers, NEW p \in Packages, AuditBegin(w, p)
        PROVE  UnreadableIsBeingSaved'
    BY <1>2, QuietSaved DEF AuditBegin, Receives, storeVars, ghostVars, IInv, TypeOK
  <1>3. ASSUME NEW w \in Workers, AuditEnd(w) PROVE UnreadableIsBeingSaved'
    BY <1>3, QuietSaved DEF AuditEnd, storeVars, ghostVars, IInv, TypeOK
  <1>4. ASSUME NEW w \in Workers, NEW p \in Packages, RegisterBegin(w, p)
        PROVE  UnreadableIsBeingSaved'
    BY <1>4, BeginSaved DEF RegisterBegin
  <1>5. ASSUME NEW w \in Workers, NEW p \in Packages, NEW to \in PackageStatus,
               PromoteBegin(w, p, to)
        PROVE  UnreadableIsBeingSaved'
    BY <1>5, BeginSaved DEF PromoteBegin, Receives
  <1>6. ASSUME NEW w \in Workers, Request(w) PROVE UnreadableIsBeingSaved'
    BY <1>1, <1>2, <1>4, <1>5, <1>6
    DEF Request, PromoteRefused, NotFound, Unreadable, Read
  <1>7. ASSUME NEW w \in Workers, Step(w) PROVE UnreadableIsBeingSaved'
    BY <1>3, <1>7, OpenSaved, FlushSaved DEF Step
  <1>8. CASE Crash
    BY <1>8, QuietSaved DEF Crash
  <1>9. CASE UNCHANGED vars
    BY <1>9, QuietSaved DEF vars, storeVars, handlerVars, ghostVars
  <1> QED
    BY <1>6, <1>7, <1>8, <1>9 DEF Next

\* What save() truncates it writes: without an overlap or a crash, a package is
\* unreadable only while the handler that will make it readable is between
\* open() and close().  Nothing else has to happen for it to pass.
THEOREM UnreadableIsSaved == Spec => []UnreadableIsBeingSaved
  <1>1. Init => RefInv
    BY DEF Init, RefInv, Mutating
  <1>2. Init => UnreadableIsBeingSaved
    BY DEF Init, UnreadableIsBeingSaved, NoFile, Exists
  <1>3. Spec => []RefInv
    BY <1>1, InvariantHolds, NextRef, PTL DEF Spec
  <1> QED
    BY <1>2, <1>3, InvariantHolds, NextSaved, PTL DEF Spec
-----------------------------------------------------------------------------
(* Archived packages                                                        *)

\* A consistent history that passes through ARCHIVED ends there.
LEMMA NothingAfterArchived ==
  ASSUME NEW pkg \in KnowledgePackage, ReplayConsistent(pkg),
         NEW t \in Recorded(pkg), t.to = "ARCHIVED"
  PROVE  pkg.status = "ARCHIVED"
  <1> DEFINE h == pkg.history
             n == Len(h)
  <1>1. PICK i \in 1..n : t = h[i]
    BY DEF Recorded
  <1>2. n \in Nat
    BY DEF KnowledgePackage
  <1>3. /\ \A j \in 2..n : h[j].to \in PACKAGE_LIFECYCLE_GRAPH[h[j - 1].to]
        /\ h[n].to = pkg.status
    BY DEF ReplayConsistent
  <1> HIDE DEF h, n
  <1>4. PACKAGE_LIFECYCLE_GRAPH["ARCHIVED"] = {}
    BY DEF PACKAGE_LIFECYCLE_GRAPH
  <1>5. i = n
    <2> SUFFICES ASSUME i # n PROVE FALSE
      OBVIOUS
    <2>1. i + 1 \in 2..n /\ (i + 1) - 1 = i
      BY <1>2
    <2>2. h[i + 1].to \in PACKAGE_LIFECYCLE_GRAPH[h[(i + 1) - 1].to]
      BY <1>3, <2>1
    <2>3. h[i + 1].to \in PACKAGE_LIFECYCLE_GRAPH["ARCHIVED"]
      BY <1>1, <2>1, <2>2
    <2> QED
      BY <1>4, <2>3
  <1> QED
    BY <1>1, <1>3, <1>5

\* A package without overlapping mutations or interrupted saves that was once
\* promoted to ARCHIVED, and the caller told so, reads ARCHIVED for ever: what
\* ArchivedIsTerminal says of every package, and only disturbed ones break.
THEOREM ArchivedIsFinal ==
  Spec => [](\A p \in Packages \ disturbed :
               Parses(files[p]) /\ (\E t \in acked[p] : t.to = "ARCHIVED") =>
                 files[p].text.status = "ARCHIVED")
  <1> DEFINE Final ==
        \A p \in Packages \ disturbed :
          Parses(files[p]) /\ (\E t \in acked[p] : t.to = "ARCHIVED") =>
            files[p].text.status = "ARCHIVED"
  <1>1. ASSUME IInv, RefInv, ExactInv PROVE Final
    <2> SUFFICES ASSUME NEW p \in Packages, p \notin disturbed, Parses(files[p]),
                        NEW t \in acked[p], t.to = "ARCHIVED"
                 PROVE  files[p].text.status = "ARCHIVED"
      OBVIOUS
    <2>1. Quiet(p)
      <3> SUFFICES ASSUME NEW w \in Workers, phase[w] = "opened", job[w].pkg = p
                   PROVE  FALSE
        BY DEF Quiet
      <3>1. files[p] = Truncated
        BY <1>1 DEF RefInv, Mutating
      <3> QED
        BY <3>1 DEF Truncated, Parses, NotAText
    <2>2. Recorded(files[p].text) = acked[p]
      BY <1>1, <2>1 DEF ExactInv, Exists, Parses, NotAText
    <2>3. files[p].text \in KnowledgePackage /\ ReplayConsistent(files[p].text)
      BY <1>1, ParsedType DEF IInv, GoodRecord, Sound
    <2> QED
      BY <2>2, <2>3, NothingAfterArchived
  <1>2. Init => RefInv
    BY DEF Init, RefInv, Mutating
  <1>3. Init => ExactInv
    BY DEF Init, ExactInv, Mutating, NoFile, Exists
  <1>4. Spec => []RefInv
    BY <1>2, InvariantHolds, NextRef, PTL DEF Spec
  <1>5. Spec => []ExactInv
    BY <1>3, <1>4, InvariantHolds, NextExact, PTL DEF Spec
  <1>6. IInv /\ RefInv /\ ExactInv => Final
    BY <1>1
  <1> HIDE DEF Final
  <1>7. Spec => []Final
    BY <1>4, <1>5, <1>6, InvariantHolds, PTL
  <1> QED
    BY <1>7 DEF Final
=============================================================================
