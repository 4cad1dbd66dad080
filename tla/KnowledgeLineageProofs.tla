----------------------- MODULE KnowledgeLineageProofs -----------------------
(***************************************************************************)
(* Theorems about KnowledgeLineage, for any number of workers, packages,    *)
(* objects and crashes.                                                     *)
(***************************************************************************)
EXTENDS KnowledgeLineage, TLAPS

-----------------------------------------------------------------------------
(* What a registration has to save                                          *)

\* The records of a list of saves.
Recs(s) == {s[i].rec : i \in DOMAIN s}

\* Objects are saved in the order of their ids, each first under its id and
\* then, for the last time, under its package.
Ordered(s) ==
  /\ \A i \in DOMAIN s : s[i].key \in {s[i].rec.id, s[i].rec.pkg}
  /\ \A i, j \in DOMAIN s : i < j =>
       /\ s[i].rec.id <= s[j].rec.id
       /\ s[i].key \in Packages => s[i].rec.id < s[j].rec.id
  /\ \A i \in DOMAIN s : s[i].key \notin Packages =>
       /\ i + 1 \in DOMAIN s
       /\ s[i + 1] = [key |-> s[i].rec.pkg, rec |-> s[i].rec]

\* A package's key is followed by another object's own id.
Paired(s) ==
  \A i \in DOMAIN s :
    s[i].key \in Packages /\ i + 1 \in DOMAIN s => s[i + 1].key \notin Packages

LEMMA KeyFact ==
  /\ ObjectIds \subseteq Nat \ {0} /\ \A p \in Packages : p \notin ObjectIds
  /\ NoParent \notin Packages
  BY PackagesAssumption, BoundsAssumption DEF ObjectIds

\* The packages of a list of saves are those of its records.
LEMMA TargetsFact ==
  ASSUME NEW s
  PROVE  Targets(s) = {r.pkg : r \in Recs(s)}
  BY DEF Targets, Recs

\* One object's two saves.
LEMMA SavesOfFact ==
  ASSUME NEW object \in KnowledgeObject
  PROVE  /\ SavesOf(object) \in Seq(Save)
         /\ Len(SavesOf(object)) = 2
         /\ SavesOf(object)[1] = [key |-> object.id, rec |-> object]
         /\ SavesOf(object)[2] = [key |-> object.pkg, rec |-> object]
  <1>1. object.id \in Keys /\ object.pkg \in Keys
    BY DEF KnowledgeObject, Keys
  <1>2. [key |-> object.id, rec |-> object] \in Save /\ [key |-> object.pkg, rec |-> object] \in Save
    BY <1>1 DEF Save
  <1> QED
    BY <1>2 DEF SavesOf

LEMMA WithChildFact ==
  ASSUME NEW object \in KnowledgeObject, NEW p \in Packages
  PROVE  /\ WithChild(object, p) \in KnowledgeObject
         /\ WithChild(object, p).id = object.id
         /\ WithChild(object, p).pkg = object.pkg
         /\ WithChild(object, p).parent = object.parent
         /\ WithChild(object, p).children = object.children \cup {p}
  <1>1. /\ object.id \in ObjectIds /\ object.pkg \in Packages
        /\ object.parent \in Packages \cup {NoParent}
        /\ object.children \in SUBSET Packages /\ object.size \in Nat
    BY DEF KnowledgeObject
  <1>2. object.children \cup {p} \in SUBSET Packages /\ object.size + 1 \in Nat
    BY <1>1
  <1> DEFINE larger == [object EXCEPT !.children = @ \cup {p}]
  <1>3. /\ larger \in KnowledgeObject /\ larger.children = object.children \cup {p}
        /\ larger.id = object.id /\ larger.pkg = object.pkg /\ larger.parent = object.parent
        /\ larger.size = object.size
    BY <1>2 DEF KnowledgeObject
  <1>4. WithChild(object, p) = [larger EXCEPT !.size = @ + 1]
    BY <1>3 DEF WithChild
  <1> HIDE DEF larger
  <1> QED
    BY <1>2, <1>3, <1>4 DEF KnowledgeObject

\* The parent's object, if it has to learn of the child, and then the child's.
Adopts(parent, own) == parent # Absent /\ own.pkg \notin parent.children

LEMMA AllSavesFact ==
  ASSUME NEW own \in KnowledgeObject, NEW parent \in KnowledgeObject \cup {Absent},
         parent # Absent => parent.id < own.id
  PROVE  LET s == AllSaves(parent, own) IN
         /\ s \in Seq(Save) \ {<<>>}
         /\ Ordered(s) /\ Paired(s)
         /\ s[1].key \in ObjectIds
         /\ Recs(s) = {own} \cup (IF Adopts(parent, own) THEN {WithChild(parent, own.pkg)} ELSE {})
  <1> DEFINE s == AllSaves(parent, own)
             new == {own} \cup (IF Adopts(parent, own) THEN {WithChild(parent, own.pkg)} ELSE {})
  <1> SUFFICES s \in Seq(Save) \ {<<>>} /\ Ordered(s) /\ Paired(s) /\ s[1].key \in ObjectIds /\ Recs(s) = new
    OBVIOUS
  <1>1. own.id \in ObjectIds /\ own.id \in Nat /\ own.id \notin Packages /\ own.pkg \in Packages
    BY KeyFact DEF KnowledgeObject
  <1>2. CASE ~Adopts(parent, own)
    <2>1. s = <<>> \o SavesOf(own)
      BY <1>2 DEF AllSaves, Adopts
    <2>2. SavesOf(own) \in Seq(Save) /\ Len(SavesOf(own)) = 2
      BY SavesOfFact
    <2>3. s \in Seq(Save) /\ Len(s) = 2 /\ s[1] = SavesOf(own)[1] /\ s[2] = SavesOf(own)[2]
      BY <2>2, <2>1
    <2>4. s[1] = [key |-> own.id, rec |-> own] /\ s[2] = [key |-> own.pkg, rec |-> own]
      BY <2>3, SavesOfFact
    <2>5. DOMAIN s = {1, 2}
      BY <2>3
    <2> HIDE DEF s
    <2>6. Ordered(s)
      <3>1. \A i \in DOMAIN s : s[i].key \in {s[i].rec.id, s[i].rec.pkg}
        BY <2>4, <2>5
      <3>2. ASSUME NEW i \in DOMAIN s, NEW j \in DOMAIN s, i < j
            PROVE  s[i].rec.id <= s[j].rec.id /\ s[i].key \notin Packages
        <4>1. i = 1 /\ j = 2
          BY <2>5, <3>2
        <4>2. s[i].rec.id = own.id /\ s[j].rec.id = own.id /\ s[i].key = own.id
          BY <2>4, <4>1
        <4> QED
          BY <1>1, <4>2
      <3>3. ASSUME NEW i \in DOMAIN s, s[i].key \notin Packages
            PROVE  i + 1 \in DOMAIN s /\ s[i + 1] = [key |-> s[i].rec.pkg, rec |-> s[i].rec]
        <4>1. i = 1
          BY <1>1, <2>4, <2>5, <3>3
        <4> QED
          BY <2>4, <2>5, <4>1
      <3> QED
        BY <3>1, <3>2, <3>3 DEF Ordered
    <2>7. Recs(s) = {own}
      BY <2>4, <2>5 DEF Recs
    <2>8. s # <<>>
      <3>1. Len(s) = 2
        BY <2>3
      <3> QED
        BY <3>1
    <2>9. s[1].key = own.id
      BY <2>4
    <2>10. Paired(s)
      BY <1>1, <2>5, <2>9 DEF Paired
    <2> QED
      BY <1>1, <1>2, <2>3, <2>6, <2>7, <2>8, <2>9, <2>10
  <1>3. CASE Adopts(parent, own)
    <2> DEFINE par == WithChild(parent, own.pkg)
    <2>1. parent \in KnowledgeObject /\ par \in KnowledgeObject /\ par.id = parent.id
          /\ par.id \in ObjectIds /\ par.pkg \in Packages
      BY <1>1, <1>3, WithChildFact DEF Adopts, KnowledgeObject
    <2>2. s = SavesOf(par) \o SavesOf(own)
      BY <1>3 DEF AllSaves, Adopts
    <2>3. /\ SavesOf(par) \in Seq(Save) /\ Len(SavesOf(par)) = 2
          /\ SavesOf(own) \in Seq(Save) /\ Len(SavesOf(own)) = 2
      BY <2>1, SavesOfFact
    <2>4. s \in Seq(Save) /\ Len(s) = 4
          /\ s[1] = SavesOf(par)[1] /\ s[2] = SavesOf(par)[2]
          /\ s[3] = SavesOf(own)[1] /\ s[4] = SavesOf(own)[2]
      BY <2>2, <2>3
    <2>5. /\ s[1] = [key |-> par.id, rec |-> par] /\ s[2] = [key |-> par.pkg, rec |-> par]
          /\ s[3] = [key |-> own.id, rec |-> own] /\ s[4] = [key |-> own.pkg, rec |-> own]
      BY <2>1, <2>4, SavesOfFact
    <2>6. DOMAIN s = {1, 2, 3, 4}
      BY <2>4
    <2>7. par.id < own.id
      BY <1>3, <2>1 DEF Adopts
    <2> HIDE DEF s, par
    <2>8. Ordered(s)
      <3>1. \A i \in DOMAIN s : s[i].key \in {s[i].rec.id, s[i].rec.pkg}
        BY <2>5, <2>6
      <3>2. ASSUME NEW i \in DOMAIN s, NEW j \in DOMAIN s, i < j
            PROVE  /\ s[i].rec.id <= s[j].rec.id
                   /\ s[i].key \in Packages => s[i].rec.id < s[j].rec.id
        <4>1. i \in {1, 2} \/ (i = 3 /\ j = 4)
          BY <2>6, <3>2
        <4>2. own.id \in Nat /\ par.id \in Nat
          BY <1>1, <2>1, KeyFact
        <4>3. CASE i = 1
          <5>1. s[i].rec.id = par.id /\ s[i].key \notin Packages
            BY <2>1, <2>5, <4>3, KeyFact
          <5>2. s[j].rec.id \in {par.id, own.id}
            BY <2>5, <2>6
          <5> QED
            BY <2>7, <4>2, <5>1, <5>2
        <4>4. CASE i = 2
          <5>1. s[i].rec.id = par.id
            BY <2>5, <4>4
          <5>2. j \in {3, 4}
            BY <2>6, <3>2, <4>4
          <5>3. s[j].rec.id = own.id
            BY <2>5, <5>2
          <5> QED
            BY <2>7, <4>2, <5>1, <5>3
        <4>5. CASE i = 3 /\ j = 4
          <5>1. s[i].rec.id = own.id /\ s[j].rec.id = own.id /\ s[i].key = own.id
            BY <2>5, <4>5
          <5> QED
            BY <1>1, <4>2, <5>1, KeyFact
        <4> QED
          BY <4>1, <4>3, <4>4, <4>5
      <3>3. ASSUME NEW i \in DOMAIN s, s[i].key \notin Packages
            PROVE  i + 1 \in DOMAIN s /\ s[i + 1] = [key |-> s[i].rec.pkg, rec |-> s[i].rec]
        <4>1. i \in {1, 3}
          BY <1>1, <2>1, <2>5, <2>6, <3>3
        <4> QED
          BY <2>5, <2>6, <4>1
      <3> QED
        BY <3>1, <3>2, <3>3 DEF Ordered
    <2>9. Recs(s) = {own, par}
      BY <2>5, <2>6 DEF Recs
    <2>10. s # <<>>
      BY <2>4
    <2>11. s[1].key = par.id
      BY <2>5
    <2>12. Paired(s)
      <3>1. s[1].key \notin Packages /\ s[3].key \notin Packages
        BY <1>1, <2>1, <2>5, KeyFact
      <3>2. ASSUME NEW i \in DOMAIN s, s[i].key \in Packages, i + 1 \in DOMAIN s
            PROVE  s[i + 1].key \notin Packages
        <4>1. i = 2
          BY <2>6, <3>1, <3>2
        <4> QED
          BY <3>1, <4>1
      <3> QED
        BY <3>2 DEF Paired
    <2> QED
      BY <1>3, <2>1, <2>4, <2>8, <2>9, <2>10, <2>11, <2>12 DEF par
  <1> QED
    BY <1>2, <1>3

\* What is left after the first save.
LEMMA TailFact ==
  ASSUME NEW s \in Seq(Save) \ {<<>>}, Ordered(s)
  PROVE  /\ Head(s) = s[1] /\ s[1] \in Save /\ s[1].rec \in Recs(s) /\ s[1].rec \in KnowledgeObject
         /\ Tail(s) \in Seq(Save)
         /\ Ordered(Tail(s))
         /\ Recs(s) = {s[1].rec} \cup Recs(Tail(s))
         /\ \A r \in Recs(s) : r \in KnowledgeObject /\ s[1].rec.id <= r.id
         /\ s[1].key \in Packages => \A r \in Recs(Tail(s)) : s[1].rec.id < r.id
         /\ s[1].key \notin Packages =>
              Tail(s) # <<>> /\ Tail(s)[1] = [key |-> s[1].rec.pkg, rec |-> s[1].rec]
  <1> DEFINE n == Len(s)
             t == Tail(s)
  <1>1. n \in Nat \ {0} /\ DOMAIN s = 1..n /\ 1 \in DOMAIN s
    OBVIOUS
  <1>2. Head(s) = s[1] /\ \A i \in DOMAIN s : s[i] \in Save
    BY <1>1
  <1>3. t \in Seq(Save) /\ Len(t) = n - 1 /\ DOMAIN t = 1..(n - 1)
        /\ \A i \in 1..(n - 1) : t[i] = s[i + 1]
    BY <1>1
  <1>4. \A i \in DOMAIN s : s[i].rec \in KnowledgeObject /\ s[i].rec.id \in Nat
    BY <1>2, KeyFact DEF Save, KnowledgeObject
  <1> HIDE DEF t, n
  <1>5. Ordered(t)
    <2>1. \A i \in DOMAIN t : t[i].key \in {t[i].rec.id, t[i].rec.pkg}
      BY <1>1, <1>3 DEF Ordered
    <2>2. ASSUME NEW i \in DOMAIN t, NEW j \in DOMAIN t, i < j
          PROVE  /\ t[i].rec.id <= t[j].rec.id
                 /\ t[i].key \in Packages => t[i].rec.id < t[j].rec.id
      <3>1. /\ i + 1 \in DOMAIN s /\ j + 1 \in DOMAIN s /\ i + 1 < j + 1
            /\ t[i] = s[i + 1] /\ t[j] = s[j + 1]
        BY <1>1, <1>3, <2>2
      <3> QED
        BY <3>1 DEF Ordered
    <2>3. ASSUME NEW i \in DOMAIN t, t[i].key \notin Packages
          PROVE  i + 1 \in DOMAIN t /\ t[i + 1] = [key |-> t[i].rec.pkg, rec |-> t[i].rec]
      <3>1. i + 1 \in DOMAIN s /\ t[i] = s[i + 1] /\ i \in Nat
        BY <1>1, <1>3
      <3>2. (i + 1) + 1 \in DOMAIN s
            /\ s[(i + 1) + 1] = [key |-> s[i + 1].rec.pkg, rec |-> s[i + 1].rec]
        BY <2>3, <3>1 DEF Ordered
      <3>3. i + 1 \in 1..(n - 1)
        BY <1>1, <3>1, <3>2
      <3> QED
        BY <1>3, <3>1, <3>2, <3>3
    <2> QED
      BY <2>1, <2>2, <2>3 DEF Ordered
  <1>6. Recs(s) = {s[1].rec} \cup Recs(t)
    <2>1. ASSUME NEW r \in Recs(s) PROVE r \in {s[1].rec} \cup Recs(t)
      <3>1. PICK i \in DOMAIN s : r = s[i].rec
        BY DEF Recs
      <3>2. i = 1 \/ (i - 1 \in DOMAIN t /\ t[i - 1] = s[i])
        BY <1>1, <1>3
      <3> QED
        BY <3>1, <3>2 DEF Recs
    <2>2. ASSUME NEW r \in Recs(t) PROVE r \in Recs(s)
      <3>1. PICK i \in DOMAIN t : r = t[i].rec
        BY DEF Recs
      <3>2. i + 1 \in DOMAIN s /\ t[i] = s[i + 1]
        BY <1>1, <1>3
      <3> QED
        BY <3>1, <3>2 DEF Recs
    <2> QED
      BY <1>1, <2>1, <2>2 DEF Recs
  <1>7. ASSUME NEW r \in Recs(s) PROVE r \in KnowledgeObject /\ s[1].rec.id <= r.id
    <2>1. PICK i \in DOMAIN s : r = s[i].rec
      BY DEF Recs
    <2>2. i = 1 \/ 1 < i
      BY <1>1
    <2>3. 1 < i => s[1].rec.id <= s[i].rec.id
      BY <1>1 DEF Ordered
    <2> QED
      BY <1>1, <1>4, <2>1, <2>2, <2>3
  <1>8. ASSUME s[1].key \in Packages, NEW r \in Recs(t) PROVE s[1].rec.id < r.id
    <2>1. PICK i \in DOMAIN t : r = t[i].rec
      BY <1>8 DEF Recs
    <2>2. i + 1 \in DOMAIN s /\ 1 < i + 1 /\ r = s[i + 1].rec
      BY <1>1, <1>3, <2>1
    <2> QED
      BY <1>1, <1>8, <2>2 DEF Ordered
  <1>9. ASSUME s[1].key \notin Packages
        PROVE  t # <<>> /\ t[1] = [key |-> s[1].rec.pkg, rec |-> s[1].rec]
    <2>1. 1 + 1 \in DOMAIN s /\ s[1 + 1] = [key |-> s[1].rec.pkg, rec |-> s[1].rec]
      BY <1>1, <1>9 DEF Ordered
    <2> QED
      BY <1>1, <1>3, <2>1
  <1> QED
    BY <1>1, <1>2, <1>3, <1>4, <1>5, <1>6, <1>7, <1>8, <1>9 DEF t, Recs

-----------------------------------------------------------------------------
(* The inductive invariant                                                  *)

\* The objects that are stored under their packages, and those about to be.
Stored == {files[p].text : p \in {q \in Packages : Parses(files[q])}}
Pending == UNION {Recs(job[w].saves) : w \in {v \in Workers : Saving(v)}}
Held == Stored \cup Pending

\* What is left to save is in order, and a stored object is its package's.
OrderInv ==
  /\ \A w \in Workers : Saving(w) => Ordered(job[w].saves)
  /\ \A p \in Packages : Parses(files[p]) => files[p].text.pkg = p

\* An id belongs to one package, and every version of an object, stored or
\* about to be, lists the children adopted alone.
HeldInv ==
  /\ \A r \in Held : r.id < nextObject /\ soloAdopted[r.id] \subseteq r.children
  /\ \A r, s \in Held : r.id = s.id => r.pkg = s.pkg
  /\ \A o \in ObjectIds : o >= nextObject => soloAdopted[o] = {}

\* A handler alone on its objects shares none of them with another.
SoloInv ==
  \A v, w \in Workers :
    v # w /\ Saving(v) /\ Saving(w) /\ job[w].solo
      => Targets(job[v].saves) \cap Targets(job[w].saves) = {}

IInv == TypeOK /\ WalkNeverReturns /\ OrderInv /\ HeldInv /\ SoloInv

LEMMA TextFact ==
  ASSUME TypeOK, NEW k \in Keys
  PROVE  /\ files[k].text \in KnowledgeObject \cup NotAText /\ files[k].extent \in Nat
         /\ Parses(files[k]) <=> files[k].text \in KnowledgeObject
  BY SentinelAssumption DEF TypeOK, Parses

\* What a handler that saves holds.
LEMMA JobFact ==
  ASSUME IInv, NEW w \in Workers, Saving(w)
  PROVE  /\ job[w].saves \in Seq(Save) \ {<<>>} /\ job[w].solo \in BOOLEAN
         /\ Ordered(job[w].saves)
         /\ Recs(job[w].saves) \subseteq Held
  <1>1. job[w] \in SaveJob
    BY DEF IInv, TypeOK
  <1> QED
    BY <1>1 DEF IInv, OrderInv, SaveJob, Held, Stored, Pending

LEMMA HeldFact ==
  ASSUME IInv
  PROVE  /\ Held \subseteq KnowledgeObject
         /\ \A r \in Held : \/ \E p \in Packages : Parses(files[p]) /\ r = files[p].text
                            \/ \E w \in Workers : Saving(w) /\ r \in Recs(job[w].saves)
         /\ \A p \in Packages : Parses(files[p]) => files[p].text \in Held
  <1>1. \A r \in Held : \/ \E p \in Packages : Parses(files[p]) /\ r = files[p].text
                        \/ \E w \in Workers : Saving(w) /\ r \in Recs(job[w].saves)
    BY DEF Held, Stored, Pending
  <1>2. \A p \in Packages : Parses(files[p]) => files[p].text \in KnowledgeObject
    BY TextFact DEF IInv, Keys
  <1>3. \A w \in Workers : Saving(w) => \A r \in Recs(job[w].saves) : r \in KnowledgeObject
    BY JobFact, TailFact
  <1>4. \A p \in Packages : Parses(files[p]) => files[p].text \in Held
    BY DEF Held, Stored, Pending
  <1> QED
    BY <1>1, <1>2, <1>3, <1>4

LEMMA InitIInv == Init => IInv
  <1> SUFFICES ASSUME Init PROVE IInv
    OBVIOUS
  <1>1. \A w \in Workers : ~Saving(w) /\ phase[w] # "walking"
    BY DEF Init, Saving
  <1>2. \A k \in Keys : files[k] = NoFile /\ ~Parses(files[k])
    BY DEF Init, NoFile, Parses, NotAText
  <1>3. TypeOK
    BY <1>1 DEF Init, TypeOK, NoFile, NotAText
  <1>4. Held = {}
    BY <1>1, <1>2 DEF Held, Stored, Pending, Keys
  <1> QED
    BY <1>1, <1>2, <1>3, <1>4
    DEF IInv, WalkNeverReturns, OrderInv, HeldInv, SoloInv, Keys, Init

\* Objects may be forgotten.
LEMMA HeldShrinks ==
  ASSUME IInv, Held' \subseteq Held, nextObject' = nextObject, soloAdopted' = soloAdopted
  PROVE  HeldInv'
  BY DEF IInv, HeldInv

\* Steps that save nothing: handlers may end and files may be truncated.
LEMMA NothingSaved ==
  ASSUME IInv,
         \A v \in Workers : Saving(v)' => Saving(v) /\ job'[v] = job[v],
         \A p \in Packages : Parses(files[p])' => files'[p] = files[p],
         nextObject' = nextObject, soloAdopted' = soloAdopted
  PROVE  OrderInv' /\ HeldInv' /\ SoloInv'
  <1>1. Held' \subseteq Held
    BY DEF Held, Stored, Pending, Parses
  <1>2. HeldInv'
    BY <1>1, HeldShrinks
  <1>3. OrderInv'
    BY DEF IInv, OrderInv, Parses
  <1>4. SoloInv'
    BY DEF IInv, SoloInv
  <1> QED
    BY <1>2, <1>3, <1>4

-----------------------------------------------------------------------------
(* Walks                                                                    *)

\* A line of packages, nobody twice.
Distinct(line) == \A i, j \in DOMAIN line : line[i] = line[j] => i = j

LEMMA AppendDistinct ==
  ASSUME NEW p \in Packages, NEW s \in Seq(Packages), NEW q \in Packages,
         Distinct(<<p>> \o s), q \notin {p} \cup ToSet(s)
  PROVE  Distinct(<<p>> \o Append(s, q))
  <1> DEFINE n == Len(s)
             line == <<p>> \o s
             longer == <<p>> \o Append(s, q)
  <1>1. n \in Nat /\ Len(line) = n + 1 /\ line[1] = p /\ \A i \in 1..n : line[i + 1] = s[i]
    OBVIOUS
  <1>2. Append(s, q) \in Seq(Packages) /\ Len(Append(s, q)) = n + 1
        /\ Append(s, q)[n + 1] = q /\ \A i \in 1..n : Append(s, q)[i] = s[i]
    OBVIOUS
  <1>3. Len(longer) = n + 2 /\ longer[1] = p
        /\ \A i \in 1..(n + 1) : longer[i + 1] = Append(s, q)[i]
    BY <1>1, <1>2
  <1>4. DOMAIN line = 1..(n + 1) /\ DOMAIN longer = 1..(n + 2)
    BY <1>1, <1>2, <1>3
  <1>5. \A i \in 1..n : s[i] \in ToSet(s)
    BY DEF ToSet
  <1> HIDE DEF line, longer
  <1>6. longer[n + 2] = q
    BY <1>1, <1>2, <1>3
  <1>7. ASSUME NEW i \in 1..(n + 1) PROVE longer[i] = line[i] /\ line[i] # q
    <2>1. CASE i = 1
      BY <1>1, <1>3, <2>1
    <2>2. CASE i # 1
      <3>1. i - 1 \in 1..n /\ i - 1 \in 1..(n + 1) /\ i = (i - 1) + 1
        BY <1>1, <2>2
      <3>2. line[i] = s[i - 1] /\ longer[i] = s[i - 1]
        BY <1>1, <1>2, <1>3, <3>1
      <3> QED
        BY <1>5, <3>1, <3>2
    <2> QED
      BY <2>1, <2>2
  <1>8. ASSUME NEW i \in 1..(n + 2), NEW j \in 1..(n + 2), longer[i] = longer[j]
        PROVE  i = j
    <2>1. CASE i = n + 2 /\ j = n + 2
      BY <2>1
    <2>2. CASE i # n + 2 /\ j # n + 2
      <3>1. n \in Nat /\ i \in 1..(n + 2) /\ j \in 1..(n + 2)
        BY <1>1, <1>8
      <3>2. i \in 1..(n + 1) /\ j \in 1..(n + 1)
        BY <2>2, <3>1
      <3>3. line[i] = line[j]
        BY <1>7, <1>8, <3>2
      <3> QED
        BY <1>4, <3>2, <3>3 DEF Distinct, line
    <2>3. CASE i = n + 2 /\ j # n + 2
      <3>1. j \in 1..(n + 1)
        BY <1>1, <2>3
      <3> QED
        BY <1>6, <1>7, <1>8, <2>3, <3>1
    <2>4. CASE i # n + 2 /\ j = n + 2
      <3>1. i \in 1..(n + 1)
        BY <1>1, <2>4
      <3> QED
        BY <1>6, <1>7, <1>8, <2>4, <3>1
    <2> QED
      BY <2>1, <2>2, <2>3, <2>4
  <1> QED
    BY <1>4, <1>8 DEF Distinct, longer

\* The parent that an object of a package names.
LEMMA ParentFact ==
  ASSUME TypeOK, NEW q \in Packages, Exists(files[q]) => Parses(files[q])
  PROVE  ParentOf(q) \in Packages \cup {NoParent}
  <1>1. Parses(files[q]) => files[q].text \in KnowledgeObject
    BY TextFact DEF Keys
  <1> QED
    BY <1>1 DEF ParentOf, KnowledgeObject

LEMMA LineageBeginIInv ==
  ASSUME IInv, NEW w \in Workers, NEW p \in Packages, LineageBegin(w, p)
  PROVE  IInv'
  <1> USE DEF LineageBegin, storeVars, ghostVars
  <1> DEFINE walk == [pkg |-> p, parent |-> ParentOf(p), ancestors |-> <<>>, calm |-> TRUE]
  <1>1. walk \in Walk
    BY ParentFact DEF IInv, Walk
  <1>2. /\ job'[w] = walk /\ phase'[w] = "walking"
        /\ \A v \in Workers \ {w} : job'[v] = job[v] /\ phase'[v] = phase[v]
    BY DEF IInv, TypeOK
  <1> HIDE DEF walk
  <1>3. TypeOK'
    BY <1>1, <1>2 DEF IInv, TypeOK, Saving
  <1>4. WalkNeverReturns'
    <2>1. Distinct(<<p>> \o <<>>)
      BY DEF Distinct
    <2> QED
      BY <1>2, <2>1 DEF IInv, WalkNeverReturns, Distinct, walk
  <1>5. OrderInv' /\ HeldInv' /\ SoloInv'
    BY <1>2, NothingSaved DEF Saving, IInv, TypeOK
  <1> QED
    BY <1>3, <1>4, <1>5 DEF IInv

LEMMA WalkClimbsIInv ==
  ASSUME IInv, NEW w \in Workers, WalkClimbs(w)
  PROVE  IInv'
  <1> USE DEF WalkClimbs, storeVars, ghostVars
  <1> DEFINE q == job[w].parent
             walk == [job[w] EXCEPT !.parent = ParentOf(q), !.ancestors = Append(@, q)]
  <1>1. job[w] \in Walk /\ q \in Packages /\ q \notin Visited(job[w])
    BY DEF IInv, TypeOK, GoesOn, Walk
  <1>2. ParentOf(q) \in Packages \cup {NoParent}
    BY <1>1, ParentFact DEF IInv
  <1>3. /\ walk \in Walk /\ walk.pkg = job[w].pkg /\ walk.ancestors = Append(job[w].ancestors, q)
    <2> DEFINE moved == [job[w] EXCEPT !.parent = ParentOf(q)]
    <2>1. moved \in Walk /\ moved.pkg = job[w].pkg /\ moved.ancestors = job[w].ancestors
      BY <1>1, <1>2 DEF Walk
    <2>2. Append(job[w].ancestors, q) \in Seq(Packages)
      BY <1>1 DEF Walk
    <2>3. walk = [moved EXCEPT !.ancestors = Append(job[w].ancestors, q)]
      BY <2>1
    <2> HIDE DEF moved
    <2> QED
      BY <2>1, <2>2, <2>3 DEF Walk
  <1>4. /\ job' = [job EXCEPT ![w] = walk]
        /\ \A v \in Workers \ {w} : job'[v] = job[v]
        /\ job'[w] = walk
    BY DEF IInv, TypeOK
  <1> HIDE DEF walk, q
  <1>5. TypeOK'
    BY <1>3, <1>4 DEF IInv, TypeOK, Saving
  <1>6. WalkNeverReturns'
    <2>1. Distinct(<<job[w].pkg>> \o job[w].ancestors)
      BY DEF IInv, WalkNeverReturns, Distinct
    <2>2. Distinct(<<walk.pkg>> \o walk.ancestors)
      BY <1>1, <1>3, <2>1, AppendDistinct DEF Walk, Visited
    <2>3. ASSUME NEW v \in Workers, phase'[v] = "walking"
          PROVE  Distinct(<<job'[v].pkg>> \o job'[v].ancestors)
      <3>1. CASE v = w
        BY <1>4, <2>2, <3>1
      <3>2. CASE v # w
        <4>1. job'[v] = job[v] /\ phase[v] = "walking"
          BY <1>4, <2>3, <3>2
        <4>2. Distinct(<<job[v].pkg>> \o job[v].ancestors)
          BY <4>1 DEF IInv, WalkNeverReturns, Distinct
        <4> QED
          BY <4>1, <4>2
      <3> QED
        BY <3>1, <3>2
    <2> QED
      BY <2>3 DEF WalkNeverReturns, Distinct
  <1>7. OrderInv' /\ HeldInv' /\ SoloInv'
    BY <1>4, NothingSaved DEF Saving
  <1> QED
    BY <1>5, <1>6, <1>7 DEF IInv

LEMMA WalkAnswersIInv ==
  ASSUME IInv, NEW w \in Workers, WalkAnswers(w)
  PROVE  IInv'
  <1> USE DEF WalkAnswers, storeVars, ghostVars
  <1>1. /\ phase'[w] = "idle"
        /\ \A v \in Workers \ {w} : job'[v] = job[v] /\ phase'[v] = phase[v]
    BY DEF IInv, TypeOK
  <1>2. TypeOK'
    BY <1>1 DEF IInv, TypeOK, Saving
  <1>3. WalkNeverReturns'
    BY <1>1 DEF IInv, WalkNeverReturns
  <1>4. OrderInv' /\ HeldInv' /\ SoloInv'
    BY <1>1, NothingSaved DEF Saving
  <1> QED
    BY <1>2, <1>3, <1>4 DEF IInv

\* Walks that nobody extends.
LEMMA WalksStay ==
  ASSUME IInv,
         \A v \in Workers : phase'[v] = "walking" =>
           /\ phase[v] = "walking"
           /\ job'[v].pkg = job[v].pkg /\ job'[v].ancestors = job[v].ancestors
  PROVE  WalkNeverReturns'
  <1> SUFFICES ASSUME NEW v \in Workers, phase'[v] = "walking"
               PROVE  Distinct(<<job'[v].pkg>> \o job'[v].ancestors)
    BY DEF WalkNeverReturns, Distinct
  <1>1. phase[v] = "walking" /\ job'[v].pkg = job[v].pkg /\ job'[v].ancestors = job[v].ancestors
    OBVIOUS
  <1>2. Distinct(<<job[v].pkg>> \o job[v].ancestors)
    BY <1>1 DEF IInv, WalkNeverReturns, Distinct
  <1> QED
    BY <1>1, <1>2

-----------------------------------------------------------------------------
(* Saves                                                                    *)

LEMMA DisturbFact ==
  ASSUME IInv
  PROVE  /\ Disturb(job) = [v \in Workers |-> Disturb(job)[v]]
         /\ \A v \in Workers : Saving(v) => Disturb(job)[v] = job[v]
         /\ \A v \in Workers : phase[v] = "walking" =>
              /\ Disturb(job)[v] \in Walk
              /\ Disturb(job)[v].pkg = job[v].pkg
              /\ Disturb(job)[v].ancestors = job[v].ancestors
  <1>1. \A v \in Workers : phase[v] = "walking" => job[v] \in Walk
    BY DEF IInv, TypeOK
  <1>2. \A v \in Workers : phase[v] = "walking" => Disturb(job)[v] = [job[v] EXCEPT !.calm = FALSE]
    BY DEF Disturb
  <1>3. \A v \in Workers : Saving(v) => Disturb(job)[v] = job[v]
    BY DEF Disturb, Saving
  <1>4. Disturb(job) = [v \in Workers |-> Disturb(job)[v]]
    BY DEF Disturb
  <1> QED
    BY <1>1, <1>2, <1>3, <1>4 DEF Walk

LEMMA OpenIInv ==
  ASSUME IInv, NEW w \in Workers, Open(w)
  PROVE  IInv'
  <1> USE DEF Open, ghostVars
  <1> DEFINE key == Head(job[w].saves).key
  <1>1. Saving(w) /\ key \in Keys
    BY JobFact, TailFact DEF Saving, Save
  <1>2. /\ \A v \in Workers : Saving(v)' => Saving(v) /\ job'[v] = job[v]
        /\ \A v \in Workers : phase'[v] = "walking" => phase[v] = "walking"
        /\ job' = [v \in Workers |-> job'[v]]
        /\ \A v \in Workers : job'[v] = Disturb(job)[v]
    BY DisturbFact DEF IInv, TypeOK, Saving
  <1>3. files' = [files EXCEPT ![key] = Truncated]
    OBVIOUS
  <1> HIDE DEF key
  <1>4. TypeOK'
    <2>1. Truncated \in [text : KnowledgeObject \cup NotAText, extent : Nat]
      BY DEF Truncated, NotAText
    <2>2. files' \in [Keys -> [text : KnowledgeObject \cup NotAText, extent : Nat]]
      BY <1>1, <1>3, <2>1 DEF IInv, TypeOK
    <2>3. phase' \in [Workers -> {"idle", "saving", "opened", "walking"}]
      BY DEF IInv, TypeOK
    <2>4. \A v \in Workers : Saving(v)' => job'[v] \in SaveJob
      BY <1>2 DEF IInv, TypeOK
    <2>5. \A v \in Workers : phase'[v] = "walking" => job'[v] \in Walk
      BY <1>2, DisturbFact
    <2> QED
      BY <1>2, <2>2, <2>3, <2>4, <2>5 DEF IInv, TypeOK
  <1>5. WalkNeverReturns'
    BY <1>2, DisturbFact, WalksStay
  <1>6. OrderInv' /\ HeldInv' /\ SoloInv'
    <2>1. \A p \in Packages : Parses(files[p])' => files'[p] = files[p]
      BY <1>1, <1>3 DEF IInv, TypeOK, Parses, Truncated, NotAText, Keys
    <2> QED
      BY <1>2, <2>1, NothingSaved
  <1> QED
    BY <1>4, <1>5, <1>6 DEF IInv

LEMMA CrashIInv ==
  ASSUME IInv, Crash
  PROVE  IInv'
  <1> USE DEF Crash
  <1>1. \A v \in Workers : ~Saving(v)' /\ phase'[v] = "idle"
    BY DEF Saving
  <1>2. TypeOK'
    BY <1>1 DEF IInv, TypeOK
  <1>3. WalkNeverReturns'
    BY <1>1 DEF WalkNeverReturns
  <1>4. OrderInv' /\ HeldInv' /\ SoloInv'
    BY <1>1, NothingSaved
  <1> QED
    BY <1>2, <1>3, <1>4 DEF IInv

LEMMA AnswerNowIInv ==
  ASSUME IInv, UNCHANGED <<storeVars, phase, job, ghostVars>>
  PROVE  IInv'
  <1>1. UNCHANGED <<files, nextObject, crashes, phase, job, under, soloAdopted, raced, cut>>
    BY DEF storeVars, ghostVars
  <1>2. TypeOK' /\ WalkNeverReturns'
    BY <1>1 DEF IInv, TypeOK, WalkNeverReturns, Saving
  <1>3. OrderInv' /\ HeldInv' /\ SoloInv'
    BY <1>1, NothingSaved DEF Saving
  <1> QED
    BY <1>2, <1>3 DEF IInv

\* A handler's next save, and what it has left after it.
Now(w) == Head(job[w].saves)
Rest(w) == Tail(job[w].saves)

LEMMA NowFact ==
  ASSUME IInv, NEW w \in Workers, Saving(w)
  PROVE  /\ Now(w).rec \in Recs(job[w].saves) /\ Now(w).rec \in KnowledgeObject
         /\ Now(w).rec.id \in ObjectIds /\ Now(w).rec.pkg \in Packages
         /\ Now(w).rec.children \subseteq Packages /\ Now(w).rec.size \in Nat
         /\ Now(w).key \in Keys
         /\ Now(w).key \in Packages => Now(w).key = Now(w).rec.pkg
         /\ Rest(w) \in Seq(Save) /\ Ordered(Rest(w))
         /\ Recs(job[w].saves) = {Now(w).rec} \cup Recs(Rest(w))
         /\ \A r \in Recs(job[w].saves) : r \in Held /\ Now(w).rec.id <= r.id
         /\ Now(w).key \in Packages => \A r \in Recs(Rest(w)) : Now(w).rec.id < r.id
         /\ Now(w).key \notin Packages => Now(w).rec \in Recs(Rest(w))
  <1> DEFINE saves == job[w].saves
             rest == Tail(saves)
             save == saves[1]
  <1>1. saves \in Seq(Save) \ {<<>>} /\ Ordered(saves) /\ Recs(saves) \subseteq Held
    BY JobFact
  <1> HIDE DEF saves
  <1>2. /\ Head(saves) = save /\ save \in Save /\ save.rec \in Recs(saves)
        /\ save.rec \in KnowledgeObject /\ rest \in Seq(Save) /\ Ordered(rest)
        /\ Recs(saves) = {save.rec} \cup Recs(rest)
        /\ \A r \in Recs(saves) : save.rec.id <= r.id
        /\ save.key \in Packages => \A r \in Recs(rest) : save.rec.id < r.id
    BY <1>1, TailFact
  <1>3. save.key \notin Packages => rest # <<>> /\ rest[1].rec = save.rec
    <2>1. save.key \notin Packages =>
            rest # <<>> /\ rest[1] = [key |-> save.rec.pkg, rec |-> save.rec]
      BY <1>1, TailFact
    <2> HIDE DEF rest, save
    <2> QED
      BY <2>1
  <1>4. rest # <<>> => rest[1].rec \in Recs(rest)
    <2> HIDE DEF rest
    <2>1. rest # <<>> => 1 \in DOMAIN rest
      BY <1>2
    <2> QED
      BY <2>1 DEF Recs
  <1>5. save.key \in {save.rec.id, save.rec.pkg}
    BY <1>1 DEF Ordered
  <1> HIDE DEF rest, save
  <1>6. /\ save.rec.id \in ObjectIds /\ save.rec.pkg \in Packages
        /\ save.rec.children \subseteq Packages /\ save.rec.size \in Nat
        /\ save.key \in Packages => save.key = save.rec.pkg
        /\ save.key \in Keys
    BY <1>2, <1>5, KeyFact DEF KnowledgeObject, Save
  <1>7. Now(w) = save /\ Rest(w) = rest /\ job[w].saves = saves
    BY <1>2 DEF Now, Rest, saves, rest
  <1> QED
    BY <1>1, <1>2, <1>3, <1>4, <1>6, <1>7

\* What a finished save changes.
LEMMA FlushFact ==
  ASSUME IInv, NEW w \in Workers, Flush(w)
  PROVE  /\ Saving(w)
         /\ files' = [files EXCEPT ![Now(w).key] = Written(files[Now(w).key], Now(w).rec)]
         /\ soloAdopted' = IF Now(w).key \in Packages /\ job[w].solo
                             THEN [soloAdopted EXCEPT ![Now(w).rec.id] = Now(w).rec.children]
                             ELSE soloAdopted
         /\ UNCHANGED <<nextObject, crashes, under, raced, cut>>
         /\ \A v \in Workers : Saving(v)' =>
              /\ Saving(v)
              /\ v # w => job'[v] = job[v]
              /\ v = w => /\ Rest(w) # <<>> /\ job'[v] = [job[w] EXCEPT !.saves = Rest(w)]
                          /\ job'[v].saves = Rest(w) /\ job'[v].solo = job[v].solo
         /\ \A p \in Packages : Parses(files'[p]) =>
              \/ Now(w).key # p /\ files'[p] = files[p]
              \/ Now(w).key = p /\ files'[p].text = Now(w).rec
         /\ \A v \in Workers : phase'[v] = "walking" =>
              phase[v] = "walking" /\ job'[v] = Disturb(job)[v]
         /\ job' = [v \in Workers |-> job'[v]]
         /\ phase' \in [Workers -> {"idle", "saving", "opened", "walking"}]
  <1> DEFINE rest == Rest(w)
             left == [job[w] EXCEPT !.saves = rest]
  <1> USE DEF Flush
  <1>1. Saving(w)
    BY DEF Saving
  <1>2. /\ \A v \in Workers \ {w} : job'[v] = Disturb(job)[v] /\ phase'[v] = phase[v]
        /\ rest # <<>> => phase'[w] = "saving" /\ job'[w] = left
        /\ rest = <<>> => phase'[w] = "idle"
        /\ job' = [v \in Workers |-> job'[v]]
        /\ phase' \in [Workers -> {"idle", "saving", "opened", "walking"}]
    BY DisturbFact DEF IInv, TypeOK, Rest
  <1>3. left.saves = rest /\ left.solo = job[w].solo
    BY <1>1 DEF IInv, TypeOK, SaveJob
  <1>4. /\ files' = [files EXCEPT ![Now(w).key] = Written(files[Now(w).key], Now(w).rec)]
        /\ soloAdopted' = IF Now(w).key \in Packages /\ job[w].solo
                            THEN [soloAdopted EXCEPT ![Now(w).rec.id] = Now(w).rec.children]
                            ELSE soloAdopted
        /\ UNCHANGED <<nextObject, crashes, under, raced, cut>>
    BY DEF Now
  <1> HIDE DEF rest, left, Flush
  <1>5. \A v \in Workers : Saving(v)' =>
          /\ Saving(v)
          /\ v # w => job'[v] = job[v]
          /\ v = w => /\ rest # <<>> /\ job'[v] = left
                      /\ job'[v].saves = rest /\ job'[v].solo = job[v].solo
    BY <1>1, <1>2, <1>3, DisturbFact DEF Saving
  <1>6. \A v \in Workers : phase'[v] = "walking" =>
          phase[v] = "walking" /\ job'[v] = Disturb(job)[v]
    BY <1>2
  <1>7. \A p \in Packages : Parses(files'[p]) =>
           \/ Now(w).key # p /\ files'[p] = files[p]
           \/ Now(w).key = p /\ files'[p].text = Now(w).rec
    BY <1>1, <1>4, NowFact DEF IInv, TypeOK, Keys, Written, Parses, NotAText
  <1> QED
    BY <1>1, <1>2, <1>4, <1>5, <1>6, <1>7 DEF rest, left

\* A finished save stores its object, and nothing else becomes stored or
\* pending.
LEMMA FlushHeld ==
  ASSUME IInv, NEW w \in Workers, Flush(w)
  PROVE  /\ \A r \in Stored' : \/ r = Now(w).rec /\ Now(w).key \in Packages
                               \/ r \in Stored /\ (Now(w).key \in Packages => r.pkg # Now(w).rec.pkg)
         /\ \A r \in Pending' : \/ r \in Recs(Rest(w))
                                \/ \E v \in Workers \ {w} : Saving(v) /\ r \in Recs(job[v].saves)
         /\ Pending' \subseteq Pending /\ Held' \subseteq Held
  <1>1. ASSUME NEW r \in Stored'
        PROVE  \/ r = Now(w).rec /\ Now(w).key \in Packages
               \/ r \in Stored /\ (Now(w).key \in Packages => r.pkg # Now(w).rec.pkg)
    <2>1. PICK p \in Packages : Parses(files'[p]) /\ r = files'[p].text
      BY <1>1 DEF Stored, Parses
    <2>2. CASE Now(w).key = p
      BY <2>1, <2>2, FlushFact
    <2>3. CASE Now(w).key # p
      <3>1. Parses(files[p]) /\ r = files[p].text
        BY <2>1, <2>3, FlushFact
      <3>2. r.pkg = p
        BY <3>1 DEF IInv, OrderInv
      <3> QED
        BY <2>3, <3>1, <3>2, FlushFact, NowFact DEF Stored
    <2> QED
      BY <2>2, <2>3
  <1>2. ASSUME NEW r \in Pending'
        PROVE  \/ r \in Recs(Rest(w))
               \/ \E v \in Workers \ {w} : Saving(v) /\ r \in Recs(job[v].saves)
    <2>1. PICK v \in Workers : Saving(v)' /\ r \in Recs(job'[v].saves)
      BY <1>2 DEF Pending
    <2> QED
      BY <2>1, FlushFact
  <1>3. Pending' \subseteq Pending
    <2>1. Saving(w) /\ Recs(Rest(w)) \subseteq Recs(job[w].saves)
      BY FlushFact, NowFact
    <2> QED
      BY <1>2, <2>1 DEF Pending
  <1>4. Now(w).rec \in Pending
    BY FlushFact, NowFact DEF Pending
  <1> QED
    BY <1>1, <1>2, <1>3, <1>4 DEF Held

LEMMA FlushIInv ==
  ASSUME IInv, NEW w \in Workers, Flush(w)
  PROVE  IInv'
  <1> DEFINE rec == Now(w).rec
             key == Now(w).key
             rest == Rest(w)
  <1>1. /\ Saving(w) /\ rec \in Recs(job[w].saves) /\ rec \in KnowledgeObject
        /\ rec \in Held /\ rec.id \in ObjectIds /\ rec.id \in Nat /\ rec.pkg \in Packages
        /\ rec.children \subseteq Packages /\ key \in Keys
        /\ key \in Packages => key = rec.pkg
    BY FlushFact, NowFact, KeyFact
  <1>2. /\ rest \in Seq(Save) /\ Ordered(rest) /\ Recs(rest) \subseteq Recs(job[w].saves)
        /\ key \in Packages => \A r \in Recs(rest) : rec.id < r.id
    BY FlushFact, NowFact
  <1>3. /\ files' = [files EXCEPT ![key] = Written(files[key], rec)]
        /\ soloAdopted' = IF key \in Packages /\ job[w].solo
                            THEN [soloAdopted EXCEPT ![rec.id] = rec.children] ELSE soloAdopted
        /\ UNCHANGED <<nextObject, crashes, under, raced, cut>>
    BY FlushFact
  <1>4. \A v \in Workers : Saving(v)' =>
          /\ Saving(v)
          /\ v # w => job'[v] = job[v]
          /\ v = w => rest # <<>> /\ job'[v].saves = rest /\ job'[v].solo = job[v].solo
    BY FlushFact
  <1> HIDE DEF rec, key, rest
  <1>5. TypeOK'
    <2>1. Written(files[key], rec) \in [text : KnowledgeObject \cup NotAText, extent : Nat]
      <3>1. rec.size \in Nat
        BY <1>1 DEF KnowledgeObject
      <3> QED
        BY <1>1, <3>1 DEF Written, IInv, TypeOK, NotAText
    <2>2. files' \in [Keys -> [text : KnowledgeObject \cup NotAText, extent : Nat]]
      BY <1>1, <1>3, <2>1 DEF IInv, TypeOK
    <2>3. phase' \in [Workers -> {"idle", "saving", "opened", "walking"}]
          /\ job' = [v \in Workers |-> job'[v]]
      BY FlushFact
    <2>4. ASSUME NEW v \in Workers, Saving(v)' PROVE job'[v] \in SaveJob
      <3>1. CASE v = w
        <4>1. job'[v] = [job[w] EXCEPT !.saves = rest] /\ job[w] \in SaveJob /\ rest # <<>>
          BY <1>1, <2>4, <3>1, FlushFact DEF rest, IInv, TypeOK
        <4> QED
          BY <1>2, <4>1 DEF SaveJob
      <3>2. CASE v # w
        BY <1>4, <2>4, <3>2 DEF IInv, TypeOK
      <3> QED
        BY <3>1, <3>2
    <2>5. \A v \in Workers : phase'[v] = "walking" => job'[v] \in Walk
      BY FlushFact, DisturbFact
    <2>6. soloAdopted' \in [ObjectIds -> SUBSET Packages]
      BY <1>1, <1>3 DEF IInv, TypeOK
    <2> QED
      BY <1>3, <2>2, <2>3, <2>4, <2>5, <2>6 DEF IInv, TypeOK
  <1>6. WalkNeverReturns'
    BY FlushFact, DisturbFact, WalksStay
  <1>7. OrderInv'
    <2>1. \A v \in Workers : Saving(v)' => Ordered(job'[v].saves)
      BY <1>2, <1>4 DEF IInv, OrderInv
    <2>2. ASSUME NEW p \in Packages, Parses(files[p])' PROVE files'[p].text.pkg = p
      <3>1. \/ key # p /\ files'[p] = files[p]
            \/ key = p /\ files'[p].text = rec
        BY <2>2, FlushFact DEF Parses, rec, key
      <3> QED
        BY <1>1, <2>2, <3>1 DEF IInv, OrderInv, Parses
    <2> QED
      BY <2>1, <2>2 DEF OrderInv
  <1>8. SoloInv'
    <2>1. \A v \in Workers : Saving(v)' => Targets(job'[v].saves) \subseteq Targets(job[v].saves)
      <3>1. Targets(rest) \subseteq Targets(job[w].saves)
        BY <1>2, TargetsFact
      <3> QED
        BY <1>4, <3>1
    <2> QED
      BY <1>4, <2>1 DEF IInv, SoloInv
  <1>9. HeldInv'
    <2>1. Held' \subseteq Held
      BY FlushHeld
    <2>2. CASE key \notin Packages \/ ~job[w].solo
      BY <1>3, <2>1, <2>2, HeldShrinks
    <2>3. CASE key \in Packages /\ job[w].solo
      <3>1. \A r \in Held : r.id = rec.id => r.pkg = rec.pkg
        BY <1>1 DEF IInv, HeldInv
      <3>2. ASSUME NEW r \in Held', r.id = rec.id PROVE r = rec
        <4>1. CASE r \in Recs(rest)
          <5>1. rec.id < rec.id
            BY <1>2, <2>3, <3>2, <4>1
          <5> QED
            BY <1>1, <5>1
        <4>2. CASE r \in Stored'
          BY <2>1, <2>3, <3>1, <3>2, <4>2, FlushHeld DEF rec, key
        <4>3. ASSUME NEW v \in Workers \ {w}, Saving(v), r \in Recs(job[v].saves)
              PROVE  FALSE
          <5>1. r.pkg = rec.pkg
            BY <2>1, <3>1, <3>2
          <5>2. rec.pkg \in Targets(job[v].saves) /\ rec.pkg \in Targets(job[w].saves)
            BY <1>1, <4>3, <5>1, TargetsFact
          <5> QED
            BY <1>1, <2>3, <4>3, <5>2 DEF IInv, SoloInv
        <4> QED
          BY <3>2, <4>1, <4>2, <4>3, FlushHeld DEF Held, rest
      <3>3. soloAdopted' = [soloAdopted EXCEPT ![rec.id] = rec.children]
        BY <1>3, <2>3
      <3>4. \A r \in Held' : r.id \in ObjectIds
        BY <2>1, HeldFact DEF KnowledgeObject
      <3>5. \A r \in Held' : soloAdopted'[r.id] \subseteq r.children
        BY <1>1, <2>1, <3>2, <3>3, <3>4 DEF IInv, HeldInv, TypeOK
      <3>6. rec.id < nextObject
        BY <1>1 DEF IInv, HeldInv
      <3>7. \A o \in ObjectIds : o >= nextObject => soloAdopted'[o] = {}
        BY <1>1, <3>3, <3>6, KeyFact DEF IInv, HeldInv, TypeOK
      <3> QED
        BY <1>3, <2>1, <3>5, <3>7 DEF IInv, HeldInv
    <2> QED
      BY <2>2, <2>3
  <1> QED
    BY <1>5, <1>6, <1>7, <1>8, <1>9 DEF IInv

-----------------------------------------------------------------------------
(* Registrations                                                            *)

LEMMA FoundParentFact ==
  ASSUME IInv, NEW p \in Packages, NEW q \in Parents \cup {NoParent}, Acceptable(p, q)
  PROVE  /\ FoundParent(q) \in KnowledgeObject \cup {Absent}
         /\ FoundParent(q) # Absent => FoundParent(q) \in Held /\ FoundParent(q).id < nextObject
         /\ FoundParent(q) # Absent => q # NoParent /\ FoundParent(q) = files[q].text
  <1>1. CASE q = NoParent
    BY <1>1 DEF FoundParent
  <1>2. CASE q # NoParent
    <2>1. q \in Packages /\ FoundParent(q) = files[q].text
      BY <1>2, PackagesAssumption DEF FoundParent
    <2>2. files[q].text = Absent \/ Parses(files[q])
      BY <1>2 DEF Acceptable, Exists
    <2>3. Parses(files[q]) => files[q].text \in KnowledgeObject /\ files[q].text \in Held
      BY <2>1, TextFact, HeldFact DEF IInv, Keys
    <2> QED
      BY <1>2, <2>1, <2>2, <2>3 DEF IInv, HeldInv
  <1> QED
    BY <1>1, <1>2

\* What a registration by w begins with: the object own, to be saved after
\* the object of its parent if that one has to learn of it.
Begun(w, own, parent, saves) ==
  /\ job' = [v \in Workers |-> job'[v]]
  /\ phase' = [phase EXCEPT ![w] = "saving"]
  /\ phase'[w] = "saving"
  /\ job'[w] \in SaveJob /\ job'[w].saves = saves
  /\ job'[w].solo = ({x \in Targets(saves) : Busy(x)} = {})
  /\ raced' = raced \cup {x \in Targets(saves) : Busy(x)}
  /\ \A v \in Workers \ {w} :
       /\ phase'[v] = phase[v]
       /\ ~Saving(v) => job'[v] = job[v]
       /\ Saving(v) => /\ job'[v] \in SaveJob /\ job'[v].saves = job[v].saves
                       /\ job'[v].solo =>
                            job[v].solo /\ Targets(job[v].saves) \cap Targets(saves) = {}
  /\ saves \in Seq(Save) \ {<<>>} /\ Ordered(saves)
  /\ Recs(saves) = {own} \cup (IF Adopts(parent, own) THEN {WithChild(parent, own.pkg)} ELSE {})

LEMMA RegisterFact ==
  ASSUME IInv, NEW w \in Workers, NEW p \in Packages, NEW q \in Parents \cup {NoParent},
         RegisterBegin(w, p, q)
  PROVE  /\ phase[w] = "idle" /\ nextObject \in ObjectIds /\ nextObject \in Nat
         /\ Acceptable(p, q)
         /\ nextObject' = nextObject + 1
         /\ under' = [under EXCEPT ![nextObject] =
                        IF FoundParent(q) = Absent THEN 0 ELSE FoundParent(q).id]
         /\ UNCHANGED <<files, crashes, soloAdopted, cut>>
         /\ \E own \in KnowledgeObject :
              /\ own.id = nextObject /\ own.pkg = p /\ own.parent = q /\ own.children = {}
              /\ Begun(w, own, FoundParent(q), AllSaves(FoundParent(q), own))
  <1> DEFINE Own(len) == [id |-> nextObject, pkg |-> p, parent |-> q, children |-> {},
                          size |-> len]
             Saves(len) == AllSaves(FoundParent(q), Own(len))
             Overlapped(len) == {x \in Targets(Saves(len)) : Busy(x)}
  <1>1. PICK len \in TextLens :
          /\ phase' = [phase EXCEPT ![w] = "saving"]
          /\ job' = [v \in Workers |->
                       IF v = w THEN [saves |-> Saves(len), solo |-> Overlapped(len) = {}]
                       ELSE IF Saving(v) /\ Targets(job[v].saves) \cap Targets(Saves(len)) # {}
                         THEN [job[v] EXCEPT !.solo = FALSE]
                       ELSE job[v]]
          /\ raced' = raced \cup Overlapped(len)
    BY DEF RegisterBegin
  <1>2. /\ phase[w] = "idle" /\ nextObject <= MaxObjects /\ Acceptable(p, q)
        /\ nextObject' = nextObject + 1
        /\ under' = [under EXCEPT ![nextObject] =
                       IF FoundParent(q) = Absent THEN 0 ELSE FoundParent(q).id]
        /\ UNCHANGED <<files, crashes, soloAdopted, cut>>
    <2>1. Acceptable(p, q)
      BY DEF RegisterBegin
    <2>2. FoundParent(q) # Absent => FoundParent(q) = files[q].text
      BY <2>1, FoundParentFact
    <2> QED
      BY <2>1, <2>2 DEF RegisterBegin
  <1> DEFINE own == Own(len)
             parent == FoundParent(q)
             saves == Saves(len)
             overlapped == {x \in Targets(saves) : Busy(x)}
  <1>3. nextObject \in ObjectIds /\ nextObject \in Nat
    BY <1>2, BoundsAssumption DEF IInv, TypeOK, ObjectIds
  <1>4. /\ own \in KnowledgeObject /\ own.id = nextObject /\ own.pkg = p /\ own.parent = q
        /\ own.children = {}
    BY <1>3, PackagesAssumption, TextLensAssumption DEF KnowledgeObject
  <1>5. /\ parent \in KnowledgeObject \cup {Absent}
        /\ parent # Absent => parent.id < own.id
    BY <1>2, <1>4, FoundParentFact
  <1>6. saves = AllSaves(parent, own)
    OBVIOUS
  <1> HIDE DEF own, Own
  <1>7. /\ saves \in Seq(Save) \ {<<>>} /\ Ordered(saves)
        /\ Recs(saves) = {own} \cup (IF Adopts(parent, own) THEN {WithChild(parent, own.pkg)} ELSE {})
    BY <1>4, <1>5, AllSavesFact DEF own
  <1> HIDE DEF saves, Saves, parent
  <1>8. Overlapped(len) = overlapped
    BY DEF saves
  <1>9. /\ job'[w].saves = saves /\ job'[w].solo = (overlapped = {})
        /\ job'[w] \in SaveJob /\ phase'[w] = "saving"
    <2>1. job'[w] = [saves |-> saves, solo |-> (overlapped = {})]
      BY <1>1, <1>8 DEF saves
    <2>2. (overlapped = {}) \in BOOLEAN
      OBVIOUS
    <2> HIDE DEF overlapped
    <2> QED
      BY <1>1, <1>7, <2>1, <2>2 DEF SaveJob, IInv, TypeOK
  <1>10. ASSUME NEW v \in Workers \ {w}
        PROVE  /\ phase'[v] = phase[v]
               /\ ~Saving(v) => job'[v] = job[v]
               /\ Saving(v) => /\ job'[v] \in SaveJob /\ job'[v].saves = job[v].saves
                               /\ job'[v].solo =>
                                    /\ job[v].solo
                                    /\ Targets(job[v].saves) \cap Targets(saves) = {}
    <2>1. phase'[v] = phase[v]
      BY <1>1 DEF IInv, TypeOK
    <2>2. CASE Saving(v) /\ Targets(job[v].saves) \cap Targets(saves) # {}
      <3>1. job'[v] = [job[v] EXCEPT !.solo = FALSE] /\ job[v] \in SaveJob
        BY <1>1, <2>2 DEF saves, IInv, TypeOK
      <3> QED
        BY <2>1, <2>2, <3>1 DEF SaveJob
    <2>3. CASE ~(Saving(v) /\ Targets(job[v].saves) \cap Targets(saves) # {})
      <3>1. job'[v] = job[v]
        BY <1>1, <2>3 DEF saves
      <3> QED
        BY <2>1, <2>3, <3>1 DEF IInv, TypeOK
    <2> QED
      BY <2>2, <2>3
  <1>11. job' = [v \in Workers |-> job'[v]] /\ phase' = [phase EXCEPT ![w] = "saving"]
         /\ raced' = raced \cup overlapped
    BY <1>1, <1>8
  <1>12. Begun(w, own, parent, saves)
    BY <1>7, <1>9, <1>10, <1>11 DEF Begun
  <1> QED
    BY <1>2, <1>3, <1>4, <1>6, <1>12 DEF parent

LEMMA RegisterBeginIInv ==
  ASSUME IInv, NEW w \in Workers, NEW p \in Packages, NEW q \in Parents \cup {NoParent},
         RegisterBegin(w, p, q)
  PROVE  IInv'
  <1> DEFINE parent == FoundParent(q)
  <1>1. /\ nextObject \in ObjectIds /\ nextObject \in Nat /\ nextObject' = nextObject + 1
        /\ nextObject' \in Nat \ {0} /\ phase[w] = "idle"
        /\ under' = [under EXCEPT ![nextObject] = IF parent = Absent THEN 0 ELSE parent.id]
        /\ UNCHANGED <<files, crashes, soloAdopted, cut>>
    BY RegisterFact
  <1>2. PICK own \in KnowledgeObject :
          /\ own.id = nextObject /\ own.pkg = p /\ own.children = {}
          /\ Begun(w, own, parent, AllSaves(parent, own))
    BY RegisterFact
  <1>3. /\ parent \in KnowledgeObject \cup {Absent}
        /\ parent # Absent => parent \in Held /\ parent.id \in ObjectIds
    BY RegisterFact, FoundParentFact DEF KnowledgeObject
  <1> DEFINE saves == AllSaves(parent, own)
  <1> HIDE DEF parent, saves
  <1>4. /\ phase' = [phase EXCEPT ![w] = "saving"] /\ job' = [v \in Workers |-> job'[v]]
        /\ raced' = raced \cup {x \in Targets(saves) : Busy(x)}
    BY <1>2 DEF Begun, saves
  <1>5. /\ saves \in Seq(Save) \ {<<>>} /\ Ordered(saves)
        /\ Recs(saves) = {own} \cup (IF Adopts(parent, own) THEN {WithChild(parent, p)} ELSE {})
    BY <1>2 DEF Begun, saves
  <1>6. /\ job'[w].saves = saves /\ job'[w].solo = ({x \in Targets(saves) : Busy(x)} = {})
        /\ job'[w] \in SaveJob /\ phase'[w] = "saving"
    BY <1>2 DEF Begun, saves
  <1>7. \A v \in Workers \ {w} :
          /\ phase'[v] = phase[v]
          /\ ~Saving(v) => job'[v] = job[v]
          /\ Saving(v) => /\ job'[v] \in SaveJob /\ job'[v].saves = job[v].saves
                          /\ job'[v].solo =>
                               job[v].solo /\ Targets(job[v].saves) \cap Targets(saves) = {}
    BY <1>2 DEF Begun, saves
  <1>8. TypeOK'
    <2>1. phase' \in [Workers -> {"idle", "saving", "opened", "walking"}]
      BY <1>4 DEF IInv, TypeOK
    <2>2. job' = [v \in Workers |-> job'[v]]
      BY <1>4
    <2>3. \A v \in Workers : Saving(v)' => job'[v] \in SaveJob
      BY <1>6, <1>7 DEF Saving
    <2>4. \A v \in Workers : phase'[v] = "walking" => job'[v] \in Walk
      BY <1>6, <1>7 DEF IInv, TypeOK, Saving
    <2>5. under' \in [ObjectIds -> ObjectIds \cup {0}]
      BY <1>1, <1>3 DEF IInv, TypeOK
    <2>6. raced' \subseteq Packages
      <3>1. \A x : Busy(x) => \E v \in Workers : Saving(v) /\ x \in Targets(job[v].saves)
        BY DEF Busy, SaversOf
      <3>2. \A v \in Workers : Saving(v) => Targets(job[v].saves) \subseteq Packages
        BY JobFact, TargetsFact, HeldFact DEF KnowledgeObject
      <3> QED
        BY <1>4, <3>1, <3>2 DEF IInv, TypeOK
    <2> QED
      BY <1>1, <2>1, <2>2, <2>3, <2>4, <2>5, <2>6 DEF IInv, TypeOK
  <1>9. WalkNeverReturns'
    BY <1>6, <1>7, WalksStay DEF Saving
  <1>10. OrderInv'
    BY <1>1, <1>5, <1>6, <1>7 DEF IInv, OrderInv, Saving
  <1>11. SoloInv'
    <2>1. job'[w].solo =>
            \A v \in Workers : Saving(v) => Targets(job[v].saves) \cap Targets(saves) = {}
      BY <1>6 DEF Busy, SaversOf
    <2>2. ASSUME NEW u \in Workers, NEW v \in Workers, u # v, Saving(u)', Saving(v)', job'[v].solo
          PROVE  Targets(job'[u].saves) \cap Targets(job'[v].saves) = {}
      <3>1. CASE u = w
        BY <1>6, <1>7, <2>2, <3>1 DEF Saving
      <3>2. CASE v = w
        BY <1>6, <1>7, <2>1, <2>2, <3>2 DEF Saving
      <3>3. CASE u # w /\ v # w
        BY <1>7, <2>2, <3>3 DEF Saving, IInv, SoloInv
      <3> QED
        BY <3>1, <3>2, <3>3
    <2> QED
      BY <2>2 DEF SoloInv
  <1>12. HeldInv'
    <2> DEFINE new == {own} \cup (IF Adopts(parent, own) THEN {WithChild(parent, p)} ELSE {})
    <2>1. Held' \subseteq Held \cup new
      BY <1>1, <1>5, <1>6, <1>7 DEF Held, Stored, Pending, Saving
    <2>2. \A r \in Held : r.id < nextObject /\ r.id \in Nat /\ r.id \in ObjectIds
      BY HeldFact, KeyFact DEF IInv, HeldInv, KnowledgeObject
    <2>3. soloAdopted[nextObject] = {}
      BY <1>1 DEF IInv, HeldInv
    <2>4. ASSUME NEW r \in new
          PROVE  \/ r.id = nextObject /\ r.pkg = p /\ r.children = {}
                 \/ /\ r \in KnowledgeObject /\ parent \in Held /\ r.id = parent.id
                    /\ r.pkg = parent.pkg /\ parent.children \subseteq r.children
      <3>1. CASE r = own
        BY <1>2, <3>1
      <3>2. CASE Adopts(parent, own) /\ r = WithChild(parent, p)
        BY <1>3, <3>2, WithChildFact DEF Adopts
      <3> QED
        BY <2>4, <3>1, <3>2
    <2> HIDE DEF new
    <2>5. ASSUME NEW r \in Held'
          PROVE  \/ r.id = nextObject /\ r.pkg = p /\ r.children = {}
                 \/ \E s \in Held : r.id = s.id /\ r.pkg = s.pkg /\ s.children \subseteq r.children
      BY <2>1, <2>4
    <2>6. ASSUME NEW r \in Held'
          PROVE  r.id < nextObject + 1 /\ soloAdopted[r.id] \subseteq r.children
      <3>1. CASE r.id = nextObject
        BY <1>1, <2>2, <2>3, <2>5, <3>1
      <3>2. CASE r.id # nextObject
        <4>1. PICK s \in Held : r.id = s.id /\ s.children \subseteq r.children
          BY <2>5, <3>2
        <4>2. s.id < nextObject /\ s.id \in Nat /\ soloAdopted[s.id] \subseteq s.children
          BY <2>2 DEF IInv, HeldInv
        <4> QED
          BY <1>1, <4>1, <4>2
      <3> QED
        BY <3>1, <3>2
    <2>7. ASSUME NEW r \in Held', NEW s \in Held', r.id = s.id PROVE r.pkg = s.pkg
      <3>1. CASE r.id = nextObject
        <4>1. \A t \in Held : t.id # nextObject
          BY <1>1, <2>2
        <4> QED
          BY <2>5, <2>7, <3>1, <4>1
      <3>2. CASE r.id # nextObject
        BY <2>5, <2>7, <3>2 DEF IInv, HeldInv
      <3> QED
        BY <3>1, <3>2
    <2>8. ASSUME NEW o \in ObjectIds, o >= nextObject + 1 PROVE soloAdopted[o] = {}
      BY <1>1, <2>8, KeyFact DEF IInv, HeldInv
    <2> QED
      BY <1>1, <2>6, <2>7, <2>8 DEF HeldInv
  <1> QED
    BY <1>8, <1>9, <1>10, <1>11, <1>12 DEF IInv

-----------------------------------------------------------------------------
(* Children and parents                                                     *)

\* r lists c, if it is the object that c was registered under (u is under).
Lists(u, r, c) == c.parent = r.pkg /\ u[c.id] = r.id => c.pkg \in r.children

\* q's object, under which c was registered, has yet to be saved.
Yet(u, saves, c, q) == \E r \in Recs(saves) : r.pkg = q /\ r.id = u[c.id]

\* The parent's object is older than the child's.
UnderInv == \A o \in ObjectIds : under[o] < o

\* Of an object that was never raced there is one saver, and what it is about
\* to save has the children that are stored.
AloneInv ==
  /\ \A v, w \in Workers :
       v # w /\ Saving(v) /\ Saving(w)
         => Targets(job[v].saves) \cap Targets(job[w].saves) \subseteq raced
  /\ \A s \in Stored, r \in Pending :
       s.id = r.id /\ r.pkg \notin raced => s.children \subseteq r.children

\* Stored children are listed by every version of their parent's object, and
\* those about to be stored unless that version is about to be replaced.
ListInv ==
  /\ \A c \in Stored, r \in Held : r.pkg \notin raced => Lists(under, r, c)
  /\ \A w \in Workers : Saving(w) =>
       \A c \in Recs(job[w].saves) :
         /\ \A r \in Pending : r.pkg \notin raced => Lists(under, r, c)
         /\ \A r \in Stored : r.pkg \notin raced =>
              Lists(under, r, c) \/ Yet(under, job[w].saves, c, r.pkg)

LInv == UnderInv /\ AloneInv /\ ListInv

LEMMA InitLInv == Init => LInv
  <1> SUFFICES ASSUME Init PROVE LInv
    OBVIOUS
  <1>1. \A w \in Workers : ~Saving(w)
    BY DEF Init, Saving
  <1>2. Stored = {} /\ Pending = {}
    BY <1>1 DEF Init, NoFile, Parses, NotAText, Stored, Pending, Keys
  <1>3. UnderInv
    BY BoundsAssumption DEF Init, UnderInv, ObjectIds
  <1> QED
    BY <1>1, <1>2, <1>3 DEF LInv, AloneInv, ListInv

LEMMA NothingSavedLInv ==
  ASSUME LInv,
         \A v \in Workers : Saving(v)' => Saving(v) /\ job'[v] = job[v],
         \A p \in Packages : Parses(files[p])' => files'[p] = files[p],
         under' = under, raced' = raced
  PROVE  LInv'
  <1>1. Stored' \subseteq Stored
    BY DEF Stored, Parses
  <1>2. Pending' \subseteq Pending
    BY DEF Pending
  <1>3. Held' \subseteq Held
    BY <1>1, <1>2 DEF Held
  <1>4. UnderInv'
    BY DEF LInv, UnderInv
  <1>5. AloneInv'
    BY <1>1, <1>2 DEF LInv, AloneInv
  <1>6. ListInv'
    BY <1>1, <1>2, <1>3 DEF LInv, ListInv
  <1> QED
    BY <1>4, <1>5, <1>6 DEF LInv

LEMMA FlushLInv ==
  ASSUME IInv, LInv, NEW w \in Workers, Flush(w)
  PROVE  LInv'
  <1> DEFINE rec == Now(w).rec
             key == Now(w).key
             rest == Rest(w)
  <1>1. /\ Saving(w) /\ rec \in Recs(job[w].saves) /\ rec \in Held /\ rec \in Pending
        /\ rec \in KnowledgeObject /\ rec.id \in ObjectIds /\ rec.id \in Nat
        /\ Recs(job[w].saves) = {rec} \cup Recs(rest)
        /\ \A r \in Recs(job[w].saves) : r.id \in Nat /\ rec.id <= r.id
        /\ key \in Packages => \A r \in Recs(rest) : rec.id < r.id
        /\ key \notin Packages => rec \in Recs(rest)
    <2>1. /\ Saving(w) /\ rec \in Recs(job[w].saves) /\ rec \in KnowledgeObject
          /\ rec.id \in ObjectIds /\ Recs(job[w].saves) = {rec} \cup Recs(rest)
          /\ \A r \in Recs(job[w].saves) : r \in Held /\ rec.id <= r.id
          /\ key \in Packages => \A r \in Recs(rest) : rec.id < r.id
          /\ key \notin Packages => rec \in Recs(rest)
      BY FlushFact, NowFact
    <2> HIDE DEF rec, key, rest
    <2>2. \A r \in Held : r.id \in Nat
      BY HeldFact, KeyFact DEF KnowledgeObject
    <2>3. rec \in Pending
      BY <2>1 DEF Pending
    <2> QED
      BY <2>1, <2>2, <2>3
  <1>2. /\ \A r \in Stored' : \/ r = rec /\ key \in Packages
                              \/ r \in Stored /\ (key \in Packages => r.pkg # rec.pkg)
        /\ \A r \in Pending' : \/ r \in Recs(rest)
                               \/ \E v \in Workers \ {w} : Saving(v) /\ r \in Recs(job[v].saves)
        /\ Pending' \subseteq Pending /\ Held' \subseteq Held
    BY FlushHeld
  <1>3. /\ under' = under /\ raced' = raced
        /\ \A v \in Workers : Saving(v)' =>
             /\ Saving(v)
             /\ v # w => job'[v] = job[v]
             /\ v = w => job'[v].saves = rest
    BY FlushFact
  <1> HIDE DEF rec, key, rest
  <1>4. UnderInv'
    BY <1>3 DEF LInv, UnderInv
  <1>5. AloneInv'
    <2>1. \A v \in Workers : Saving(v)' => Targets(job'[v].saves) \subseteq Targets(job[v].saves)
      <3>1. Targets(rest) \subseteq Targets(job[w].saves)
        BY <1>1, TargetsFact
      <3> QED
        BY <1>3, <3>1
    <2>2. ASSUME NEW s \in Stored', NEW r \in Pending', s.id = r.id, r.pkg \notin raced
          PROVE  s.children \subseteq r.children
      <3>1. CASE s \in Stored
        BY <1>2, <2>2, <3>1 DEF LInv, AloneInv
      <3>2. CASE s = rec /\ key \in Packages
        <4>1. CASE r \in Recs(rest)
          <5>1. rec.id < rec.id
            BY <1>1, <2>2, <3>2, <4>1
          <5> QED
            BY <1>1, <5>1
        <4>2. ASSUME NEW v \in Workers \ {w}, Saving(v), r \in Recs(job[v].saves)
              PROVE  FALSE
          <5>1. r.pkg = rec.pkg
            BY <1>1, <1>2, <2>2, <3>2 DEF IInv, HeldInv, Held
          <5>2. r.pkg \in Targets(job[v].saves) /\ r.pkg \in Targets(job[w].saves)
            BY <1>1, <4>2, <5>1, TargetsFact
          <5> QED
            BY <1>1, <2>2, <4>2, <5>2 DEF LInv, AloneInv
        <4> QED
          BY <1>2, <4>1, <4>2
      <3> QED
        BY <1>2, <3>1, <3>2
    <2> QED
      BY <1>3, <2>1, <2>2 DEF LInv, AloneInv
  <1>6. ListInv'
    <2>1. \A r, c : Lists(under', r, c) <=> Lists(under, r, c)
      BY <1>3 DEF Lists
    <2>2. ASSUME NEW c \in Stored', NEW r \in Held', r.pkg \notin raced PROVE Lists(under, r, c)
      <3>1. CASE c \in Stored
        BY <1>2, <2>2, <3>1 DEF LInv, ListInv
      <3>2. CASE c = rec /\ key \in Packages
        <4>1. CASE r \in Pending
          BY <1>1, <2>2, <3>2, <4>1 DEF LInv, ListInv
        <4>2. CASE r \in Stored
          <5>1. ~Yet(under, job[w].saves, rec, r.pkg)
            <6>1. under[rec.id] < rec.id /\ under[rec.id] \in Nat
              BY <1>1, KeyFact DEF LInv, UnderInv, IInv, TypeOK
            <6> QED
              BY <1>1, <6>1 DEF Yet
          <5> QED
            BY <1>1, <2>2, <3>2, <4>2, <5>1 DEF LInv, ListInv
        <4> QED
          BY <1>2, <4>1, <4>2 DEF Held
      <3> QED
        BY <1>2, <3>1, <3>2
    <2>3. ASSUME NEW v \in Workers, Saving(v)', NEW c \in Recs(job'[v].saves)
          PROVE  /\ \A r \in Pending' : r.pkg \notin raced => Lists(under, r, c)
                 /\ \A r \in Stored' : r.pkg \notin raced =>
                      Lists(under, r, c) \/ Yet(under', job'[v].saves, c, r.pkg)
      <3>1. Saving(v) /\ c \in Recs(job[v].saves)
        BY <1>1, <1>3, <2>3
      <3>2. \A r \in Pending : r.pkg \notin raced => Lists(under, r, c)
        BY <3>1 DEF LInv, ListInv
      <3>3. ASSUME NEW r \in Stored, key \in Packages => r.pkg # rec.pkg,
                   Yet(under, job[v].saves, c, r.pkg)
            PROVE  Yet(under', job'[v].saves, c, r.pkg)
        <4>1. PICK s \in Recs(job[v].saves) : s.pkg = r.pkg /\ s.id = under[c.id]
          BY <3>3 DEF Yet
        <4>2. s \in Recs(job'[v].saves)
          BY <1>1, <1>3, <2>3, <3>3, <4>1
        <4> QED
          BY <1>3, <4>1, <4>2 DEF Yet
      <3>4. \A r \in Stored : r.pkg \notin raced =>
              Lists(under, r, c) \/ Yet(under, job[v].saves, c, r.pkg)
        BY <3>1 DEF LInv, ListInv
      <3> QED
        BY <1>1, <1>2, <3>2, <3>3, <3>4
    <2> QED
      BY <1>3, <2>1, <2>2, <2>3 DEF ListInv
  <1> QED
    BY <1>4, <1>5, <1>6 DEF LInv

LEMMA RegisterBeginLInv ==
  ASSUME IInv, LInv, NEW w \in Workers, NEW p \in Packages, NEW q \in Parents \cup {NoParent},
         RegisterBegin(w, p, q)
  PROVE  LInv'
  <1> DEFINE parent == FoundParent(q)
  <1>1. /\ nextObject \in ObjectIds /\ nextObject \in Nat /\ phase[w] = "idle" /\ ~Saving(w)
        /\ under' = [under EXCEPT ![nextObject] = IF parent = Absent THEN 0 ELSE parent.id]
        /\ files' = files
    BY RegisterFact DEF Saving
  <1>2. PICK own \in KnowledgeObject :
          /\ own.id = nextObject /\ own.pkg = p /\ own.parent = q /\ own.children = {}
          /\ Begun(w, own, parent, AllSaves(parent, own))
    BY RegisterFact
  <1>3. /\ parent \in KnowledgeObject \cup {Absent}
        /\ parent # Absent => /\ parent \in Stored /\ parent.id \in ObjectIds /\ parent.pkg = q
                              /\ parent.id \in Nat /\ parent.id < nextObject
        /\ \A r \in Stored : r.pkg = q => r = parent /\ parent # Absent
    <2>1. \A r \in Stored : r.pkg = q => r = parent
      BY PackagesAssumption DEF Stored, IInv, OrderInv, FoundParent
    <2>2. Absent \notin KnowledgeObject /\ Stored \subseteq KnowledgeObject
      BY HeldFact, SentinelAssumption DEF NotAText, Held
    <2>3. parent # Absent => parent \in Stored /\ parent.pkg = q
      <3>1. parent # Absent => q \in Packages /\ parent = files[q].text /\ parent \in KnowledgeObject
        BY RegisterFact, FoundParentFact, PackagesAssumption
      <3> QED
        BY <3>1, TextFact DEF Stored, IInv, OrderInv, Keys
    <2>4. /\ parent \in KnowledgeObject \cup {Absent}
          /\ parent # Absent => parent.id < nextObject
      BY RegisterFact, FoundParentFact
    <2> HIDE DEF parent
    <2>5. parent # Absent => parent.id \in ObjectIds /\ parent.id \in Nat
      BY <2>4, KeyFact DEF KnowledgeObject
    <2> QED
      BY <2>1, <2>2, <2>3, <2>4, <2>5
  <1> DEFINE saves == AllSaves(parent, own)
             par == WithChild(parent, p)
  <1> HIDE DEF parent, saves
  <1>4. /\ raced' = raced \cup {x \in Targets(saves) : Busy(x)}
        /\ Recs(saves) = {own} \cup (IF Adopts(parent, own) THEN {par} ELSE {})
        /\ job'[w].saves = saves /\ phase'[w] = "saving"
        /\ \A v \in Workers \ {w} : /\ Saving(v)' <=> Saving(v)
                                    /\ Saving(v) => job'[v].saves = job[v].saves
    BY <1>2 DEF Begun, saves, Saving
  <1>5. Adopts(parent, own) =>
          /\ parent # Absent /\ par \in KnowledgeObject /\ par.id = parent.id /\ par.pkg = q
          /\ par.parent = parent.parent /\ par.children = parent.children \cup {p}
    BY <1>2, <1>3, WithChildFact DEF Adopts
  <1> HIDE DEF par
  <1>6. ~Adopts(parent, own) /\ parent # Absent => p \in parent.children
    BY <1>2 DEF Adopts
  <1>7. \A r \in Held : r.id \in ObjectIds /\ r.id \in Nat /\ r.id < nextObject
    BY HeldFact, KeyFact DEF KnowledgeObject, IInv, HeldInv
  <1>8. /\ under'[nextObject] = IF parent = Absent THEN 0 ELSE parent.id
        /\ \A r \in Held : under'[r.id] = under[r.id]
        /\ \A o \in ObjectIds \ {nextObject} : under'[o] = under[o]
    BY <1>1, <1>7 DEF IInv, TypeOK
  <1>9. UnderInv'
    <2>1. under'[nextObject] < nextObject
      BY <1>1, <1>3, <1>8, KeyFact
    <2>2. \A o \in ObjectIds \ {nextObject} : under'[o] < o
      BY <1>8 DEF LInv, UnderInv
    <2> QED
      BY <2>1, <2>2 DEF UnderInv
  <1>10. /\ Stored' = Stored
         /\ \A r \in Pending' : \/ r \in Pending
                                \/ r = own
                                \/ r = par /\ Adopts(parent, own)
    BY <1>1, <1>4 DEF Stored, Pending, Saving
  \* An object that the new handler and another are about to save is raced.
  <1>11. ASSUME NEW v \in Workers, Saving(v), NEW r \in Recs(job[v].saves),
                NEW t \in Recs(saves), r.pkg = t.pkg
         PROVE  r.pkg \in raced'
    BY <1>4, <1>11, TargetsFact DEF Busy, SaversOf
  <1>12. raced \subseteq raced'
    BY <1>4
  <1>13. AloneInv'
    <2>1. ASSUME NEW u \in Workers, NEW v \in Workers, u # v, Saving(u)', Saving(v)',
                 NEW x \in Targets(job'[u].saves), x \in Targets(job'[v].saves)
          PROVE  x \in raced'
      <3>1. CASE u # w /\ v # w
        BY <1>4, <1>12, <2>1, <3>1 DEF LInv, AloneInv
      <3>2. CASE u = w
        BY <1>4, <1>11, <2>1, <3>2, TargetsFact
      <3>3. CASE v = w
        BY <1>4, <1>11, <2>1, <3>3, TargetsFact
      <3> QED
        BY <3>1, <3>2, <3>3
    <2>2. ASSUME NEW s \in Stored, NEW r \in Pending', s.id = r.id, r.pkg \notin raced'
          PROVE  s.children \subseteq r.children
      <3>1. CASE r \in Pending
        BY <1>12, <2>2, <3>1 DEF LInv, AloneInv
      <3>2. CASE r = own
        BY <1>1, <1>2, <1>7, <2>2, <3>2 DEF Held
      <3>3. CASE r = par /\ Adopts(parent, own)
        <4>1. s.pkg = q
          BY <1>3, <1>5, <2>2, <3>3 DEF IInv, HeldInv, Held
        <4> QED
          BY <1>3, <1>5, <3>3, <4>1
      <3> QED
        BY <1>10, <3>1, <3>2, <3>3
    <2> QED
      BY <1>10, <2>1, <2>2 DEF AloneInv
  \* What was registered under an older object is not registered under own.
  <1>14. ASSUME NEW c, under'[c.id] # nextObject PROVE Lists(under', own, c)
    BY <1>2, <1>14 DEF Lists
  <1>15. under'[nextObject] # nextObject /\ \A c \in Held : under'[c.id] # nextObject
    <2>1. \A o \in ObjectIds : under[o] < o /\ under[o] \in Nat
      BY KeyFact DEF LInv, UnderInv, IInv, TypeOK
    <2> QED
      BY <1>1, <1>3, <1>7, <1>8, <2>1
  <1>16. ASSUME NEW c \in Held, NEW r \in Held, Lists(under, r, c) PROVE Lists(under', r, c)
    BY <1>8, <1>16 DEF Lists
  <1>17. ASSUME NEW c \in Held, Adopts(parent, own), Lists(under, parent, c)
         PROVE  Lists(under', par, c)
    BY <1>3, <1>5, <1>8, <1>17 DEF Lists
  <1>18. ListInv'
    <2>1. ASSUME NEW c \in Stored, NEW r \in Held', r.pkg \notin raced' PROVE Lists(under', r, c)
      <3>1. CASE r \in Held
        BY <1>12, <1>16, <2>1, <3>1 DEF LInv, ListInv, Held
      <3>2. CASE r = own
        BY <1>14, <1>15, <3>2 DEF Held
      <3>3. CASE r = par /\ Adopts(parent, own)
        BY <1>3, <1>5, <1>12, <1>17, <2>1, <3>3 DEF LInv, ListInv, Held
      <3> QED
        BY <1>10, <3>1, <3>2, <3>3 DEF Held
    <2>2. ASSUME NEW v \in Workers \ {w}, Saving(v), NEW c \in Recs(job[v].saves)
          PROVE  /\ \A r \in Pending' : r.pkg \notin raced' => Lists(under', r, c)
                 /\ \A r \in Stored : r.pkg \notin raced' =>
                      Lists(under', r, c) \/ Yet(under', job'[v].saves, c, r.pkg)
      <3>1. c \in Held /\ c \in Pending
        BY <2>2 DEF Held, Pending
      <3>2. /\ \A r \in Pending : r.pkg \notin raced => Lists(under, r, c)
            /\ \A r \in Stored : r.pkg \notin raced =>
                 Lists(under, r, c) \/ Yet(under, job[v].saves, c, r.pkg)
        BY <2>2 DEF LInv, ListInv
      <3>3. \A x : Yet(under, job[v].saves, c, x) => Yet(under', job'[v].saves, c, x)
        BY <1>4, <1>8, <2>2, <3>1 DEF Yet
      <3>4. ASSUME Adopts(parent, own), par.pkg \notin raced' PROVE Lists(under', par, c)
        <4>1. ~Yet(under, job[v].saves, c, q)
          BY <1>4, <1>5, <1>11, <2>2, <3>4 DEF Yet
        <4>2. Lists(under, parent, c)
          BY <1>3, <1>5, <1>12, <3>2, <3>4, <4>1
        <4> QED
          BY <1>17, <3>1, <3>4, <4>2
      <3>5. Lists(under', own, c)
        BY <1>14, <1>15, <3>1
      <3> QED
        BY <1>10, <1>12, <1>16, <3>1, <3>2, <3>3, <3>4, <3>5 DEF Held
    <2>3. ASSUME NEW c \in Recs(saves)
          PROVE  /\ \A r \in Pending' : r.pkg \notin raced' => Lists(under', r, c)
                 /\ \A r \in Stored : r.pkg \notin raced' =>
                      Lists(under', r, c) \/ Yet(under', job'[w].saves, c, r.pkg)
      <3>1. CASE c = own
        <4>1. ASSUME NEW r \in Pending', r.pkg \notin raced' PROVE Lists(under', r, c)
          <5>1. CASE r = own
            BY <1>2, <1>14, <1>15, <3>1, <5>1
          <5>2. CASE r = par /\ Adopts(parent, own)
            BY <1>2, <1>5, <3>1, <5>2 DEF Lists
          <5>3. CASE r \in Pending /\ Adopts(parent, own)
            <6>1. par \in Recs(saves) /\ par.pkg = q
              BY <1>4, <1>5, <5>3
            <6>2. r.pkg # q
              BY <1>11, <4>1, <5>3, <6>1 DEF Pending
            <6> QED
              BY <1>2, <3>1, <6>2 DEF Lists
          <5>4. CASE r \in Pending /\ ~Adopts(parent, own)
            <6>1. SUFFICES ASSUME r.pkg = q, under'[nextObject] = r.id PROVE p \in r.children
              BY <1>2, <3>1 DEF Lists
            <6>2. r.id \in ObjectIds
              BY <1>7, <5>4 DEF Held
            <6>3. parent # Absent /\ r.id = parent.id
              BY <1>8, <6>1, <6>2, KeyFact
            <6>4. parent.children \subseteq r.children
              BY <1>3, <1>12, <4>1, <5>4, <6>3 DEF LInv, AloneInv
            <6> QED
              BY <1>6, <5>4, <6>3, <6>4
          <5> QED
            BY <1>10, <4>1, <5>1, <5>2, <5>3, <5>4
        <4>2. ASSUME NEW r \in Stored PROVE Lists(under', r, c) \/ Yet(under', job'[w].saves, c, r.pkg)
          <5>1. SUFFICES ASSUME r.pkg = q PROVE Lists(under', r, c) \/ Yet(under', job'[w].saves, c, r.pkg)
            BY <1>2, <3>1 DEF Lists
          <5>2. r = parent /\ parent # Absent
            BY <1>3, <5>1
          <5>3. CASE Adopts(parent, own)
            <6>1. par \in Recs(job'[w].saves) /\ par.pkg = r.pkg /\ par.id = under'[c.id]
              BY <1>2, <1>4, <1>5, <1>8, <3>1, <5>1, <5>2, <5>3
            <6> QED
              BY <6>1 DEF Yet
          <5>4. CASE ~Adopts(parent, own)
            BY <1>2, <1>6, <3>1, <5>2, <5>4 DEF Lists
          <5> QED
            BY <5>3, <5>4
        <4> QED
          BY <4>1, <4>2
      <3>2. CASE c = par /\ Adopts(parent, own)
        <4>1. /\ parent \in Held /\ parent \in Stored /\ c.parent = parent.parent
              /\ c.pkg = parent.pkg /\ c.id = parent.id
          BY <1>3, <1>5, <3>2 DEF Held
        <4>2. \A r : Lists(under', r, c) <=> Lists(under', r, parent)
          BY <4>1 DEF Lists
        <4>3. ASSUME NEW r \in Held, r.pkg \notin raced' PROVE Lists(under', r, c)
          BY <1>12, <1>16, <4>1, <4>2, <4>3 DEF LInv, ListInv
        <4>4. Lists(under', own, c)
          BY <1>14, <1>15, <4>1
        <4>5. par.pkg \notin raced' => Lists(under', par, c)
          <5>1. par.pkg \notin raced' => Lists(under, parent, parent)
            BY <1>5, <1>12, <3>2, <4>1 DEF LInv, ListInv
          <5> QED
            BY <1>17, <3>2, <4>1, <4>2, <5>1
        <4> QED
          BY <1>10, <4>3, <4>4, <4>5 DEF Held
      <3> QED
        BY <1>4, <2>3, <3>1, <3>2
    <2> QED
      BY <1>4, <1>10, <2>1, <2>2, <2>3 DEF ListInv
  <1> QED
    BY <1>9, <1>13, <1>18 DEF LInv

-----------------------------------------------------------------------------
(* The theorems                                                             *)

LEMMA NextIInv == IInv /\ [Next]_vars => IInv'
  <1> SUFFICES ASSUME IInv, [Next]_vars PROVE IInv'
    OBVIOUS
  <1>1. CASE UNCHANGED vars
    BY <1>1, AnswerNowIInv DEF vars, storeVars, handlerVars, ghostVars
  <1>2. CASE Crash
    BY <1>2, CrashIInv
  <1>3. ASSUME NEW w \in Workers, Request(w) PROVE IInv'
    <2>1. PICK p \in Packages :
            \/ \E q \in Parents \cup {NoParent} :
                 RegisterBegin(w, p, q) \/ RegisterRefused(w, p, q)
            \/ LineageBegin(w, p) \/ LineageAtOnce(w, p) \/ NotFound(w, p)
      BY <1>3 DEF Request
    <2>2. ASSUME NEW q \in Parents \cup {NoParent}, RegisterBegin(w, p, q) PROVE IInv'
      BY <2>2, RegisterBeginIInv
    <2>3. ASSUME NEW q \in Parents \cup {NoParent}, RegisterRefused(w, p, q) PROVE IInv'
      BY <2>3, AnswerNowIInv DEF RegisterRefused, AnswerNow
    <2>4. CASE LineageBegin(w, p)
      BY <2>4, LineageBeginIInv
    <2>5. CASE LineageAtOnce(w, p) \/ NotFound(w, p)
      BY <2>5, AnswerNowIInv DEF LineageAtOnce, NotFound, AnswerNow
    <2> QED
      BY <2>1, <2>2, <2>3, <2>4, <2>5
  <1>4. ASSUME NEW w \in Workers, Step(w) PROVE IInv'
    BY <1>4, OpenIInv, FlushIInv, WalkClimbsIInv, WalkAnswersIInv DEF Step
  <1> QED
    BY <1>1, <1>2, <1>3, <1>4 DEF Next

LEMMA NextLInv == IInv /\ LInv /\ [Next]_vars => LInv'
  <1> SUFFICES ASSUME IInv, LInv, [Next]_vars PROVE LInv'
    OBVIOUS
  <1>1. ASSUME UNCHANGED <<files, phase, job, under, raced>> PROVE LInv'
    BY <1>1, NothingSavedLInv DEF Saving
  <1>2. CASE UNCHANGED vars
    BY <1>1, <1>2 DEF vars, storeVars, handlerVars, ghostVars
  <1>3. CASE Crash
    BY <1>3, NothingSavedLInv DEF Crash, Saving
  <1>4. ASSUME NEW w \in Workers, Request(w) PROVE LInv'
    <2>1. PICK p \in Packages :
            \/ \E q \in Parents \cup {NoParent} :
                 RegisterBegin(w, p, q) \/ RegisterRefused(w, p, q)
            \/ LineageBegin(w, p) \/ LineageAtOnce(w, p) \/ NotFound(w, p)
      BY <1>4 DEF Request
    <2>2. ASSUME NEW q \in Parents \cup {NoParent}, RegisterBegin(w, p, q) PROVE LInv'
      BY <2>2, RegisterBeginLInv
    <2>3. ASSUME NEW q \in Parents \cup {NoParent}, RegisterRefused(w, p, q) PROVE LInv'
      BY <1>1, <2>3 DEF RegisterRefused, AnswerNow, storeVars, ghostVars
    <2>4. CASE LineageBegin(w, p)
      <3>1. \A v \in Workers : Saving(v)' => Saving(v) /\ job'[v] = job[v]
        BY <2>4 DEF LineageBegin, Saving, IInv, TypeOK
      <3> QED
        BY <2>4, <3>1, NothingSavedLInv DEF LineageBegin, storeVars, ghostVars
    <2>5. CASE LineageAtOnce(w, p) \/ NotFound(w, p)
      BY <1>1, <2>5 DEF LineageAtOnce, NotFound, AnswerNow, storeVars, ghostVars
    <2> QED
      BY <2>1, <2>2, <2>3, <2>4, <2>5
  <1>5. ASSUME NEW w \in Workers, Step(w) PROVE LInv'
    <2>1. CASE Open(w)
      <3>1. \A v \in Workers : Saving(v)' => Saving(v) /\ job'[v] = job[v]
        BY <2>1, DisturbFact DEF Open, Saving, IInv, TypeOK
      <3>2. \A p \in Packages : Parses(files[p])' => files'[p] = files[p]
        BY <2>1 DEF Open, IInv, TypeOK, Parses, Truncated, NotAText, Keys
      <3> QED
        BY <2>1, <3>1, <3>2, NothingSavedLInv DEF Open, ghostVars
    <2>2. CASE Flush(w)
      BY <2>2, FlushLInv
    <2>3. CASE WalkClimbs(w)
      <3>1. \A v \in Workers : Saving(v)' => Saving(v) /\ job'[v] = job[v]
        BY <2>3 DEF WalkClimbs, Saving, IInv, TypeOK
      <3> QED
        BY <2>3, <3>1, NothingSavedLInv DEF WalkClimbs, storeVars, ghostVars
    <2>4. CASE WalkAnswers(w)
      <3>1. \A v \in Workers : Saving(v)' => Saving(v) /\ job'[v] = job[v]
        BY <2>4 DEF WalkAnswers, Saving, IInv, TypeOK
      <3> QED
        BY <2>4, <3>1, NothingSavedLInv DEF WalkAnswers, storeVars, ghostVars
    <2> QED
      BY <1>5, <2>1, <2>2, <2>3, <2>4 DEF Step
  <1> QED
    BY <1>2, <1>3, <1>4, <1>5 DEF Next

LEMMA Invariance == Spec => []IInv
  BY InitIInv, NextIInv, PTL DEF Spec

\* Every reachable state has the types: what handlers hold in their local
\* variables is what register_object() and lineage() can have put there.
THEOREM TypeCorrect == Spec => []TypeOK
  <1>1. IInv => TypeOK
    BY DEF IInv
  <1> QED
    BY <1>1, Invariance, PTL

\* A lineage walk never comes back to a package it has visited, although
\* objects are registered under other parents while it climbs.
THEOREM WalksNeverReturn == Spec => []WalkNeverReturns
  <1>1. IInv => WalkNeverReturns
    BY DEF IInv
  <1> QED
    BY <1>1, Invariance, PTL

\* No later save, race or crash takes a child off a parent's object that
\* its own handler added alone.
THEOREM AdoptionsSurvive == Spec => []SoloAdoptionsSurvive
  <1>1. IInv => SoloAdoptionsSurvive
    BY HeldFact DEF IInv, HeldInv, SoloAdoptionsSurvive
  <1> QED
    BY <1>1, Invariance, PTL

\* An object whose registration found its parent's object is stored only
\* after that object lists it, and no crash or later save undoes that, unless
\* handlers race each other on the parent's object.
THEOREM ChildrenAreListed == Spec => []ChildIsListed
  <1>1. Spec => []LInv
    BY InitLInv, NextLInv, Invariance, PTL DEF Spec
  <1>2. IInv /\ LInv => ChildIsListed
    <2> SUFFICES ASSUME IInv, LInv, NEW p \in Packages, NEW q \in Packages,
                        Parses(files[p]), Parses(files[q]), q \notin raced,
                        files[p].text.parent = q,
                        under[files[p].text.id] = files[q].text.id
                 PROVE  p \in files[q].text.children
      BY DEF ChildIsListed
    <2>1. files[p].text \in Stored /\ files[q].text \in Held
      BY DEF Stored, Held
    <2>2. files[p].text.pkg = p /\ files[q].text.pkg = q
      BY DEF IInv, OrderInv
    <2> QED
      BY <2>1, <2>2 DEF LInv, ListInv, Lists
  <1> QED
    BY <1>1, <1>2, Invariance, PTL

-----------------------------------------------------------------------------
(* The two copies of an object                                              *)

\* Nobody is between the first truncation and the last write of p's object.
Settled(p) ==
  \A w \in Workers :
    Saving(w) /\ Now(w).rec.pkg = p => phase[w] = "saving" /\ Now(w).key # p

\* The copy under p is backed by the one under the object's id.
Backed(p) ==
  LET own == files[files[p].text.id] IN
  /\ Exists(own)
  /\ Parses(own) => files[p].text.children \subseteq own.text.children
  /\ p \notin cut /\ Settled(p) => own.text = files[p].text

\* The one saver of p's object finds the file it has truncated as it left it,
\* and writes under p only what is stored under the object's id.
SaverInv(p) ==
  \A w \in Workers :
    Saving(w) /\ Now(w).rec.pkg = p =>
      /\ phase[w] = "opened" => files[Now(w).key] = Truncated
      /\ Now(w).key = p => files[Now(w).rec.id].text = Now(w).rec

KeyInv ==
  /\ \A w \in Workers : Saving(w) => Paired(job[w].saves)
  /\ \A p \in Packages \ raced : (Parses(files[p]) => Backed(p)) /\ SaverInv(p)

LEMMA PairedTail ==
  ASSUME NEW s \in Seq(Save) \ {<<>>}, Paired(s)
  PROVE  /\ Paired(Tail(s))
         /\ Head(s).key \in Packages /\ Tail(s) # <<>> => Head(Tail(s)).key \notin Packages
  <1> DEFINE n == Len(s)
             t == Tail(s)
  <1>1. n \in Nat \ {0} /\ DOMAIN s = 1..n /\ 1 \in DOMAIN s /\ Head(s) = s[1]
    OBVIOUS
  <1>2. t \in Seq(Save) /\ Len(t) = n - 1 /\ DOMAIN t = 1..(n - 1)
        /\ \A i \in 1..(n - 1) : t[i] = s[i + 1]
    BY <1>1
  <1>3. t # <<>> => 1 \in 1..(n - 1) /\ Head(t) = t[1]
    BY <1>1, <1>2
  <1> HIDE DEF t, n
  <1>4. ASSUME NEW i \in DOMAIN t, t[i].key \in Packages, i + 1 \in DOMAIN t
        PROVE  t[i + 1].key \notin Packages
    <2>1. /\ i + 1 \in DOMAIN s /\ (i + 1) + 1 \in DOMAIN s
          /\ t[i] = s[i + 1] /\ t[i + 1] = s[(i + 1) + 1]
      BY <1>1, <1>2, <1>4
    <2> QED
      BY <1>4, <2>1 DEF Paired
  <1>5. Head(s).key \in Packages /\ t # <<>> => Head(t).key \notin Packages
    <2>1. t # <<>> => 1 + 1 \in DOMAIN s /\ t[1] = s[1 + 1]
      BY <1>1, <1>2, <1>3
    <2> QED
      BY <1>1, <1>3, <2>1 DEF Paired
  <1> QED
    BY <1>4, <1>5 DEF Paired, t

\* What a handler saves next goes under the object's id or its package.
LEMMA NextKeyFact ==
  ASSUME IInv, NEW w \in Workers, Saving(w)
  PROVE  Now(w).key = Now(w).rec.id \/ Now(w).key = Now(w).rec.pkg
  <1> DEFINE s == job[w].saves
  <1>1. s \in Seq(Save) \ {<<>>} /\ Ordered(s) /\ Now(w) = Head(s)
    BY JobFact DEF Now
  <1> HIDE DEF s
  <1>2. Head(s) = s[1] /\ 1 \in DOMAIN s
    BY <1>1
  <1>3. s[1].key \in {s[1].rec.id, s[1].rec.pkg}
    BY <1>1, <1>2 DEF Ordered
  <1> QED
    BY <1>1, <1>2, <1>3

\* What a handler saves next is not the file of another package's object.
LEMMA ElsewhereFact ==
  ASSUME IInv, NEW w \in Workers, Saving(w), NEW r \in Held, r.pkg # Now(w).rec.pkg
  PROVE  Now(w).key # r.id /\ Now(w).key # r.pkg
  <1>1. /\ Now(w).rec \in Held
        /\ Now(w).key = Now(w).rec.id \/ Now(w).key = Now(w).rec.pkg
        /\ Now(w).rec.id \in ObjectIds /\ Now(w).rec.pkg \in Packages
    BY NowFact, NextKeyFact
  <1>2. r.id \in ObjectIds /\ r.pkg \in Packages
    BY HeldFact DEF KnowledgeObject
  <1>3. r.id # Now(w).rec.id
    BY <1>1 DEF IInv, HeldInv
  <1> QED
    BY <1>1, <1>2, <1>3, KeyFact

\* A package that is not raced has one saver at most.
LEMMA SoleFact ==
  ASSUME IInv, LInv, NEW v \in Workers, NEW w \in Workers, Saving(v), Saving(w),
         Now(v).rec.pkg \notin raced, Now(v).rec.pkg = Now(w).rec.pkg
  PROVE  v = w
  <1>1. /\ Now(v).rec \in Recs(job[v].saves) /\ Now(w).rec \in Recs(job[w].saves)
    BY NowFact
  <1>2. /\ Now(v).rec.pkg \in Targets(job[v].saves)
        /\ Now(v).rec.pkg \in Targets(job[w].saves)
    BY <1>1, TargetsFact
  <1> QED
    BY <1>2 DEF LInv, AloneInv

LEMMA UnsavedSettled ==
  ASSUME IInv, NEW p \in Packages, ~Busy(p)
  PROVE  Settled(p)
  <1>1. \A w \in Workers : Saving(w) => Now(w).rec.pkg \in Targets(job[w].saves)
    BY NowFact, TargetsFact
  <1> QED
    BY <1>1 DEF Settled, Busy, SaversOf

LEMMA InitKeyInv == Init => KeyInv
  <1> SUFFICES ASSUME Init PROVE KeyInv
    OBVIOUS
  <1>1. \A w \in Workers : ~Saving(w)
    BY DEF Init, Saving
  <1>2. \A p \in Packages : ~Parses(files[p])
    BY DEF Init, NoFile, Parses, NotAText, Keys
  <1> QED
    BY <1>1, <1>2 DEF KeyInv, SaverInv

\* Steps that leave files and savers alone.
LEMMA NothingTouched ==
  ASSUME KeyInv, files' = files, raced \subseteq raced', cut \subseteq cut',
         \A v \in Workers : Saving(v)' =>
           Saving(v) /\ job'[v].saves = job[v].saves /\ phase'[v] = phase[v],
         \A p \in Packages \ cut' : Settled(p)' => Settled(p)
  PROVE  KeyInv'
  <1>1. \A v \in Workers : Saving(v)' => Now(v)' = Now(v)
    BY DEF Now
  <1>2. \A v \in Workers : Saving(v)' => Paired(job'[v].saves)
    BY DEF KeyInv
  <1>3. ASSUME NEW p \in Packages \ raced' PROVE (Parses(files[p])' => Backed(p)') /\ SaverInv(p)'
    <2>1. p \in Packages \ raced /\ (Parses(files[p]) => Backed(p)) /\ SaverInv(p)
      BY <1>3 DEF KeyInv
    <2>2. Parses(files[p])' => Backed(p)'
      BY <2>1 DEF Backed
    <2>3. SaverInv(p)'
      BY <1>1, <2>1 DEF SaverInv
    <2> QED
      BY <2>2, <2>3
  <1> QED
    BY <1>2, <1>3 DEF KeyInv

LEMMA OpenKeyInv ==
  ASSUME IInv, LInv, KeyInv, NEW w \in Workers, Open(w)
  PROVE  KeyInv'
  <1> DEFINE rec == Now(w).rec
             key == Now(w).key
  <1>1. /\ Saving(w) /\ rec \in Held /\ key \in Keys
        /\ rec.id \in ObjectIds /\ rec.pkg \in Packages
        /\ key \in Packages => key = rec.pkg
    BY NowFact DEF Open, Saving
  <1>2. /\ files' = [files EXCEPT ![key] = Truncated] /\ raced' = raced /\ cut' = cut
        /\ phase' = [phase EXCEPT ![w] = "opened"] /\ phase'[w] = "opened"
        /\ \A v \in Workers : Saving(v) => job'[v] = job[v]
    BY DisturbFact DEF Open, Now, ghostVars, IInv, TypeOK
  <1> HIDE DEF rec, key
  <1>3. \A v \in Workers : /\ Saving(v)' <=> Saving(v)
                           /\ v # w => phase'[v] = phase[v]
    BY <1>1, <1>2 DEF Saving, IInv, TypeOK
  <1>4. \A v \in Workers : Saving(v) => Now(v)' = Now(v)
    BY <1>2 DEF Now
  <1>5. \A v \in Workers : Saving(v)' => Paired(job'[v].saves)
    BY <1>2, <1>3 DEF KeyInv
  <1>6. files'[key] = Truncated /\ \A k \in Keys : k # key => files'[k] = files[k]
    BY <1>1, <1>2 DEF IInv, TypeOK
  <1>7. ~Parses(Truncated) /\ Exists(Truncated)
    BY ArtifactStoreAssumption DEF Parses, Exists, Truncated, NotAText
  <1>8. ASSUME NEW p \in Packages, p \notin raced
        PROVE  (Parses(files'[p]) => Backed(p)') /\ SaverInv(p)'
    <2>1. (Parses(files[p]) => Backed(p)) /\ SaverInv(p)
      BY <1>8 DEF KeyInv
    <2>2. CASE rec.pkg # p
      <3>1. key # p /\ files'[p] = files[p]
        BY <1>1, <1>6, <2>2 DEF Keys
      <3>2. Settled(p)' => Settled(p)
        BY <1>3, <1>4, <2>2 DEF Settled, rec
      <3>3. ASSUME Parses(files'[p]) PROVE Backed(p)'
        <4>1. files[p].text \in Held /\ files[p].text.pkg = p /\ Parses(files[p])
          BY <3>1, <3>3, HeldFact DEF IInv, OrderInv
        <4>2. files[p].text.id \in Keys
          BY <4>1, HeldFact DEF KnowledgeObject, Keys
        <4>3. files'[files[p].text.id] = files[files[p].text.id]
          BY <1>1, <1>6, <2>2, <4>1, <4>2, ElsewhereFact DEF key, rec
        <4> QED
          BY <1>2, <2>1, <3>1, <3>2, <4>1, <4>3 DEF Backed
      <3>4. ASSUME NEW v \in Workers, Saving(v)', Now(v)'.rec.pkg = p
            PROVE  /\ phase'[v] = "opened" => files'[Now(v)'.key] = Truncated
                   /\ Now(v)'.key = p => files'[Now(v)'.rec.id].text = Now(v)'.rec
        <4>1. v # w /\ Saving(v) /\ Now(v)' = Now(v) /\ phase'[v] = phase[v]
          BY <1>3, <1>4, <2>2, <3>4 DEF rec
        <4>2. /\ Now(v).rec \in Held /\ Now(v).rec.pkg = p /\ Now(v).key \in Keys
              /\ Now(v).rec.id \in Keys
              /\ Now(v).key = Now(v).rec.pkg \/ Now(v).key = Now(v).rec.id
          BY <3>4, <4>1, NowFact, NextKeyFact DEF Keys
        <4>3. files'[Now(v).key] = files[Now(v).key] /\ files'[Now(v).rec.id] = files[Now(v).rec.id]
          BY <1>1, <1>6, <2>2, <4>2, ElsewhereFact DEF key, rec
        <4> QED
          BY <2>1, <4>1, <4>2, <4>3 DEF SaverInv
      <3> QED
        BY <3>3, <3>4 DEF SaverInv
    <2>3. CASE rec.pkg = p
      <3>1. ~Settled(p)'
        <4>1. Saving(w)' /\ phase'[w] = "opened" /\ Now(w)'.rec.pkg = p
          BY <1>1, <1>2, <1>3, <1>4, <2>3 DEF rec
        <4> QED
          BY <4>1 DEF Settled
      <3>2. ASSUME Parses(files'[p]) PROVE Backed(p)'
        <4>1. key # p /\ files'[p] = files[p] /\ Parses(files[p])
          BY <1>6, <1>7, <3>2 DEF Keys
        <4>2. files[p].text.id \in Keys
          BY <4>1, HeldFact DEF KnowledgeObject, Keys
        <4> QED
          BY <1>6, <1>7, <2>1, <3>1, <4>1, <4>2 DEF Backed
      <3>3. ASSUME NEW v \in Workers, Saving(v)', Now(v)'.rec.pkg = p
            PROVE  /\ phase'[v] = "opened" => files'[Now(v)'.key] = Truncated
                   /\ Now(v)'.key = p => files'[Now(v)'.rec.id].text = Now(v)'.rec
        <4>1. v = w /\ Now(v)' = Now(w)
          BY <1>1, <1>3, <1>4, <1>8, <2>3, <3>3, SoleFact DEF rec
        <4>2. files'[Now(v)'.key] = Truncated
          BY <1>6, <4>1 DEF key
        <4>3. ASSUME key = p PROVE files'[rec.id].text = rec
          <5>1. rec.id # key /\ rec.id \in Keys
            BY <1>1, <4>3, KeyFact DEF Keys
          <5> QED
            BY <1>1, <1>6, <2>1, <2>3, <4>3, <5>1 DEF SaverInv, rec, key
        <4> QED
          BY <4>1, <4>2, <4>3 DEF rec, key
      <3> QED
        BY <3>2, <3>3 DEF SaverInv
    <2> QED
      BY <2>2, <2>3
  <1> QED
    BY <1>2, <1>5, <1>8 DEF KeyInv

LEMMA FlushKeyInv ==
  ASSUME IInv, LInv, KeyInv, NEW w \in Workers, Flush(w)
  PROVE  KeyInv'
  <1> DEFINE rec == Now(w).rec
             key == Now(w).key
             rest == Rest(w)
  <1>1. /\ Saving(w) /\ phase[w] = "opened" /\ rec \in Held /\ rec \in Pending
        /\ key \in Keys /\ rec.id \in ObjectIds /\ rec.pkg \in Packages /\ rec.size \in Nat
        /\ rec \in KnowledgeObject /\ rec # Absent
        /\ key = rec.id \/ key = rec.pkg
    <2>1. Saving(w) /\ phase[w] = "opened"
      BY DEF Flush, Saving
    <2>2. /\ rec \in Recs(job[w].saves) /\ rec \in Held
          /\ key \in Keys /\ rec.id \in ObjectIds /\ rec.pkg \in Packages /\ rec.size \in Nat
          /\ rec \in KnowledgeObject
      BY <2>1, NowFact
    <2>3. rec \in Pending
      BY <2>1, <2>2 DEF Pending
    <2>4. rec # Absent
      <3> HIDE DEF rec
      <3> QED
        BY <2>2, SentinelAssumption DEF NotAText
    <2> QED
      BY <2>1, <2>2, <2>3, <2>4, NextKeyFact
  <1>2. /\ files' = [files EXCEPT ![key] = Written(files[key], rec)]
        /\ raced' = raced /\ cut' = cut
        /\ \A v \in Workers : Saving(v)' =>
              /\ Saving(v)
              /\ v # w => job'[v] = job[v]
              /\ v = w => rest # <<>> /\ job'[v].saves = rest
    BY FlushFact
  <1>3. /\ \A v \in Workers : v # w => phase'[v] = phase[v] /\ (Saving(v) => Saving(v)' /\ job'[v] = job[v])
        /\ Saving(w)' => phase'[w] = "saving"
        /\ rest # <<>> => Saving(w)'
    BY DisturbFact DEF Flush, Rest, Saving, IInv, TypeOK
  <1>4. \A v \in Workers : v # w /\ Saving(v)' => Now(v)' = Now(v)
    BY <1>2 DEF Now
  <1>5. /\ Paired(rest)
        /\ key \in Packages /\ rest # <<>> => Head(rest).key \notin Packages
        /\ key \notin Packages => rest # <<>> /\ Head(rest) = [key |-> rec.pkg, rec |-> rec]
    <2> DEFINE s == job[w].saves
    <2>1. s \in Seq(Save) \ {<<>>} /\ Paired(s) /\ Ordered(s)
      BY <1>1, JobFact DEF KeyInv
    <2>2. rest = Tail(s) /\ Now(w) = Head(s)
      BY DEF Rest, Now
    <2> HIDE DEF s, rest
    <2>3. Head(s) = s[1]
      BY <2>1
    <2>4. Tail(s) \in Seq(Save) /\ (Tail(s) # <<>> => Head(Tail(s)) = Tail(s)[1])
      BY <2>1
    <2>5. Head(s).key \notin Packages =>
            Tail(s) # <<>> /\ Tail(s)[1] = [key |-> Head(s).rec.pkg, rec |-> Head(s).rec]
      BY <2>1, <2>3, TailFact
    <2>6. /\ Paired(Tail(s))
          /\ Head(s).key \in Packages /\ Tail(s) # <<>> => Head(Tail(s)).key \notin Packages
      BY <2>1, PairedTail
    <2> QED
      BY <2>2, <2>4, <2>5, <2>6
  <1>6. Saving(w)' => Now(w)' = Head(rest)
    BY <1>2 DEF Now
  <1> HIDE DEF rec, key, rest
  <1>7. \A v \in Workers : Saving(v)' => Paired(job'[v].saves)
    BY <1>2, <1>5 DEF KeyInv
  <1>8. /\ files'[key] = Written(files[key], rec)
        /\ \A k \in Keys : k # key => files'[k] = files[k]
    BY <1>1, <1>2 DEF IInv, TypeOK
  <1>9. ASSUME NEW p \in Packages, p \notin raced
        PROVE  (Parses(files'[p]) => Backed(p)') /\ SaverInv(p)'
    <2>1. (Parses(files[p]) => Backed(p)) /\ SaverInv(p)
      BY <1>9 DEF KeyInv
    <2>2. CASE rec.pkg # p
      <3>1. key # p /\ files'[p] = files[p]
        BY <1>1, <1>8, <1>9, <2>2, KeyFact DEF Keys
      <3>2. Settled(p)' => Settled(p)
        BY <1>3, <1>4, <2>2 DEF Settled, rec
      <3>3. ASSUME Parses(files'[p]) PROVE Backed(p)'
        <4>1. files[p].text \in Held /\ files[p].text.pkg = p /\ Parses(files[p])
          BY <3>1, <3>3, HeldFact DEF IInv, OrderInv
        <4>2. files[p].text.id \in Keys
          BY <4>1, HeldFact DEF KnowledgeObject, Keys
        <4>3. files'[files[p].text.id] = files[files[p].text.id]
          BY <1>1, <1>8, <2>2, <4>1, <4>2, ElsewhereFact DEF key, rec
        <4> QED
          BY <1>2, <2>1, <3>1, <3>2, <4>1, <4>3 DEF Backed
      <3>4. ASSUME NEW v \in Workers, Saving(v)', Now(v)'.rec.pkg = p
            PROVE  /\ phase'[v] = "opened" => files'[Now(v)'.key] = Truncated
                   /\ Now(v)'.key = p => files'[Now(v)'.rec.id].text = Now(v)'.rec
        <4>1. CASE v = w
          \* The handler goes on to the next object.
          <5>1. phase'[v] = "saving" /\ Now(v)' = Head(rest)
            BY <1>3, <1>6, <3>4, <4>1
          <5>2. key \in Packages
            BY <1>5, <2>2, <3>4, <5>1
          <5>3. Now(v)'.key \notin Packages
            BY <1>2, <1>5, <3>4, <4>1, <5>1, <5>2
          <5> QED
            BY <5>1, <5>3
        <4>2. CASE v # w
          <5>1. Saving(v) /\ Now(v)' = Now(v) /\ phase'[v] = phase[v]
            BY <1>2, <1>3, <1>4, <3>4, <4>2
          <5>2. /\ Now(v).rec \in Held /\ Now(v).rec.pkg = p /\ Now(v).key \in Keys
                /\ Now(v).rec.id \in Keys
                /\ Now(v).key = Now(v).rec.pkg \/ Now(v).key = Now(v).rec.id
            BY <3>4, <5>1, NowFact, NextKeyFact DEF Keys
          <5>3. /\ files'[Now(v).key] = files[Now(v).key]
                /\ files'[Now(v).rec.id] = files[Now(v).rec.id]
            BY <1>1, <1>8, <2>2, <5>2, ElsewhereFact DEF key, rec
          <5> QED
            BY <2>1, <5>1, <5>2, <5>3 DEF SaverInv
        <4> QED
          BY <4>1, <4>2
      <3> QED
        BY <3>3, <3>4 DEF SaverInv
    <2>3. CASE rec.pkg = p /\ key = rec.id
      <3>1. key \notin Packages /\ key # p
        BY <1>1, <2>3, KeyFact
      <3>2. Saving(w)' /\ phase'[w] = "saving" /\ Now(w)' = [key |-> p, rec |-> rec]
        BY <1>3, <1>5, <1>6, <2>3, <3>1
      <3>3. files'[p] = files[p] /\ files'[rec.id].text = rec
        <4>1. files[key] = Truncated
          BY <1>1, <2>1, <2>3 DEF SaverInv, rec, key
        <4>2. Written(Truncated, rec).text = rec
          BY <1>1 DEF Written, Truncated
        <4> QED
          BY <1>8, <1>9, <2>3, <3>1, <4>1, <4>2 DEF Keys
      <3>4. ~Settled(p)'
        <4>1. Saving(w)' /\ Now(w)'.rec.pkg = p /\ Now(w)'.key = p
          BY <2>3, <3>2
        <4> QED
          BY <4>1 DEF Settled
      <3>5. Exists(files'[rec.id])
        BY <1>1, <3>3 DEF Exists
      <3>6. ASSUME Parses(files'[p]) PROVE Backed(p)'
        <4>1. files[p].text \in Stored /\ files[p].text \in Held /\ Parses(files[p])
          BY <3>3, <3>6, HeldFact DEF Stored
        <4>2. files[p].text.id \in Keys
          BY <4>1, HeldFact DEF KnowledgeObject, Keys
        <4>3. CASE files[p].text.id = rec.id
          <5>1. files[p].text.children \subseteq rec.children
            BY <1>1, <1>9, <2>3, <4>1, <4>3 DEF LInv, AloneInv
          <5> QED
            BY <3>3, <3>4, <3>5, <4>3, <5>1 DEF Backed
        <4>4. CASE files[p].text.id # rec.id
          <5>1. files'[files[p].text.id] = files[files[p].text.id]
            BY <1>8, <2>3, <4>2, <4>4
          <5> QED
            BY <2>1, <3>3, <3>4, <4>1, <5>1 DEF Backed
        <4> QED
          BY <4>3, <4>4
      <3>7. ASSUME NEW v \in Workers, Saving(v)', Now(v)'.rec.pkg = p
            PROVE  /\ phase'[v] = "opened" => files'[Now(v)'.key] = Truncated
                   /\ Now(v)'.key = p => files'[Now(v)'.rec.id].text = Now(v)'.rec
        <4>1. v = w
          BY <1>1, <1>2, <1>4, <1>9, <2>3, <3>7, SoleFact DEF rec
        <4> QED
          BY <3>2, <3>3, <4>1
      <3> QED
        BY <3>6, <3>7 DEF SaverInv
    <2>4. CASE rec.pkg = p /\ key = p
      <3>1. files'[p].text = rec
        <4>1. files[key] = Truncated
          BY <1>1, <2>1, <2>4 DEF SaverInv, rec, key
        <4>2. Written(Truncated, rec).text = rec
          BY <1>1 DEF Written, Truncated
        <4> QED
          BY <1>8, <2>4, <4>1, <4>2
      <3>2. files'[rec.id].text = rec
        <4>1. files[rec.id].text = rec
          BY <1>1, <2>1, <2>4 DEF SaverInv, rec, key
        <4>2. rec.id # p /\ rec.id \in Keys
          BY <1>1, KeyFact DEF Keys
        <4> QED
          BY <1>8, <2>4, <4>1, <4>2
      <3>3. Backed(p)'
        <4>1. Exists(files'[rec.id])
          BY <1>1, <3>2 DEF Exists
        <4> QED
          BY <3>1, <3>2, <4>1 DEF Backed
      <3>4. ASSUME NEW v \in Workers, Saving(v)', Now(v)'.rec.pkg = p
            PROVE  /\ phase'[v] = "opened" => files'[Now(v)'.key] = Truncated
                   /\ Now(v)'.key = p => files'[Now(v)'.rec.id].text = Now(v)'.rec
        <4>1. v = w
          BY <1>1, <1>2, <1>4, <1>9, <2>4, <3>4, SoleFact DEF rec
        <4>2. phase'[w] = "saving" /\ Now(w)'.key \notin Packages
          BY <1>2, <1>3, <1>5, <1>6, <2>4, <3>4, <4>1
        <4> QED
          BY <1>9, <4>1, <4>2
      <3> QED
        BY <3>3, <3>4 DEF SaverInv
    <2> QED
      BY <1>1, <2>2, <2>3, <2>4
  <1> QED
    BY <1>2, <1>7, <1>9 DEF KeyInv

LEMMA RegisterBeginKeyInv ==
  ASSUME IInv, KeyInv, NEW w \in Workers, NEW p \in Packages, NEW q \in Parents \cup {NoParent},
         RegisterBegin(w, p, q)
  PROVE  KeyInv'
  <1> DEFINE parent == FoundParent(q)
  <1>1. phase[w] = "idle" /\ ~Saving(w) /\ files' = files /\ cut' = cut
    BY RegisterFact DEF Saving
  <1>2. PICK own \in KnowledgeObject :
          own.id = nextObject /\ Begun(w, own, parent, AllSaves(parent, own))
    BY RegisterFact
  <1> DEFINE saves == AllSaves(parent, own)
  <1>3. /\ parent \in KnowledgeObject \cup {Absent}
        /\ parent # Absent => parent.id < own.id
    BY <1>2, RegisterFact, FoundParentFact
  <1>4. Paired(saves) /\ Head(saves).key \notin Packages
    <2>1. saves \in Seq(Save) \ {<<>>} /\ Paired(saves) /\ saves[1].key \in ObjectIds
      BY <1>3, AllSavesFact
    <2> HIDE DEF saves
    <2>2. Head(saves) = saves[1]
      BY <2>1
    <2> QED
      BY <2>1, <2>2, KeyFact
  <1> HIDE DEF parent, saves
  <1>5. /\ raced \subseteq raced' /\ job'[w].saves = saves /\ phase'[w] = "saving"
        /\ \A v \in Workers \ {w} :
             /\ Saving(v)' <=> Saving(v)
             /\ phase'[v] = phase[v]
             /\ Saving(v) => job'[v].saves = job[v].saves
    BY <1>2 DEF Begun, saves, Saving
  <1>6. /\ \A v \in Workers \ {w} : Saving(v) => Now(v)' = Now(v)
        /\ Now(w)' = Head(saves)
    BY <1>5 DEF Now
  <1>7. \A v \in Workers : Saving(v)' => Paired(job'[v].saves)
    BY <1>4, <1>5 DEF KeyInv
  <1>8. ASSUME NEW x \in Packages, x \notin raced'
        PROVE  (Parses(files'[x]) => Backed(x)') /\ SaverInv(x)'
    <2>1. (Parses(files[x]) => Backed(x)) /\ SaverInv(x)
      BY <1>5, <1>8 DEF KeyInv
    <2>2. Settled(x)' => Settled(x)
      BY <1>1, <1>5, <1>6 DEF Settled
    <2>3. Parses(files'[x]) => Backed(x)'
      BY <1>1, <2>1, <2>2 DEF Backed
    <2>4. SaverInv(x)'
      BY <1>1, <1>4, <1>5, <1>6, <1>8, <2>1 DEF SaverInv
    <2> QED
      BY <2>3, <2>4
  <1> QED
    BY <1>7, <1>8 DEF KeyInv

LEMMA NextKeyInv == IInv /\ LInv /\ KeyInv /\ [Next]_vars => KeyInv'
  <1> SUFFICES ASSUME IInv, LInv, KeyInv, [Next]_vars PROVE KeyInv'
    OBVIOUS
  <1>1. ASSUME UNCHANGED <<files, raced, cut>>,
               \A v \in Workers :
                 Saving(v) \/ Saving(v)' => job'[v] = job[v] /\ phase'[v] = phase[v]
        PROVE  KeyInv'
    <2>1. \A v \in Workers : Saving(v)' <=> Saving(v)
      BY <1>1 DEF Saving
    <2>2. \A v \in Workers : Saving(v) => Now(v)' = Now(v)
      BY <1>1 DEF Now
    <2>3. \A p : Settled(p)' => Settled(p)
      BY <1>1, <2>1, <2>2 DEF Settled
    <2> QED
      BY <1>1, <2>1, <2>3, NothingTouched
  <1>2. ASSUME UNCHANGED <<storeVars, phase, job, ghostVars>> PROVE KeyInv'
    BY <1>1, <1>2 DEF storeVars, ghostVars
  <1>3. CASE UNCHANGED vars
    BY <1>2, <1>3 DEF vars, handlerVars
  <1>4. CASE Crash
    <2>1. \A v \in Workers : ~Saving(v)'
      BY <1>4 DEF Crash, Saving
    <2>2. ASSUME NEW p \in Packages \ cut' PROVE Settled(p)
      <3>1. ~Busy(p)
        BY <1>4, <2>2 DEF Crash
      <3> QED
        BY <3>1, UnsavedSettled
    <2> QED
      BY <1>4, <2>1, <2>2, NothingTouched DEF Crash
  <1>5. ASSUME NEW w \in Workers, Request(w) PROVE KeyInv'
    <2>1. PICK p \in Packages :
            \/ \E q \in Parents \cup {NoParent} :
                 RegisterBegin(w, p, q) \/ RegisterRefused(w, p, q)
            \/ LineageBegin(w, p) \/ LineageAtOnce(w, p) \/ NotFound(w, p)
      BY <1>5 DEF Request
    <2>2. ASSUME NEW q \in Parents \cup {NoParent}, RegisterBegin(w, p, q) PROVE KeyInv'
      BY <2>2, RegisterBeginKeyInv
    <2>3. ASSUME NEW q \in Parents \cup {NoParent}, RegisterRefused(w, p, q) PROVE KeyInv'
      BY <1>2, <2>3 DEF RegisterRefused, AnswerNow
    <2>4. CASE LineageBegin(w, p)
      BY <1>1, <2>4 DEF LineageBegin, Saving, IInv, TypeOK, storeVars, ghostVars
    <2>5. CASE LineageAtOnce(w, p) \/ NotFound(w, p)
      BY <1>2, <2>5 DEF LineageAtOnce, NotFound, AnswerNow
    <2> QED
      BY <2>1, <2>2, <2>3, <2>4, <2>5
  <1>6. ASSUME NEW w \in Workers, Step(w) PROVE KeyInv'
    <2>1. CASE WalkClimbs(w)
      BY <1>1, <2>1 DEF WalkClimbs, Saving, IInv, TypeOK, storeVars, ghostVars
    <2>2. CASE WalkAnswers(w)
      BY <1>1, <2>2 DEF WalkAnswers, Saving, IInv, TypeOK, storeVars, ghostVars
    <2> QED
      BY <1>6, <2>1, <2>2, OpenKeyInv, FlushKeyInv DEF Step
  <1> QED
    BY <1>3, <1>4, <1>5, <1>6 DEF Next

\* Of two copies of an object that handlers never raced each other on, the
\* one under the object's id is there and knows all that the other knows,
\* also after a crash between the two saves; with no save under way and none
\* cut off by a crash, they are equal.
THEOREM CopiesAgree == Spec => []KeysAgree
  <1>1. Spec => []LInv
    BY InitLInv, NextLInv, Invariance, PTL DEF Spec
  <1>2. Spec => []KeyInv
    BY <1>1, InitKeyInv, NextKeyInv, Invariance, PTL DEF Spec
  <1>3. IInv /\ KeyInv => KeysAgree
    BY UnsavedSettled DEF KeyInv, Backed, KeysAgree
  <1> QED
    BY <1>2, <1>3, Invariance, PTL

-----------------------------------------------------------------------------
(* Walks are exact.  What a walk has climbed is the line of ancestors as    *)
(* long as nothing is saved.                                                *)

Climbed(walk) ==
  LET line == <<walk.pkg>> \o walk.ancestors
      last == line[Len(line)]
  IN  /\ \A i \in 1..Len(walk.ancestors) :
           Parses(files[line[i]]) /\ files[line[i]].text.parent = walk.ancestors[i]
      /\ Exists(files[last]) => Parses(files[last])
      /\ walk.parent = ParentOf(last)

ClimbInv == \A w \in Workers : phase[w] = "walking" /\ job[w].calm => Climbed(job[w])

\* The line of p and its ancestors s.
LEMMA LineFact ==
  ASSUME NEW p \in Packages, NEW s \in Seq(Packages), NEW line, line = <<p>> \o s
  PROVE  /\ Len(s) \in Nat /\ Len(line) = Len(s) + 1 /\ DOMAIN line = 1..(Len(s) + 1)
         /\ line[1] = p /\ \A i \in 1..Len(s) : line[i + 1] = s[i]
         /\ ToSet(line) = {p} \cup ToSet(s)
         /\ \A i \in 1..(Len(s) + 1) : line[i] \in Packages
  <1> DEFINE n == Len(s)
  <1>1. /\ n \in Nat /\ Len(line) = n + 1 /\ DOMAIN line = 1..(n + 1) /\ DOMAIN s = 1..n
        /\ line[1] = p /\ \A i \in 1..n : line[i + 1] = s[i] /\ s[i] \in Packages
    OBVIOUS
  <1> HIDE DEF n
  <1>2. \A i \in 1..(n + 1) : i = 1 \/ (i - 1 \in 1..n /\ i = (i - 1) + 1)
    BY <1>1
  <1>3. \A i \in 1..(n + 1) : line[i] = p \/ line[i] = s[i - 1]
    BY <1>1, <1>2
  <1>4. ToSet(line) \subseteq {p} \cup ToSet(s)
    BY <1>1, <1>2, <1>3 DEF ToSet
  <1>5. {p} \cup ToSet(s) \subseteq ToSet(line)
    <2>1. 1 \in 1..(n + 1) /\ \A i \in 1..n : i + 1 \in 1..(n + 1)
      BY <1>1
    <2> QED
      BY <1>1, <2>1 DEF ToSet
  <1> QED
    BY <1>1, <1>2, <1>3, <1>4, <1>5 DEF n

LEMMA LineSet ==
  ASSUME NEW p \in Packages, NEW s \in Seq(Packages)
  PROVE  ToSet(<<p>> \o s) = {p} \cup ToSet(s)
  <1> DEFINE line == <<p>> \o s
  <1>1. line = <<p>> \o s
    OBVIOUS
  <1> HIDE DEF line
  <1>2. ToSet(line) = {p} \cup ToSet(s)
    BY <1>1, LineFact
  <1> QED
    BY <1>2 DEF line

\* A walk has climbed to its first package.
LEMMA ClimbBegins ==
  ASSUME NEW p \in Packages, NEW walk, walk.pkg = p, walk.ancestors = <<>>,
         walk.parent = ParentOf(p), Exists(files[p]) => Parses(files[p])
  PROVE  Climbed(walk)
  <1>1. <<p>> \o <<>> = <<p>> /\ Len(<<p>>) = 1 /\ <<p>>[1] = p /\ 1..Len(<<>>) = {}
    OBVIOUS
  <1> QED
    BY <1>1 DEF Climbed

\* A walk climbs to the parent that it has read.
LEMMA ClimbGoesOn ==
  ASSUME TypeOK, NEW walk \in Walk, Climbed(walk), GoesOn(walk),
         NEW next, next.pkg = walk.pkg, next.ancestors = Append(walk.ancestors, walk.parent),
         next.parent = ParentOf(walk.parent),
         Exists(files[walk.parent]) => Parses(files[walk.parent])
  PROVE  Climbed(next)
  <1> DEFINE p == walk.pkg
             s == walk.ancestors
             q == walk.parent
             n == Len(s)
             line == <<p>> \o s
             t == Append(s, q)
             longer == <<p>> \o t
  <1>1. p \in Packages /\ s \in Seq(Packages) /\ q \in Packages
    BY DEF Walk, GoesOn
  <1>2. t \in Seq(Packages) /\ Len(t) = n + 1 /\ t[n + 1] = q /\ \A i \in 1..n : t[i] = s[i]
    BY <1>1
  <1> HIDE DEF t
  <1>3. /\ n \in Nat /\ Len(line) = n + 1 /\ line[1] = p
        /\ \A i \in 1..n : line[i + 1] = s[i]
    BY <1>1, LineFact
  <1>4. /\ Len(longer) = (n + 1) + 1 /\ longer[1] = p
        /\ \A i \in 1..(n + 1) : longer[i + 1] = t[i]
    BY <1>1, <1>2, LineFact
  <1>5. /\ \A i \in 1..n : Parses(files[line[i]]) /\ files[line[i]].text.parent = s[i]
        /\ q = ParentOf(line[Len(line)])
    BY DEF Climbed
  <1>6. /\ Exists(files[line[Len(line)]]) => Parses(files[line[Len(line)]])
        /\ Exists(files[q]) => Parses(files[q])
    BY DEF Climbed
  <1>7. next.pkg = p /\ next.ancestors = t /\ next.parent = ParentOf(q) /\ q # NoParent
    BY DEF GoesOn, t
  <1> HIDE DEF line, longer, p, s, q, n
  <1>8. longer[Len(longer)] = q
    BY <1>2, <1>3, <1>4
  <1>9. \A i \in 1..(n + 1) : longer[i] = line[i]
    <2> SUFFICES ASSUME NEW i \in 1..(n + 1) PROVE longer[i] = line[i]
      OBVIOUS
    <2>1. CASE i = 1
      BY <1>3, <1>4, <2>1
    <2>2. CASE i # 1
      <3>1. i - 1 \in 1..n /\ i - 1 \in 1..(n + 1) /\ i = (i - 1) + 1
        BY <1>3, <2>2
      <3> QED
        BY <1>2, <1>3, <1>4, <3>1
    <2> QED
      BY <2>1, <2>2
  <1>10. Parses(files[line[n + 1]]) /\ files[line[n + 1]].text.parent = q
    BY <1>3, <1>5, <1>6, <1>7 DEF ParentOf
  <1>11. \A i \in 1..(n + 1) : Parses(files[longer[i]]) /\ files[longer[i]].text.parent = t[i]
    <2> SUFFICES ASSUME NEW i \in 1..(n + 1)
                 PROVE  Parses(files[line[i]]) /\ files[line[i]].text.parent = t[i]
      BY <1>9
    <2>1. i = n + 1 \/ i \in 1..n
      BY <1>3
    <2> QED
      BY <1>2, <1>5, <1>10, <2>1
  <1> QED
    BY <1>2, <1>6, <1>7, <1>8, <1>11 DEF Climbed, longer

LEMMA SameFiles ==
  ASSUME UNCHANGED files, NEW walk, Climbed(walk)
  PROVE  Climbed(walk)'
  BY DEF Climbed, ParentOf

\* Walks that the step neither extends nor disturbs.
LEMMA ClimbsStay ==
  ASSUME ClimbInv, UNCHANGED files,
         \A v \in Workers : phase'[v] = "walking" => phase[v] = "walking" /\ job'[v] = job[v]
  PROVE  ClimbInv'
  <1> SUFFICES ASSUME NEW v \in Workers, phase'[v] = "walking", job'[v].calm
               PROVE  Climbed(job[v])'
    BY DEF ClimbInv
  <1>1. Climbed(job'[v])
    BY DEF ClimbInv
  <1> QED
    BY <1>1, SameFiles

\* Walks that the step disturbs.
LEMMA ClimbsDisturbed ==
  ASSUME IInv, job' = Disturb(job),
         \A v \in Workers : phase'[v] = "walking" => phase[v] = "walking"
  PROVE  \A v \in Workers : phase'[v] = "walking" => ~job'[v].calm
  <1>1. \A v \in Workers : phase[v] = "walking" => job[v] \in Walk
    BY DEF IInv, TypeOK
  <1> QED
    BY <1>1 DEF Disturb, Walk

LEMMA LineageBeginClimb ==
  ASSUME IInv, ClimbInv, NEW w \in Workers, NEW p \in Packages, LineageBegin(w, p)
  PROVE  ClimbInv'
  <1> DEFINE walk == [pkg |-> p, parent |-> ParentOf(p), ancestors |-> <<>>, calm |-> TRUE]
  <1>1. /\ job'[w] = walk /\ UNCHANGED files /\ Parses(files[p])
        /\ \A v \in Workers \ {w} : job'[v] = job[v] /\ phase'[v] = phase[v]
    BY DEF LineageBegin, storeVars, IInv, TypeOK
  <1>2. walk.pkg = p /\ walk.ancestors = <<>> /\ walk.parent = ParentOf(p)
    OBVIOUS
  <1> HIDE DEF walk
  <1>3. Climbed(walk)
    BY <1>1, <1>2, ClimbBegins
  <1> SUFFICES ASSUME NEW v \in Workers, phase'[v] = "walking", job'[v].calm
               PROVE  Climbed(job[v])'
    BY DEF ClimbInv
  <1>4. Climbed(job'[v])
    BY <1>1, <1>3 DEF ClimbInv
  <1> QED
    BY <1>1, <1>4, SameFiles

LEMMA WalkClimbsClimb ==
  ASSUME IInv, ClimbInv, NEW w \in Workers, WalkClimbs(w)
  PROVE  ClimbInv'
  <1> DEFINE q == job[w].parent
             next == job'[w]
  <1>1. /\ phase[w] = "walking" /\ GoesOn(job[w]) /\ UNCHANGED <<files, phase>>
        /\ Exists(files[q]) => Parses(files[q])
        /\ job' = [job EXCEPT ![w].parent = ParentOf(q), ![w].ancestors = Append(@, q)]
    BY DEF WalkClimbs, storeVars
  <1>2. /\ next = [job[w] EXCEPT !.parent = ParentOf(q), !.ancestors = Append(@, q)]
        /\ \A v \in Workers \ {w} : job'[v] = job[v]
        /\ job[w] \in Walk
    BY <1>1 DEF IInv, TypeOK
  <1>3. /\ next.pkg = job[w].pkg /\ next.ancestors = Append(job[w].ancestors, q)
        /\ next.parent = ParentOf(q) /\ next.calm = job[w].calm
    BY <1>2 DEF Walk
  <1> HIDE DEF next
  <1>4. job[w].calm => Climbed(next)
    BY <1>1, <1>2, <1>3, ClimbGoesOn DEF IInv, ClimbInv
  <1> SUFFICES ASSUME NEW v \in Workers, phase'[v] = "walking", job'[v].calm
               PROVE  Climbed(job[v])'
    BY DEF ClimbInv
  <1>5. Climbed(job'[v])
    BY <1>1, <1>2, <1>3, <1>4 DEF ClimbInv, next
  <1> QED
    BY <1>1, <1>5, SameFiles

LEMMA NextClimb == IInv /\ ClimbInv /\ [Next]_vars => ClimbInv'
  <1> SUFFICES ASSUME IInv, ClimbInv, [Next]_vars PROVE ClimbInv'
    OBVIOUS
  <1>1. ASSUME UNCHANGED <<files, phase, job>> PROVE ClimbInv'
    BY <1>1, ClimbsStay
  <1>2. CASE UNCHANGED vars
    BY <1>1, <1>2 DEF vars, storeVars, handlerVars
  <1>3. CASE Crash
    BY <1>3 DEF Crash, ClimbInv
  <1>4. ASSUME NEW w \in Workers, Request(w) PROVE ClimbInv'
    <2>1. PICK p \in Packages :
            \/ \E q \in Parents \cup {NoParent} :
                 RegisterBegin(w, p, q) \/ RegisterRefused(w, p, q)
            \/ LineageBegin(w, p) \/ LineageAtOnce(w, p) \/ NotFound(w, p)
      BY <1>4 DEF Request
    <2>2. ASSUME NEW q \in Parents \cup {NoParent}, RegisterBegin(w, p, q) PROVE ClimbInv'
      <3>1. /\ UNCHANGED files /\ phase' = [phase EXCEPT ![w] = "saving"]
            /\ \A v \in Workers \ {w} : ~Saving(v) => job'[v] = job[v]
        BY <2>2 DEF RegisterBegin
      <3>2. \A v \in Workers :
              phase'[v] = "walking" => phase[v] = "walking" /\ job'[v] = job[v]
        BY <3>1 DEF Saving, IInv, TypeOK
      <3> QED
        BY <3>1, <3>2, ClimbsStay
    <2>3. ASSUME NEW q \in Parents \cup {NoParent}, RegisterRefused(w, p, q) PROVE ClimbInv'
      BY <1>1, <2>3 DEF RegisterRefused, AnswerNow, storeVars
    <2>4. CASE LineageBegin(w, p)
      BY <2>4, LineageBeginClimb
    <2>5. CASE LineageAtOnce(w, p) \/ NotFound(w, p)
      BY <1>1, <2>5 DEF LineageAtOnce, NotFound, AnswerNow, storeVars
    <2> QED
      BY <2>1, <2>2, <2>3, <2>4, <2>5
  <1>5. ASSUME NEW w \in Workers, Step(w) PROVE ClimbInv'
    <2>1. CASE Open(w)
      <3>1. \A v \in Workers : phase'[v] = "walking" => phase[v] = "walking"
        BY <2>1 DEF Open, IInv, TypeOK
      <3> QED
        BY <2>1, <3>1, ClimbsDisturbed DEF Open, ClimbInv
    <2>2. CASE Flush(w)
      <3>1. /\ \A v \in Workers : phase'[v] = "walking" => phase[v] = "walking" /\ v # w
            /\ \A v \in Workers \ {w} : job'[v] = Disturb(job)[v]
        BY <2>2 DEF Flush, Disturb, IInv, TypeOK
      <3>2. \A v \in Workers : phase[v] = "walking" => ~Disturb(job)[v].calm
        BY DEF Disturb, IInv, TypeOK, Walk
      <3> QED
        BY <3>1, <3>2 DEF ClimbInv
    <2>3. CASE WalkClimbs(w)
      BY <2>3, WalkClimbsClimb
    <2>4. CASE WalkAnswers(w)
      <3>1. \A v \in Workers :
              phase'[v] = "walking" => phase[v] = "walking" /\ job'[v] = job[v]
        BY <2>4 DEF WalkAnswers, IInv, TypeOK
      <3> QED
        BY <2>4, <3>1, ClimbsStay DEF WalkAnswers, storeVars
    <2> QED
      BY <1>5, <2>1, <2>2, <2>3, <2>4 DEF Step
  <1> QED
    BY <1>2, <1>3, <1>4, <1>5 DEF Next

\* A walk that answers 200 has climbed to the end of the line.
LEMMA AnswersLineage ==
  ASSUME IInv, ClimbInv, NEW w \in Workers, phase[w] = "walking", job[w].calm,
         ~GoesOn(job[w])
  PROVE  IsLineage(job[w].pkg, job[w].ancestors)
  <1> DEFINE p == job[w].pkg
             s == job[w].ancestors
             line == <<p>> \o s
             last == line[Len(line)]
  <1>1. job[w] \in Walk /\ Climbed(job[w])
    BY DEF IInv, TypeOK, ClimbInv
  <1>2. p \in Packages /\ s \in Seq(Packages)
    BY <1>1 DEF Walk
  <1>3. ToSet(line) = {p} \cup ToSet(s)
    BY <1>2, LineSet
  <1>4. job[w].parent \in {NoParent} \cup ToSet(line)
    BY <1>3 DEF GoesOn, Visited
  <1>5. Exists(files[last]) => files[last].text.parent = job[w].parent
    BY <1>1 DEF Climbed, ParentOf
  <1>6. \A i \in 1..Len(s) : Parses(files[line[i]]) /\ files[line[i]].text.parent = s[i]
    BY <1>1 DEF Climbed
  <1>7. \A i, j \in DOMAIN line : line[i] = line[j] => i = j
    BY DEF IInv, WalkNeverReturns
  <1> QED
    BY <1>4, <1>5, <1>6, <1>7 DEF IsLineage

\* What a lineage request answers, if nothing is saved while it walks, is the
\* line of ancestors up to the package where it ends or closes a cycle: also
\* when parents have no object, or a crash has left what cannot be read.
THEOREM WalksAreExact == Spec => WalkIsExact
  <1>1. ASSUME IInv, ClimbInv, [Next]_vars, NEW w \in Workers, phase[w] = "walking",
               job[w].calm, phase'[w] = "idle", answer' = "200"
        PROVE  IsLineage(job[w].pkg, job[w].ancestors)
    <2>1. phase \in [Workers -> {"idle", "saving", "opened", "walking"}]
      BY <1>1 DEF IInv, TypeOK
    <2>2. ~UNCHANGED phase
      BY <1>1
    <2>3. PICK v \in Workers : Request(v) \/ Step(v)
      BY <1>1, <2>2 DEF Next, vars, handlerVars, Crash
    <2>4. ASSUME NEW p, NEW q, RegisterBegin(v, p, q) PROVE FALSE
      BY <1>1, <2>4 DEF RegisterBegin
    <2>5. ASSUME NEW p, LineageBegin(v, p) PROVE FALSE
      BY <1>1, <2>5 DEF LineageBegin
    <2>6. ASSUME NEW p, NEW q, RegisterRefused(v, p, q) \/ LineageAtOnce(v, p) \/ NotFound(v, p)
          PROVE  FALSE
      BY <2>2, <2>6 DEF RegisterRefused, LineageAtOnce, NotFound, AnswerNow
    <2>7. ~Request(v)
      BY <2>4, <2>5, <2>6 DEF Request
    <2>8. v = w
      BY <1>1, <2>1, <2>3, <2>7 DEF Step, Open, Flush, WalkClimbs, WalkAnswers
    <2>9. WalkAnswers(w)
      BY <1>1, <2>1, <2>3, <2>7, <2>8 DEF Step, Open, Flush, WalkClimbs
    <2>10. ~GoesOn(job[w])
      BY <1>1, <2>9 DEF WalkAnswers
    <2> QED
      BY <1>1, <2>10, AnswersLineage
  <1>2. Init => ClimbInv
    BY DEF Init, ClimbInv
  <1>3. IInv /\ ClimbInv /\ [Next]_vars =>
          [\A w \in Workers :
             phase[w] = "walking" /\ job[w].calm /\ phase'[w] = "idle" /\ answer' = "200"
               => IsLineage(job[w].pkg, job[w].ancestors)]_vars
    BY <1>1
  <1> QED
    BY <1>2, <1>3, Invariance, NextClimb, PTL DEF Spec, WalkIsExact
=============================================================================
