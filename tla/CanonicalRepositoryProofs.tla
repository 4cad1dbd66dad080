---------------------- MODULE CanonicalRepositoryProofs ----------------------
(***************************************************************************)
(* Theorems about CanonicalRepository, for any number of threads, documents *)
(* and publications.                                                        *)
(*                                                                          *)
(* The properties speak of histories; what makes them inductive is what the *)
(* handlers in flight know (JobInv): the hash and the number that a         *)
(* publisher carries come from versions that are in the history, and stay   *)
(* there because histories only grow.                                       *)
(***************************************************************************)
EXTENDS CanonicalRepository, TLAPS

InHistory(d, v) == \E i \in 1..Len(versions[d]) : versions[d][i] = v
HashIn(d, h) == \E i \in 1..Len(versions[d]) : versions[d][i].hash = h
NumberIn(d, n) == HasVersion(versions[d], n)

\* Histories only grow.
Kept ==
  \A d \in Docs :
    /\ Len(versions[d]) \leq Len(versions'[d])
    /\ \A i \in 1..Len(versions[d]) : versions'[d][i] = versions[d][i]

\* A document that is there shows a version that it has, or will have first.
DocInv(d) ==
  /\ documents[d] = NoDoc => versions[d] = <<>>
  /\ documents[d] # NoDoc =>
       IF versions[d] = <<>> THEN documents[d].current = 1
       ELSE NumberIn(d, documents[d].current)

Registering(w) == phase[w] \in {"checked", "documented"}

\* What the handler of w knows of the document it works on.
JobInv(w) ==
  LET d == job[w].doc IN
  /\ Registering(w) => versions[d] = <<>> /\ job[w].number = 1 /\ job[w].hash = <<>>
  /\ phase[w] = "checked" => documents[d] = NoDoc
  /\ phase[w] = "documented" =>
       documents[d] = [category |-> job[w].category, current |-> 1]
  /\ phase[w] \in {"versioned", "appended"} => InHistory(d, NewVersion(job[w]))
  /\ phase[w] = "versioned" => documents[d] # NoDoc /\ documents[d].category = job[w].category
  /\ phase[w] \in {"hashed", "numbered"} => HashIn(d, job[w].hash)
  /\ phase[w] = "numbered" => job[w].number # 0 /\ NumberIn(d, job[w].number - 1)
  /\ phase[w] = "reading" =>
       IF versions[d] = <<>> THEN job[w].number = 1 /\ documents[d] # NoDoc
       ELSE NumberIn(d, job[w].number)
  /\ phase[w] \notin {"idle", "reading"} => job[w].content \in Contents

\* No two registrations are for one document.
ApartInv ==
  \A w, v \in Workers :
    w # v /\ Registering(w) /\ Registering(v) => job[w].doc # job[v].doc

IInv ==
  /\ TypeOK
  /\ NumbersWithoutGap
  /\ EveryVersionExtends
  /\ LatestIsFound
  /\ PublishedIsKept
  /\ IndexPointsHome
  /\ \A d \in Docs : DocInv(d)
  /\ \A w \in Workers : JobInv(w)
  /\ ApartInv

-----------------------------------------------------------------------------
(* Facts about the state                                                    *)

LEMMA JobType ==
  ASSUME TypeOK, NEW w \in Workers, phase[w] # "idle"
  PROVE  /\ job[w] \in Job
         /\ job[w].doc \in Docs /\ job[w].category \in Categories
         /\ job[w].content \in Contents \cup {NoText}
         /\ job[w].hash \in Seq(Contents) /\ job[w].number \in Nat
  BY DEF TypeOK, Job

LEMMA HistoryType ==
  ASSUME TypeOK, NEW d \in Docs
  PROVE  /\ versions[d] \in Seq(DocumentVersion) /\ Len(versions[d]) \in Nat
         /\ \A i \in 1..Len(versions[d]) :
              /\ versions[d][i] \in DocumentVersion
              /\ versions[d][i].number \in Nat \ {0}
              /\ versions[d][i].content \in Contents
              /\ versions[d][i].hash \in Seq(Contents)
  <1>1. versions[d] \in Seq(DocumentVersion)
    BY DEF TypeOK
  <1>2. \A i \in 1..Len(versions[d]) : versions[d][i] \in DocumentVersion
    BY <1>1
  <1> QED
    BY <1>1, <1>2 DEF DocumentVersion

\* What is in a history that has grown is still there.
LEMMA KeptIsThere ==
  ASSUME TypeOK, TypeOK', Kept, NEW d \in Docs
  PROVE  /\ \A v : InHistory(d, v) => InHistory(d, v)'
         /\ \A h : HashIn(d, h) => HashIn(d, h)'
         /\ \A n : NumberIn(d, n) => NumberIn(d, n)'
         /\ versions[d] # <<>> => versions'[d] # <<>>
  <1>1. Len(versions[d]) \in Nat /\ Len(versions'[d]) \in Nat
    BY HistoryType DEF TypeOK
  <1>2. \A i \in 1..Len(versions[d]) :
          i \in 1..Len(versions'[d]) /\ versions'[d][i] = versions[d][i]
    BY <1>1 DEF Kept
  <1>3. versions[d] # <<>> => versions'[d] # <<>>
    <2>1. SUFFICES ASSUME versions[d] # <<>>, versions'[d] = <<>> PROVE FALSE
      OBVIOUS
    <2>2. versions[d] \in Seq(DocumentVersion)
      BY HistoryType
    <2>3. Len(versions[d]) > 0
      BY <2>1, <2>2
    <2> QED
      BY <2>1, <2>3, <1>1 DEF Kept
  <1> QED
    BY <1>2, <1>3 DEF InHistory, HashIn, NumberIn, HasVersion

\* What is in a history is in one that is not empty.
LEMMA InNonempty ==
  ASSUME NEW d, NEW v, InHistory(d, v) \/ HashIn(d, v) \/ NumberIn(d, v)
  PROVE  versions[d] # <<>>
  BY DEF InHistory, HashIn, NumberIn, HasVersion

\* The types of phase and job after a step of w.
LEMMA MoveType ==
  ASSUME TypeOK, NEW w \in Workers, phase' = [phase EXCEPT ![w] = phase'[w]],
         phase'[w] \in {"idle", "checked", "documented", "versioned",
                       "hashed", "numbered", "appended", "reading"},
         job' = [job EXCEPT ![w] = job'[w]],
         job'[w] \in Job \cup {NoJob}, phase'[w] # "idle" => job'[w] \in Job
  PROVE  /\ phase' \in [Workers -> {"idle", "checked", "documented", "versioned",
                                    "hashed", "numbered", "appended", "reading"}]
         /\ job' \in [Workers -> Job \cup {NoJob}]
         /\ \A v \in Workers : phase'[v] # "idle" => job'[v] \in Job
  BY DEF TypeOK

\* Version i of history h builds on versions before it.
Linked(h, i) ==
  /\ h[i].number > 1 => \E j \in 1..(i - 1) : h[j].number = h[i].number - 1
  /\ IF i = 1 THEN h[i].hash = ContentHash(h[i].content, <<>>)
     ELSE \E j \in 1..(i - 1) : h[i].hash = ContentHash(h[i].content, h[j].hash)

LEMMA AllLinked ==
  (\A d \in Docs : \A i \in 1..Len(versions[d]) : Linked(versions[d], i))
    <=> NumbersWithoutGap /\ EveryVersionExtends
  BY DEF Linked, NumbersWithoutGap, EveryVersionExtends

\* Only the versions up to i matter.
LEMMA LinkedPrefix ==
  ASSUME NEW g, NEW h, NEW i \in Nat, Linked(g, i),
         \A j \in 1..i : h[j] = g[j], i >= 1
  PROVE  Linked(h, i)
  <1>1. h[i] = g[i] /\ \A j \in 1..(i - 1) : h[j] = g[j]
    OBVIOUS
  <1> QED
    BY <1>1 DEF Linked

LEMMA NewVersionType ==
  ASSUME NEW j \in Job, j.content \in Contents, j.number # 0
  PROVE  NewVersion(j) \in DocumentVersion
  <1>1. j.hash \in Seq(Contents) /\ j.number \in Nat \ {0}
    BY DEF Job
  <1>2. Append(j.hash, j.content) \in Seq(Contents)
    BY <1>1
  <1> QED
    BY <1>1, <1>2 DEF NewVersion, ContentHash, DocumentVersion

-----------------------------------------------------------------------------
(* What a step leaves alone                                                 *)

\* A handler that does not move keeps what it knows.
LEMMA OthersKnow ==
  ASSUME TypeOK, TypeOK', Kept,
         NEW v \in Workers, JobInv(v), phase'[v] = phase[v], job'[v] = job[v],
         \A d \in Docs : documents[d] # NoDoc =>
            documents'[d] # NoDoc /\ documents'[d].category = documents[d].category,
         \A d \in Docs : versions[d] = <<>> /\ versions'[d] # <<>> => NumberIn(d, 1)',
         Registering(v) => /\ versions'[job[v].doc] = versions[job[v].doc]
                           /\ documents'[job[v].doc] = documents[job[v].doc]
  PROVE  JobInv(v)'
  <1>1. CASE phase[v] = "idle"
    BY <1>1 DEF JobInv, Registering
  <1>2. CASE phase[v] # "idle"
    <2> DEFINE d == job[v].doc
    <2>1. d \in Docs /\ job'[v].doc = d
      BY <1>2, JobType
    <2>2. /\ \A x : InHistory(d, x) => InHistory(d, x)'
          /\ \A h : HashIn(d, h) => HashIn(d, h)'
          /\ \A n : NumberIn(d, n) => NumberIn(d, n)'
          /\ versions[d] # <<>> => versions'[d] # <<>>
      BY <2>1, KeptIsThere
    <2>3. Registering(v)' <=> Registering(v)
      BY DEF Registering
    <2>4. InHistory(d, NewVersion(job[v])) => InHistory(d, NewVersion(job[v]))'
      <3>1. InHistory(d, NewVersion(job[v]))' <=>
              \E i \in 1..Len(versions'[d]) : versions'[d][i] = NewVersion(job[v])
        BY <2>1 DEF InHistory
      <3> QED
        BY <2>2, <3>1 DEF InHistory
    <2>5. HashIn(d, job[v].hash) => HashIn(d, job[v].hash)'
      BY <2>1, <2>2 DEF HashIn
    <2>6. NumberIn(d, job[v].number - 1) => NumberIn(d, job[v].number - 1)'
      BY <2>1, <2>2 DEF NumberIn
    <2>7. NumberIn(d, job[v].number) => NumberIn(d, job[v].number)'
      BY <2>1, <2>2 DEF NumberIn
    <2>8. /\ Registering(v)' =>
               versions'[d] = <<>> /\ job'[v].number = 1 /\ job'[v].hash = <<>>
          /\ phase'[v] = "checked" => documents'[d] = NoDoc
          /\ phase'[v] = "documented" =>
               documents'[d] = [category |-> job'[v].category, current |-> 1]
      BY <2>3 DEF JobInv, Registering
    <2>9. /\ phase'[v] = "versioned" =>
               documents'[d] # NoDoc /\ documents'[d].category = job'[v].category
          /\ phase'[v] \notin {"idle", "reading"} => job'[v].content \in Contents
      BY <2>1 DEF JobInv
    <2>10. phase'[v] = "reading" =>
             IF versions'[d] = <<>> THEN job'[v].number = 1 /\ documents'[d] # NoDoc
             ELSE NumberIn(d, job[v].number)'
      <3> HAVE phase'[v] = "reading"
      <3>1. IF versions[d] = <<>> THEN job[v].number = 1 /\ documents[d] # NoDoc
            ELSE NumberIn(d, job[v].number)
        BY DEF JobInv
      <3>2. CASE versions[d] # <<>>
        BY <2>2, <2>7, <3>1, <3>2
      <3>3. CASE versions[d] = <<>> /\ versions'[d] = <<>>
        BY <2>1, <3>1, <3>3
      <3>4. CASE versions[d] = <<>> /\ versions'[d] # <<>>
        <4>1. NumberIn(d, 1)'
          BY <2>1, <3>4
        <4> QED
          BY <3>1, <3>4, <4>1
      <3> QED
        BY <3>2, <3>3, <3>4
    <2>11. /\ phase'[v] \in {"versioned", "appended"} => InHistory(d, NewVersion(job[v]))'
           /\ phase'[v] \in {"hashed", "numbered"} => HashIn(d, job[v].hash)'
           /\ phase'[v] = "numbered" => job'[v].number # 0 /\ NumberIn(d, job[v].number - 1)'
      BY <2>4, <2>5, <2>6 DEF JobInv
    <2> QED
      BY <2>1, <2>8, <2>9, <2>10, <2>11 DEF JobInv
  <1> QED
    BY <1>1, <1>2

\* A step of w that touches neither the dictionaries nor acked.
LEMMA LocalStep ==
  ASSUME IInv, TypeOK', NEW w \in Workers, UNCHANGED <<storeVars, acked>>,
         \A v \in Workers \ {w} : phase'[v] = phase[v] /\ job'[v] = job[v],
         JobInv(w)', LatestIsFound',
         Registering(w)' =>
           \A v \in Workers \ {w} : Registering(v) => job[v].doc # job'[w].doc
  PROVE  IInv'
  <1> USE DEF storeVars
  <1>1. Kept
    BY HistoryType DEF IInv, Kept
  <1>2. ASSUME NEW v \in Workers PROVE JobInv(v)'
    <2>1. CASE v = w
      BY <2>1
    <2>2. CASE v # w
      BY <1>1, <2>2, OthersKnow DEF IInv
    <2> QED
      BY <2>1, <2>2
  <1>3. ApartInv'
    <2> SUFFICES ASSUME NEW u \in Workers, NEW v \in Workers, u # v,
                        Registering(u)', Registering(v)'
                 PROVE  job'[u].doc # job'[v].doc
      BY DEF ApartInv
    <2>1. CASE u = w
      BY <2>1 DEF Registering
    <2>2. CASE v = w
      BY <2>2 DEF Registering
    <2>3. CASE u # w /\ v # w
      BY <2>3 DEF IInv, ApartInv, Registering
    <2> QED
      BY <2>1, <2>2, <2>3
  <1>4. \A d \in Docs : DocInv(d)'
    BY DEF IInv, DocInv, NumberIn
  <1>5. /\ NumbersWithoutGap' /\ EveryVersionExtends'
        /\ PublishedIsKept' /\ IndexPointsHome'
    BY DEF IInv, NumbersWithoutGap, EveryVersionExtends, PublishedIsKept, IndexPointsHome
  <1> QED
    BY <1>2, <1>3, <1>4, <1>5 DEF IInv

-----------------------------------------------------------------------------
(* Steps that touch no dictionary                                           *)

LEMMA InitIInv == Init => IInv
  <1> SUFFICES ASSUME Init PROVE IInv
    OBVIOUS
  <1> USE DEF Init
  <1>1. TypeOK
    BY DEF TypeOK
  <1>2. \A d \in Docs : versions[d] = <<>> /\ Len(versions[d]) = 0
    OBVIOUS
  <1>3. NumbersWithoutGap /\ EveryVersionExtends
    BY <1>2 DEF NumbersWithoutGap, EveryVersionExtends
  <1>4. LatestIsFound /\ PublishedIsKept /\ IndexPointsHome
    BY DEF LatestIsFound, PublishedIsKept, IndexPointsHome
  <1>5. \A d \in Docs : DocInv(d)
    BY DEF DocInv
  <1>6. (\A w \in Workers : JobInv(w)) /\ ApartInv
    BY DEF JobInv, ApartInv, Registering
  <1> QED
    BY <1>1, <1>3, <1>4, <1>5, <1>6 DEF IInv

\* A request that is answered at once.
LEMMA AnswerNowIInv ==
  ASSUME IInv, NEW w \in Workers, AnswerNow(w, answer'),
         answer' \in {"200", "404", "409", "500", "intact", "broken"}
  PROVE  IInv'
  <1> USE DEF AnswerNow
  <1>1. TypeOK'
    BY DEF IInv, TypeOK, storeVars
  <1>2. JobInv(w)'
    BY DEF JobInv, Registering
  <1>3. LatestIsFound'
    BY DEF LatestIsFound
  <1> QED
    BY <1>1, <1>2, <1>3, LocalStep DEF Registering

LEMMA RegisterCheckIInv ==
  ASSUME IInv, NEW w \in Workers, NEW c \in Categories, RegisterCheck(w, c)
  PROVE  IInv'
  <1>1. PICK d \in Docs, x \in Contents :
          /\ documents[d] = NoDoc
          /\ \A v \in Workers : phase[v] = "checked" => job[v].doc # d
          /\ job' = [job EXCEPT ![w] =
               [doc |-> d, category |-> c, content |-> x, hash |-> <<>>, number |-> 1]]
    BY DEF RegisterCheck
  <1>2. /\ phase[w] = "idle" /\ phase' = [phase EXCEPT ![w] = "checked"]
        /\ UNCHANGED <<storeVars, answer, publications, acked, disturbed>>
    BY DEF RegisterCheck, Proceed
  <1> DEFINE j == [doc |-> d, category |-> c, content |-> x, hash |-> <<>>, number |-> 1]
  <1>3. j \in Job
    BY DEF Job
  <1>4. job'[w] = j /\ phase'[w] = "checked"
    BY <1>1, <1>2 DEF IInv, TypeOK
  <1>5. \A v \in Workers \ {w} : job'[v] = job[v] /\ phase'[v] = phase[v]
    BY <1>1, <1>2 DEF IInv, TypeOK
  <1>6. TypeOK'
    BY <1>1, <1>2, <1>3, <1>4, <1>5, MoveType DEF IInv, TypeOK, storeVars
  <1>7. JobInv(w)'
    <2>1. versions[d] = <<>>
      BY <1>1 DEF IInv, DocInv
    <2> QED
      BY <1>1, <1>2, <1>4, <2>1 DEF JobInv, Registering, storeVars
  <1>8. \A v \in Workers \ {w} : Registering(v) => job[v].doc # job'[w].doc
    <2> SUFFICES ASSUME NEW v \in Workers \ {w}, Registering(v) PROVE job[v].doc # d
      BY <1>4
    <2>1. CASE phase[v] = "checked"
      BY <1>1, <2>1
    <2>2. CASE phase[v] = "documented"
      <3>1. documents[job[v].doc] = [category |-> job[v].category, current |-> 1]
        BY <2>2 DEF IInv, JobInv
      <3>2. job[v].category \in Categories
        BY <2>2, JobType DEF IInv
      <3> QED
        BY <1>1, <3>1, <3>2, SentinelAssumption
    <2> QED
      BY <2>1, <2>2 DEF Registering
  <1>9. LatestIsFound'
    BY <1>2 DEF IInv, LatestIsFound
  <1> QED
    BY <1>2, <1>5, <1>6, <1>7, <1>8, <1>9, LocalStep

LEMMA PublishBeginIInv ==
  ASSUME IInv, NEW w \in Workers, NEW d \in Docs, PublishBegin(w, d)
  PROVE  IInv'
  <1>1. PICK x \in Contents :
          job' = [job EXCEPT ![w] =
            [doc |-> d, category |-> documents[d].category, content |-> x,
             hash |-> Last(versions[d]).hash, number |-> 0]]
    BY DEF PublishBegin
  <1> DEFINE j == [doc |-> d, category |-> documents[d].category, content |-> x,
                   hash |-> Last(versions[d]).hash, number |-> 0]
  <1>2. /\ documents[d] # NoDoc /\ versions[d] # <<>>
        /\ phase' = [phase EXCEPT ![w] = "hashed"]
        /\ UNCHANGED <<storeVars, answer, acked>>
        /\ publications' = publications + 1
        /\ disturbed' \in {disturbed, disturbed \cup {d}}
    BY DEF PublishBegin, Proceed
  <1>3. Len(versions[d]) \in 1..Len(versions[d])
    BY <1>2, HistoryType DEF IInv
  <1>4. Last(versions[d]).hash \in Seq(Contents)
    BY <1>3, HistoryType DEF IInv, Last
  <1>5. documents[d].category \in Categories
    BY <1>2 DEF IInv, TypeOK, Document
  <1>6. j \in Job
    BY <1>4, <1>5 DEF Job
  <1>7. job'[w] = j /\ phase'[w] = "hashed"
    BY <1>1, <1>2 DEF IInv, TypeOK
  <1>8. \A v \in Workers \ {w} : job'[v] = job[v] /\ phase'[v] = phase[v]
    BY <1>1, <1>2 DEF IInv, TypeOK
  <1>9. TypeOK'
    BY <1>1, <1>2, <1>6, <1>7, <1>8, MoveType DEF IInv, TypeOK, storeVars
  <1>10. JobInv(w)'
    <2>1. HashIn(d, Last(versions[d]).hash)'
      BY <1>2, <1>3 DEF HashIn, Last, storeVars
    <2>2. HashIn(job[w].doc, job[w].hash)'
      BY <1>2, <1>7, <2>1 DEF HashIn, storeVars
    <2> QED
      BY <1>7, <2>2 DEF JobInv, Registering
  <1>11. LatestIsFound'
    BY <1>2 DEF IInv, LatestIsFound
  <1> QED
    BY <1>2, <1>7, <1>8, <1>9, <1>10, <1>11, LocalStep DEF Registering

LEMMA ReadNumberIInv ==
  ASSUME IInv, NEW w \in Workers, ReadNumber(w)
  PROVE  IInv'
  <1> DEFINE d == job[w].doc
             n == Last(versions[d]).number + 1
             j == [job[w] EXCEPT !.number = n]
  <1>1. /\ phase[w] = "hashed"
        /\ job' = [job EXCEPT ![w].number = n]
        /\ phase' = [phase EXCEPT ![w] = "numbered"]
        /\ UNCHANGED <<storeVars, answer, publications, acked, disturbed>>
    BY DEF ReadNumber, Proceed
  <1>2. job[w] \in Job /\ d \in Docs
    BY <1>1, JobType DEF IInv
  <1>3. HashIn(d, job[w].hash) /\ job[w].content \in Contents
    BY <1>1 DEF IInv, JobInv
  <1>4. Len(versions[d]) \in 1..Len(versions[d])
    BY <1>2, <1>3, HistoryType DEF IInv, HashIn
  <1>5. Last(versions[d]).number \in Nat \ {0}
    BY <1>2, <1>4, HistoryType DEF IInv, Last
  <1>6. /\ j \in Job /\ j.doc = d /\ j.number = n
        /\ j.hash = job[w].hash /\ j.content = job[w].content
    BY <1>2, <1>5 DEF Job
  <1>7. job'[w] = j /\ phase'[w] = "numbered"
    BY <1>1 DEF IInv, TypeOK
  <1>8. \A v \in Workers \ {w} : job'[v] = job[v] /\ phase'[v] = phase[v]
    BY <1>1 DEF IInv, TypeOK
  <1>9. TypeOK'
    BY <1>1, <1>6, <1>7, <1>8, MoveType DEF IInv, TypeOK, storeVars
  <1>10. JobInv(w)'
    <2>1. versions'[d] = versions[d] /\ job'[w].doc = d
      BY <1>1, <1>6, <1>7 DEF storeVars
    <2>2. HashIn(job[w].doc, job[w].hash)'
      BY <1>3, <1>6, <1>7, <2>1 DEF HashIn
    <2>3. n - 1 = Last(versions[d]).number /\ n # 0
      BY <1>5
    <2>4. NumberIn(job[w].doc, job[w].number - 1)'
      BY <1>4, <1>6, <1>7, <2>1, <2>3 DEF NumberIn, HasVersion, Last
    <2> QED
      BY <1>3, <1>6, <1>7, <2>2, <2>3, <2>4 DEF JobInv, Registering
  <1>11. LatestIsFound'
    BY <1>1 DEF IInv, LatestIsFound
  <1> QED
    BY <1>1, <1>7, <1>8, <1>9, <1>10, <1>11, LocalStep DEF Registering

LEMMA LatestBeginIInv ==
  ASSUME IInv, NEW w \in Workers, NEW d \in Docs, LatestBegin(w, d)
  PROVE  IInv'
  <1> DEFINE j == [doc |-> d, category |-> documents[d].category, content |-> NoText,
                   hash |-> <<>>, number |-> documents[d].current]
  <1>1. /\ documents[d] # NoDoc
        /\ job' = [job EXCEPT ![w] = j]
        /\ phase' = [phase EXCEPT ![w] = "reading"]
        /\ UNCHANGED <<storeVars, answer, publications, acked, disturbed>>
    BY DEF LatestBegin, Proceed
  <1>2. documents[d] \in Document
    BY <1>1 DEF IInv, TypeOK
  <1>3. j \in Job
    BY <1>2 DEF Job, Document
  <1>4. job'[w] = j /\ phase'[w] = "reading"
    BY <1>1 DEF IInv, TypeOK
  <1>5. \A v \in Workers \ {w} : job'[v] = job[v] /\ phase'[v] = phase[v]
    BY <1>1 DEF IInv, TypeOK
  <1>6. TypeOK'
    BY <1>1, <1>3, <1>4, <1>5, MoveType DEF IInv, TypeOK, storeVars
  <1>7. JobInv(w)'
    <2>1. IF versions[d] = <<>> THEN documents[d].current = 1
          ELSE NumberIn(d, documents[d].current)
      BY <1>1 DEF IInv, DocInv
    <2>2. versions' = versions /\ documents' = documents
      BY <1>1 DEF storeVars
    <2> QED
      BY <1>1, <1>4, <2>1, <2>2 DEF JobInv, Registering, NumberIn
  <1>8. LatestIsFound'
    BY <1>1 DEF IInv, LatestIsFound
  <1> QED
    BY <1>1, <1>4, <1>5, <1>6, <1>7, <1>8, LocalStep DEF Registering

\* The number a reader brings along is in the history, if there is one.
LEMMA LatestEndIInv ==
  ASSUME IInv, NEW w \in Workers, LatestEnd(w)
  PROVE  IInv'
  <1> DEFINE d == job[w].doc
  <1>1. /\ phase[w] = "reading"
        /\ job' = [job EXCEPT ![w] = NoJob]
        /\ phase' = [phase EXCEPT ![w] = "idle"]
        /\ UNCHANGED <<storeVars, publications, acked, disturbed>>
        /\ answer' = IF versions[d] = <<>> THEN "500"
                     ELSE IF HasVersion(versions[d], job[w].number) THEN "200" ELSE "lost"
    BY DEF LatestEnd, Proceed
  <1>2. versions[d] # <<>> => HasVersion(versions[d], job[w].number)
    BY <1>1 DEF IInv, JobInv, NumberIn
  <1>3. answer' \in {"200", "500"}
    BY <1>1, <1>2
  <1>4. \A v \in Workers \ {w} : job'[v] = job[v] /\ phase'[v] = phase[v]
    BY <1>1 DEF IInv, TypeOK
  <1>5. phase'[w] = "idle"
    BY <1>1 DEF IInv, TypeOK
  <1>6. TypeOK'
    BY <1>1, <1>3, <1>4, <1>5, MoveType DEF IInv, TypeOK, storeVars
  <1>7. JobInv(w)' /\ LatestIsFound'
    BY <1>3, <1>5 DEF JobInv, Registering, LatestIsFound
  <1> QED
    BY <1>1, <1>4, <1>5, <1>6, <1>7, LocalStep DEF Registering

-----------------------------------------------------------------------------
(* Steps that change a dictionary                                           *)

\* What the handlers know survives a step of w that only adds to the
\* dictionaries and stays off documents that others are registering.
LEMMA DictStep ==
  ASSUME IInv, TypeOK', Kept, NEW w \in Workers,
         \A v \in Workers \ {w} : phase'[v] = phase[v] /\ job'[v] = job[v],
         \A d \in Docs : documents[d] # NoDoc =>
            documents'[d] # NoDoc /\ documents'[d].category = documents[d].category,
         \A d \in Docs : versions[d] = <<>> /\ versions'[d] # <<>> => NumberIn(d, 1)',
         \A v \in Workers \ {w} : Registering(v) =>
            /\ versions'[job[v].doc] = versions[job[v].doc]
            /\ documents'[job[v].doc] = documents[job[v].doc],
         JobInv(w)',
         Registering(w)' => Registering(w) /\ job'[w] = job[w]
  PROVE  (\A v \in Workers : JobInv(v)') /\ ApartInv'
  <1>1. ASSUME NEW v \in Workers PROVE JobInv(v)'
    <2>1. CASE v = w
      BY <2>1
    <2>2. CASE v # w
      BY <2>2, OthersKnow DEF IInv
    <2> QED
      BY <2>1, <2>2
  <1>2. ASSUME NEW v \in Workers
        PROVE  Registering(v)' => Registering(v) /\ job'[v] = job[v]
    BY DEF Registering
  <1>3. ApartInv'
    BY <1>2 DEF IInv, ApartInv
  <1> QED
    BY <1>1, <1>3

LEMMA RegisterDocumentIInv ==
  ASSUME IInv, NEW w \in Workers, RegisterDocument(w)
  PROVE  IInv'
  <1> DEFINE d == job[w].doc
             doc == [category |-> job[w].category, current |-> 1]
  <1>1. /\ phase[w] = "checked" /\ phase' = [phase EXCEPT ![w] = "documented"]
        /\ documents' = [documents EXCEPT ![d] = doc]
        /\ UNCHANGED <<versions, index, job, answer, publications, acked, disturbed>>
    BY DEF RegisterDocument, Proceed
  <1>2. job[w] \in Job /\ d \in Docs /\ job[w].category \in Categories
    BY <1>1, JobType DEF IInv
  <1>3. doc \in Document
    BY <1>2 DEF Document
  <1>4. doc # NoDoc
    BY <1>2, SentinelAssumption
  <1>5. documents[d] = NoDoc /\ versions[d] = <<>>
    BY <1>1 DEF IInv, JobInv, Registering
  <1>6. documents'[d] = doc /\ \A e \in Docs \ {d} : documents'[e] = documents[e]
    BY <1>1, <1>2 DEF IInv, TypeOK
  <1>7. TypeOK'
    <2>1. phase' = [phase EXCEPT ![w] = phase'[w]] /\ job' = [job EXCEPT ![w] = job'[w]]
      BY <1>1 DEF IInv, TypeOK
    <2>2. documents' \in [Docs -> Document \cup {NoDoc}]
      BY <1>1, <1>3 DEF IInv, TypeOK
    <2>3. phase'[w] = "documented" /\ job'[w] \in Job
      BY <1>1, <1>2 DEF IInv, TypeOK
    <2> QED
      BY <1>1, <2>1, <2>2, <2>3, MoveType DEF IInv, TypeOK
  <1>8. Kept
    BY <1>1, HistoryType DEF IInv, Kept
  <1>9. \A v \in Workers \ {w} : Registering(v) => job[v].doc # d
    BY <1>1 DEF IInv, ApartInv, Registering
  <1>10. \A v \in Workers \ {w} : Registering(v) =>
           documents'[job[v].doc] = documents[job[v].doc]
    BY <1>6, <1>9, JobType DEF IInv, Registering
  <1>11. JobInv(w)'
    <2>1. phase'[w] = "documented" /\ job'[w] = job[w]
      BY <1>1 DEF IInv, TypeOK
    <2>2. job[w].number = 1 /\ job[w].hash = <<>> /\ job[w].content \in Contents
      BY <1>1 DEF IInv, JobInv, Registering
    <2> QED
      BY <1>1, <1>5, <1>6, <2>1, <2>2 DEF JobInv, Registering
  <1>12. (\A v \in Workers : JobInv(v)') /\ ApartInv'
    <2>1. Registering(w)' => Registering(w) /\ job'[w] = job[w]
      BY <1>1 DEF Registering
    <2>2. \A v \in Workers \ {w} : phase'[v] = phase[v] /\ job'[v] = job[v]
      BY <1>1 DEF IInv, TypeOK
    <2>3. \A e \in Docs : documents[e] # NoDoc =>
            documents'[e] # NoDoc /\ documents'[e].category = documents[e].category
      BY <1>5, <1>6
    <2>4. versions' = versions
      BY <1>1
    <2> QED
      BY <1>7, <1>8, <1>10, <1>11, <2>1, <2>2, <2>3, <2>4, DictStep
  <1>13. \A e \in Docs : DocInv(e)'
    <2> TAKE e \in Docs
    <2>1. CASE e = d
      BY <1>1, <1>4, <1>5, <1>6, <2>1 DEF DocInv
    <2>2. CASE e # d
      BY <1>1, <1>6, <2>2 DEF IInv, DocInv, NumberIn
    <2> QED
      BY <2>1, <2>2
  <1>14. IndexPointsHome'
    <2> SUFFICES ASSUME NEW c \in Categories, index[c] # NoDoc
                 PROVE  /\ documents'[index[c]] # NoDoc
                        /\ documents'[index[c]].category = c
                        /\ versions[index[c]] # <<>>
      BY <1>1 DEF IndexPointsHome
    <2>1. index[c] \in Docs
      BY DEF IInv, TypeOK
    <2> QED
      BY <1>5, <1>6, <2>1 DEF IInv, IndexPointsHome
  <1>15. /\ NumbersWithoutGap' /\ EveryVersionExtends'
         /\ PublishedIsKept' /\ LatestIsFound'
    BY <1>1 DEF IInv, NumbersWithoutGap, EveryVersionExtends, PublishedIsKept, LatestIsFound
  <1> QED
    BY <1>7, <1>12, <1>13, <1>14, <1>15 DEF IInv

\* The first version has number 1 and the hash of its content alone.
LEMMA RegisterVersionsIInv ==
  ASSUME IInv, NEW w \in Workers, RegisterVersions(w)
  PROVE  IInv'
  <1> DEFINE d == job[w].doc
             v1 == NewVersion(job[w])
  <1>1. /\ phase[w] = "documented" /\ phase' = [phase EXCEPT ![w] = "versioned"]
        /\ versions' = [versions EXCEPT ![d] = <<v1>>]
        /\ UNCHANGED <<documents, index, job, answer, publications, acked, disturbed>>
    BY DEF RegisterVersions, Proceed
  <1>2. job[w] \in Job /\ d \in Docs /\ job[w].category \in Categories
    BY <1>1, JobType DEF IInv
  <1>3. /\ versions[d] = <<>> /\ job[w].number = 1 /\ job[w].hash = <<>>
        /\ documents[d] = [category |-> job[w].category, current |-> 1]
        /\ job[w].content \in Contents
    BY <1>1 DEF IInv, JobInv, Registering
  <1>4. v1 \in DocumentVersion /\ v1.number = 1 /\ v1.hash = ContentHash(v1.content, <<>>)
    BY <1>2, <1>3, NewVersionType DEF NewVersion
  <1>5. versions'[d] = <<v1>> /\ \A e \in Docs \ {d} : versions'[e] = versions[e]
    BY <1>1, <1>2 DEF IInv, TypeOK
  <1>6. <<v1>> \in Seq(DocumentVersion) /\ Len(<<v1>>) = 1 /\ <<v1>>[1] = v1 /\ <<v1>> # <<>>
    BY <1>4
  <1>7. TypeOK'
    <2>1. phase' = [phase EXCEPT ![w] = phase'[w]] /\ job' = [job EXCEPT ![w] = job'[w]]
      BY <1>1 DEF IInv, TypeOK
    <2>2. versions' \in [Docs -> Seq(DocumentVersion)]
      BY <1>1, <1>6 DEF IInv, TypeOK
    <2>3. phase'[w] = "versioned" /\ job'[w] \in Job
      BY <1>1, <1>2 DEF IInv, TypeOK
    <2> QED
      BY <1>1, <2>1, <2>2, <2>3, MoveType DEF IInv, TypeOK
  <1>8. Kept
    <2> SUFFICES ASSUME NEW e \in Docs
                 PROVE  /\ Len(versions[e]) \leq Len(versions'[e])
                        /\ \A i \in 1..Len(versions[e]) : versions'[e][i] = versions[e][i]
      BY DEF Kept
    <2>1. CASE e = d
      BY <1>3, <1>5, <1>6, <2>1
    <2>2. CASE e # d
      BY <1>5, <2>2, HistoryType DEF IInv
    <2> QED
      BY <2>1, <2>2
  <1>9. NumberIn(d, 1)' /\ InHistory(d, v1)'
    <2>1. \E i \in 1..Len(versions'[d]) : versions'[d][i] = v1 /\ versions'[d][i].number = 1
      BY <1>4, <1>5, <1>6
    <2>2. d' = d /\ v1' = v1
      BY <1>1
    <2> QED
      BY <2>1, <2>2 DEF NumberIn, HasVersion, InHistory
  <1>10. JobInv(w)'
    <2>1. phase'[w] = "versioned" /\ job'[w] = job[w]
      BY <1>1 DEF IInv, TypeOK
    <2>2. documents'[d] # NoDoc /\ documents'[d].category = job[w].category
      BY <1>1, <1>2, <1>3, SentinelAssumption
    <2> QED
      BY <1>3, <1>9, <2>1, <2>2 DEF JobInv, Registering
  <1>11. (\A v \in Workers : JobInv(v)') /\ ApartInv'
    <2>1. ~Registering(w)'
      BY <1>1 DEF IInv, TypeOK, Registering
    <2>2. \A v \in Workers \ {w} : phase'[v] = phase[v] /\ job'[v] = job[v]
      BY <1>1 DEF IInv, TypeOK
    <2>3. \A v \in Workers \ {w} : Registering(v) => job[v].doc # d
      BY <1>1 DEF IInv, ApartInv, Registering
    <2>4. \A v \in Workers \ {w} : Registering(v) =>
            versions'[job[v].doc] = versions[job[v].doc]
      BY <1>5, <2>3, JobType DEF IInv, Registering
    <2>5. \A e \in Docs : versions[e] = <<>> /\ versions'[e] # <<>> => NumberIn(e, 1)'
      <3> TAKE e \in Docs
      <3>1. CASE e = d
        BY <1>1, <1>9, <3>1 DEF NumberIn
      <3>2. CASE e # d
        BY <1>5, <3>2
      <3> QED
        BY <3>1, <3>2
    <2>6. documents' = documents
      BY <1>1
    <2> QED
      BY <1>7, <1>8, <1>10, <2>1, <2>2, <2>4, <2>5, <2>6, DictStep
  <1>12. NumbersWithoutGap' /\ EveryVersionExtends'
    <2>1. ASSUME NEW e \in Docs, NEW i \in 1..Len(versions'[e])
          PROVE  Linked(versions'[e], i)
      <3>1. CASE e = d
        <4>1. versions'[e] = <<v1>>
          BY <1>5, <3>1
        <4>2. i \in 1..1
          BY <1>6, <4>1
        <4>3. i = 1 /\ versions'[e][i] = v1
          BY <1>6, <4>1, <4>2
        <4> QED
          BY <1>4, <4>3 DEF Linked
      <3>2. CASE e # d
        <4>1. versions'[e] = versions[e]
          BY <1>5, <3>2
        <4>2. Linked(versions[e], i)
          BY <4>1, AllLinked DEF IInv
        <4> QED
          BY <4>1, <4>2
      <3> QED
        BY <3>1, <3>2
    <2>2. \A e \in Docs : \A i \in 1..Len(versions'[e]) : Linked(versions'[e], i)
      BY <2>1
    <2> QED
      BY <2>2 DEF Linked, NumbersWithoutGap, EveryVersionExtends
  <1>13. PublishedIsKept'
    <2> SUFFICES ASSUME NEW e \in Docs, NEW v \in acked[e]
                 PROVE  \E i \in 1..Len(versions'[e]) : versions'[e][i] = v
      BY <1>1 DEF PublishedIsKept
    <2>1. InHistory(e, v)
      BY DEF IInv, PublishedIsKept, InHistory
    <2>2. e # d
      BY <1>3, <2>1, InNonempty
    <2> QED
      BY <1>5, <2>1, <2>2 DEF InHistory
  <1>14. \A e \in Docs : DocInv(e)'
    <2> TAKE e \in Docs
    <2>1. CASE e = d
      <3>1. documents'[d] # NoDoc /\ documents'[d].current = 1
        BY <1>1, <1>2, <1>3, SentinelAssumption
      <3> QED
        BY <1>1, <1>5, <1>6, <1>9, <2>1, <3>1 DEF DocInv, NumberIn
    <2>2. CASE e # d
      BY <1>1, <1>5, <2>2 DEF IInv, DocInv, NumberIn
    <2> QED
      BY <2>1, <2>2
  <1>15. IndexPointsHome' /\ LatestIsFound'
    <2>1. \A c \in Categories : index[c] # NoDoc => index[c] \in Docs
      BY DEF IInv, TypeOK
    <2> QED
      BY <1>1, <1>5, <1>6, <2>1 DEF IInv, IndexPointsHome, LatestIsFound
  <1> QED
    BY <1>7, <1>11, <1>12, <1>13, <1>14, <1>15 DEF IInv

LEMMA RegisterIndexIInv ==
  ASSUME IInv, NEW w \in Workers, RegisterIndex(w)
  PROVE  IInv'
  <1> DEFINE d == job[w].doc
             c == job[w].category
             v1 == NewVersion(job[w])
  <1>1. /\ phase[w] = "versioned" /\ phase' = [phase EXCEPT ![w] = "idle"]
        /\ job' = [job EXCEPT ![w] = NoJob]
        /\ index' = [index EXCEPT ![c] = d]
        /\ answer' = "200"
        /\ acked' = [acked EXCEPT ![d] = @ \cup {v1}]
        /\ UNCHANGED <<documents, versions, publications, disturbed>>
    BY DEF RegisterIndex, Proceed, Acknowledge
  <1>2. job[w] \in Job /\ d \in Docs /\ c \in Categories
    BY <1>1, JobType DEF IInv
  <1>3. InHistory(d, v1) /\ documents[d] # NoDoc /\ documents[d].category = c
    BY <1>1 DEF IInv, JobInv
  <1>4. v1 \in DocumentVersion /\ versions[d] # <<>>
    BY <1>2, <1>3, HistoryType, InNonempty DEF IInv, InHistory
  <1>5. acked'[d] = acked[d] \cup {v1} /\ \A e \in Docs \ {d} : acked'[e] = acked[e]
    BY <1>1, <1>2 DEF IInv, TypeOK
  <1>6. TypeOK'
    <2>1. phase' = [phase EXCEPT ![w] = phase'[w]] /\ job' = [job EXCEPT ![w] = job'[w]]
      BY <1>1 DEF IInv, TypeOK
    <2>2. index' \in [Categories -> Docs \cup {NoDoc}]
      BY <1>1, <1>2 DEF IInv, TypeOK
    <2>3. acked' \in [Docs -> SUBSET DocumentVersion]
      BY <1>1, <1>4 DEF IInv, TypeOK
    <2>4. phase'[w] = "idle" /\ job'[w] = NoJob
      BY <1>1 DEF IInv, TypeOK
    <2> QED
      BY <1>1, <2>1, <2>2, <2>3, <2>4, MoveType DEF IInv, TypeOK
  <1>7. Kept
    BY <1>1, HistoryType DEF IInv, Kept
  <1>8. (\A v \in Workers : JobInv(v)') /\ ApartInv'
    <2>1. phase'[w] = "idle"
      BY <1>1 DEF IInv, TypeOK
    <2>2. JobInv(w)' /\ ~Registering(w)'
      BY <2>1 DEF JobInv, Registering
    <2>3. \A v \in Workers \ {w} : phase'[v] = phase[v] /\ job'[v] = job[v]
      BY <1>1 DEF IInv, TypeOK
    <2>4. versions' = versions /\ documents' = documents
      BY <1>1
    <2> QED
      BY <1>6, <1>7, <2>2, <2>3, <2>4, DictStep
  <1>9. PublishedIsKept'
    <2> SUFFICES ASSUME NEW e \in Docs, NEW v \in acked'[e]
                 PROVE  \E i \in 1..Len(versions[e]) : versions[e][i] = v
      BY <1>1 DEF PublishedIsKept
    <2>1. CASE v \in acked[e]
      BY <2>1 DEF IInv, PublishedIsKept
    <2>2. CASE v \notin acked[e]
      BY <1>3, <1>5, <2>2 DEF InHistory
    <2> QED
      BY <2>1, <2>2
  <1>10. IndexPointsHome'
    <2> SUFFICES ASSUME NEW x \in Categories, index'[x] # NoDoc
                 PROVE  /\ documents[index'[x]] # NoDoc
                        /\ documents[index'[x]].category = x
                        /\ versions[index'[x]] # <<>>
      BY <1>1 DEF IndexPointsHome
    <2>1. CASE x = c
      BY <1>1, <1>2, <1>3, <1>4, <2>1 DEF IInv, TypeOK
    <2>2. CASE x # c
      <3>1. index'[x] = index[x]
        BY <1>1, <2>2 DEF IInv, TypeOK
      <3> QED
        BY <3>1 DEF IInv, IndexPointsHome
    <2> QED
      BY <2>1, <2>2
  <1>11. /\ NumbersWithoutGap' /\ EveryVersionExtends' /\ LatestIsFound'
         /\ \A e \in Docs : DocInv(e)'
    BY <1>1 DEF IInv, NumbersWithoutGap, EveryVersionExtends, LatestIsFound, DocInv, NumberIn
  <1> QED
    BY <1>6, <1>8, <1>9, <1>10, <1>11 DEF IInv

\* The new version comes after those its hash and its number are made from.
LEMMA AppendVersionIInv ==
  ASSUME IInv, NEW w \in Workers, AppendVersion(w)
  PROVE  IInv'
  <1> DEFINE d == job[w].doc
             v1 == NewVersion(job[w])
             n == Len(versions[d])
  <1>1. /\ phase[w] = "numbered" /\ phase' = [phase EXCEPT ![w] = "appended"]
        /\ versions' = [versions EXCEPT ![d] = Append(@, v1)]
        /\ UNCHANGED <<documents, index, job, answer, publications, acked, disturbed>>
    BY DEF AppendVersion, Proceed
  <1>2. job[w] \in Job /\ d \in Docs /\ job[w].number \in Nat
    BY <1>1, JobType DEF IInv
  <1>3. /\ HashIn(d, job[w].hash) /\ job[w].content \in Contents
        /\ job[w].number # 0 /\ NumberIn(d, job[w].number - 1)
    BY <1>1 DEF IInv, JobInv
  <1>4. /\ v1 \in DocumentVersion /\ v1.number = job[w].number
        /\ v1.hash = ContentHash(v1.content, job[w].hash)
    BY <1>2, <1>3, NewVersionType DEF NewVersion
  <1>5. /\ versions'[d] = Append(versions[d], v1)
        /\ \A e \in Docs \ {d} : versions'[e] = versions[e]
    BY <1>1, <1>2 DEF IInv, TypeOK
  <1>6. versions[d] # <<>> /\ versions[d] \in Seq(DocumentVersion) /\ n \in Nat
    BY <1>2, <1>3, HistoryType, InNonempty DEF IInv
  <1>7. /\ versions'[d] \in Seq(DocumentVersion) /\ Len(versions'[d]) = n + 1
        /\ versions'[d] # <<>> /\ versions'[d][n + 1] = v1
        /\ \A i \in 1..n : versions'[d][i] = versions[d][i]
    BY <1>4, <1>5, <1>6
  <1>8. TypeOK'
    <2>1. phase' = [phase EXCEPT ![w] = phase'[w]] /\ job' = [job EXCEPT ![w] = job'[w]]
      BY <1>1 DEF IInv, TypeOK
    <2>2. versions' \in [Docs -> Seq(DocumentVersion)]
      BY <1>1, <1>5, <1>7 DEF IInv, TypeOK
    <2>3. phase'[w] = "appended" /\ job'[w] \in Job
      BY <1>1, <1>2 DEF IInv, TypeOK
    <2> QED
      BY <1>1, <2>1, <2>2, <2>3, MoveType DEF IInv, TypeOK
  <1>9. Kept
    <2> SUFFICES ASSUME NEW e \in Docs
                 PROVE  /\ Len(versions[e]) \leq Len(versions'[e])
                        /\ \A i \in 1..Len(versions[e]) : versions'[e][i] = versions[e][i]
      BY DEF Kept
    <2>1. CASE e = d
      BY <1>6, <1>7, <2>1
    <2>2. CASE e # d
      BY <1>5, <2>2, HistoryType DEF IInv
    <2> QED
      BY <2>1, <2>2
  <1>10. JobInv(w)'
    <2>1. phase'[w] = "appended" /\ job'[w] = job[w]
      BY <1>1 DEF IInv, TypeOK
    <2>2. n + 1 \in 1..Len(versions'[d])
      BY <1>6, <1>7
    <2>3. InHistory(job[w].doc, NewVersion(job[w]))'
      BY <1>7, <2>1, <2>2 DEF InHistory
    <2> QED
      BY <1>3, <2>1, <2>3 DEF JobInv, Registering
  <1>11. (\A v \in Workers : JobInv(v)') /\ ApartInv'
    <2>1. ~Registering(w)'
      BY <1>1 DEF IInv, TypeOK, Registering
    <2>2. \A v \in Workers \ {w} : phase'[v] = phase[v] /\ job'[v] = job[v]
      BY <1>1 DEF IInv, TypeOK
    <2>3. \A v \in Workers \ {w} : Registering(v) => job[v].doc # d
      <3>1. \A v \in Workers : Registering(v) => versions[job[v].doc] = <<>>
        BY DEF IInv, JobInv
      <3> QED
        BY <1>6, <3>1
    <2>4. \A v \in Workers \ {w} : Registering(v) =>
            versions'[job[v].doc] = versions[job[v].doc]
      BY <1>5, <2>3, JobType DEF IInv, Registering
    <2>5. \A e \in Docs : versions[e] = <<>> /\ versions'[e] # <<>> => NumberIn(e, 1)'
      BY <1>5, <1>6
    <2>6. documents' = documents
      BY <1>1
    <2> QED
      BY <1>8, <1>9, <1>10, <2>1, <2>2, <2>4, <2>5, <2>6, DictStep
  <1>12. NumbersWithoutGap' /\ EveryVersionExtends'
    <2>1. ASSUME NEW e \in Docs, NEW i \in 1..Len(versions'[e])
          PROVE  Linked(versions'[e], i)
      <3>1. CASE e = d /\ i = n + 1
        <4>1. versions'[e][i] = v1 /\ i - 1 = n
          BY <1>6, <1>7, <3>1
        <4>2. \E j \in 1..n : versions'[e][j].number = job[w].number - 1
          BY <1>3, <1>7, <3>1 DEF NumberIn, HasVersion
        <4>3. PICK j \in 1..n : versions'[e][j].hash = job[w].hash
          BY <1>3, <1>7, <3>1 DEF HashIn
        <4>4. i # 1
          BY <1>6, <3>1, <4>3
        <4>5. v1.hash = ContentHash(v1.content, versions'[e][j].hash)
          BY <1>4, <4>3
        <4> QED
          BY <1>4, <4>1, <4>2, <4>3, <4>4, <4>5 DEF Linked
      <3>2. CASE e = d /\ i # n + 1
        <4>1. i \in 1..n /\ i \in Nat /\ i >= 1
          BY <1>6, <1>7, <3>2
        <4>2. \A j \in 1..i : j \in 1..n
          BY <1>6, <4>1
        <4>3. \A j \in 1..i : versions'[d][j] = versions[d][j]
          BY <1>7, <4>2
        <4>4. Linked(versions[d], i)
          BY <1>2, <4>1, AllLinked DEF IInv
        <4> QED
          BY <3>2, <4>1, <4>3, <4>4, LinkedPrefix
      <3>3. CASE e # d
        <4>1. versions'[e] = versions[e]
          BY <1>5, <3>3
        <4>2. Linked(versions[e], i)
          BY <4>1, AllLinked DEF IInv
        <4> QED
          BY <4>1, <4>2
      <3> QED
        BY <3>1, <3>2, <3>3
    <2>2. \A e \in Docs : \A i \in 1..Len(versions'[e]) : Linked(versions'[e], i)
      BY <2>1
    <2> QED
      BY <2>2 DEF Linked, NumbersWithoutGap, EveryVersionExtends
  <1>13. PublishedIsKept'
    <2> SUFFICES ASSUME NEW e \in Docs, NEW v \in acked[e] PROVE InHistory(e, v)'
      BY <1>1 DEF PublishedIsKept, InHistory
    <2>1. InHistory(e, v)
      BY DEF IInv, PublishedIsKept, InHistory
    <2> QED
      BY <1>8, <1>9, <2>1, KeptIsThere DEF IInv, InHistory
  <1>14. \A e \in Docs : DocInv(e)'
    <2> TAKE e \in Docs
    <2>1. versions[e] = <<>> <=> versions'[e] = <<>>
      BY <1>5, <1>6, <1>7
    <2>2. \A x : NumberIn(e, x) => NumberIn(e, x)'
      BY <1>8, <1>9, KeptIsThere DEF IInv
    <2>3. NumberIn(e, documents[e].current) => NumberIn(e, documents[e].current)'
      BY <1>1, <2>2 DEF NumberIn
    <2> QED
      BY <1>1, <2>1, <2>3 DEF IInv, DocInv
  <1>15. IndexPointsHome' /\ LatestIsFound'
    <2>1. \A c \in Categories : index[c] # NoDoc => index[c] \in Docs
      BY DEF IInv, TypeOK
    <2> QED
      BY <1>1, <1>5, <1>7, <2>1 DEF IInv, IndexPointsHome, LatestIsFound
  <1> QED
    BY <1>8, <1>11, <1>12, <1>13, <1>14, <1>15 DEF IInv

LEMMA ReplaceDocumentIInv ==
  ASSUME IInv, NEW w \in Workers, ReplaceDocument(w)
  PROVE  IInv'
  <1> DEFINE d == job[w].doc
             v1 == NewVersion(job[w])
             doc == [documents[d] EXCEPT !.current = job[w].number]
  <1>1. /\ phase[w] = "appended" /\ phase' = [phase EXCEPT ![w] = "idle"]
        /\ job' = [job EXCEPT ![w] = NoJob]
        /\ documents' = [documents EXCEPT ![d].current = job[w].number]
        /\ answer' = "200"
        /\ acked' = [acked EXCEPT ![d] = @ \cup {v1}]
        /\ UNCHANGED <<versions, index, publications, disturbed>>
    BY DEF ReplaceDocument, Proceed, Acknowledge
  <1>2. job[w] \in Job /\ d \in Docs /\ job[w].number \in Nat
    BY <1>1, JobType DEF IInv
  <1>3. InHistory(d, v1) /\ v1.number = job[w].number
    BY <1>1 DEF IInv, JobInv, NewVersion
  <1>4. v1 \in DocumentVersion /\ versions[d] # <<>>
    BY <1>2, <1>3, HistoryType, InNonempty DEF IInv, InHistory
  <1>5. documents[d] # NoDoc /\ documents[d] \in Document
    BY <1>2, <1>4 DEF IInv, DocInv, TypeOK
  <1>6. /\ doc \in Document /\ doc # NoDoc
        /\ doc.category = documents[d].category /\ doc.current = job[w].number
    BY <1>2, <1>5, SentinelAssumption DEF Document
  <1>7. documents'[d] = doc /\ \A e \in Docs \ {d} : documents'[e] = documents[e]
    BY <1>1, <1>2 DEF IInv, TypeOK
  <1>8. acked'[d] = acked[d] \cup {v1} /\ \A e \in Docs \ {d} : acked'[e] = acked[e]
    BY <1>1, <1>2 DEF IInv, TypeOK
  <1>9. TypeOK'
    <2>1. phase' = [phase EXCEPT ![w] = phase'[w]] /\ job' = [job EXCEPT ![w] = job'[w]]
      BY <1>1 DEF IInv, TypeOK
    <2>2. documents' \in [Docs -> Document \cup {NoDoc}]
      BY <1>1, <1>6, <1>7 DEF IInv, TypeOK
    <2>3. acked' \in [Docs -> SUBSET DocumentVersion]
      BY <1>1, <1>4 DEF IInv, TypeOK
    <2>4. phase'[w] = "idle" /\ job'[w] = NoJob
      BY <1>1 DEF IInv, TypeOK
    <2> QED
      BY <1>1, <2>1, <2>2, <2>3, <2>4, MoveType DEF IInv, TypeOK
  <1>10. Kept
    BY <1>1, HistoryType DEF IInv, Kept
  <1>11. (\A v \in Workers : JobInv(v)') /\ ApartInv'
    <2>1. phase'[w] = "idle"
      BY <1>1 DEF IInv, TypeOK
    <2>2. JobInv(w)' /\ ~Registering(w)'
      BY <2>1 DEF JobInv, Registering
    <2>3. \A v \in Workers \ {w} : phase'[v] = phase[v] /\ job'[v] = job[v]
      BY <1>1 DEF IInv, TypeOK
    <2>4. \A v \in Workers : Registering(v) => versions[job[v].doc] = <<>>
      BY DEF IInv, JobInv
    <2>5. \A v \in Workers \ {w} : Registering(v) =>
            documents'[job[v].doc] = documents[job[v].doc]
      BY <1>4, <1>7, <2>4, JobType DEF IInv, Registering
    <2>6. \A e \in Docs : documents[e] # NoDoc =>
            documents'[e] # NoDoc /\ documents'[e].category = documents[e].category
      BY <1>6, <1>7
    <2>7. versions' = versions
      BY <1>1
    <2> QED
      BY <1>9, <1>10, <2>2, <2>3, <2>5, <2>6, <2>7, DictStep
  <1>12. PublishedIsKept'
    <2> SUFFICES ASSUME NEW e \in Docs, NEW v \in acked'[e]
                 PROVE  \E i \in 1..Len(versions[e]) : versions[e][i] = v
      BY <1>1 DEF PublishedIsKept
    <2>1. CASE v \in acked[e]
      BY <2>1 DEF IInv, PublishedIsKept
    <2>2. CASE v \notin acked[e]
      BY <1>3, <1>8, <2>2 DEF InHistory
    <2> QED
      BY <2>1, <2>2
  <1>13. \A e \in Docs : DocInv(e)'
    <2> TAKE e \in Docs
    <2>1. CASE e = d
      <3>1. \E i \in 1..Len(versions[d]) : versions[d][i].number = job[w].number
        BY <1>3 DEF InHistory
      <3> QED
        BY <1>1, <1>4, <1>6, <1>7, <2>1, <3>1 DEF DocInv, NumberIn, HasVersion
    <2>2. CASE e # d
      BY <1>1, <1>7, <2>2 DEF IInv, DocInv, NumberIn
    <2> QED
      BY <2>1, <2>2
  <1>14. IndexPointsHome'
    <2>1. \A c \in Categories : index[c] # NoDoc => index[c] \in Docs
      BY DEF IInv, TypeOK
    <2> QED
      BY <1>1, <1>6, <1>7, <2>1 DEF IInv, IndexPointsHome
  <1>15. NumbersWithoutGap' /\ EveryVersionExtends' /\ LatestIsFound'
    BY <1>1 DEF IInv, NumbersWithoutGap, EveryVersionExtends, LatestIsFound
  <1> QED
    BY <1>9, <1>11, <1>12, <1>13, <1>14, <1>15 DEF IInv

-----------------------------------------------------------------------------
(* The invariant and the theorems                                           *)

LEMMA NextIInv == IInv /\ [Next]_vars => IInv'
  <1> SUFFICES ASSUME IInv, [Next]_vars PROVE IInv'
    OBVIOUS
  <1>1. ASSUME NEW w \in Workers, Step(w) PROVE IInv'
    BY <1>1, RegisterDocumentIInv, RegisterVersionsIInv, RegisterIndexIInv,
       ReadNumberIInv, AppendVersionIInv, ReplaceDocumentIInv, LatestEndIInv DEF Step
  <1>2. ASSUME NEW w \in Workers, Request(w) PROVE IInv'
    <2>1. CASE \E c \in Categories : RegisterCheck(w, c)
      BY <2>1, RegisterCheckIInv
    <2>2. CASE \E d \in Docs : PublishBegin(w, d) \/ LatestBegin(w, d)
      BY <2>2, PublishBeginIInv, LatestBeginIInv
    <2>3. CASE \E c \in Categories : RegisterDuplicate(w, c) \/ ByCategory(w, c)
      <3>1. AnswerNow(w, answer') /\ answer' \in {"200", "404", "409", "500"}
        BY <2>3 DEF RegisterDuplicate, ByCategory, AnswerNow
      <3> QED
        BY <3>1, AnswerNowIInv
    <2>4. CASE \E d \in Docs : VerifyChain(w, d) \/ NotFound(w, d) \/ NoVersionsYet(w, d)
      <3>1. AnswerNow(w, answer') /\ answer' \in {"404", "500", "intact", "broken"}
        BY <2>4 DEF VerifyChain, NotFound, NoVersionsYet, AnswerNow
      <3> QED
        BY <3>1, AnswerNowIInv
    <2> QED
      BY <1>2, <2>1, <2>2, <2>3, <2>4 DEF Request
  <1>3. CASE UNCHANGED vars
    <2> USE <1>3 DEF vars, storeVars
    <2>1. TypeOK' /\ LatestIsFound'
      BY DEF IInv, TypeOK, LatestIsFound
    <2>2. /\ NumbersWithoutGap' /\ EveryVersionExtends'
          /\ PublishedIsKept' /\ IndexPointsHome'
      BY DEF IInv, NumbersWithoutGap, EveryVersionExtends, PublishedIsKept, IndexPointsHome
    <2>3. \A d \in Docs : DocInv(d)'
      BY DEF IInv, DocInv, NumberIn
    <2>4. Kept
      BY HistoryType DEF IInv, Kept
    <2>5. ASSUME NEW w \in Workers PROVE JobInv(w)'
      BY <2>1, <2>4, OthersKnow DEF IInv
    <2>6. ApartInv'
      BY DEF IInv, ApartInv, Registering
    <2> QED
      BY <2>1, <2>2, <2>3, <2>5, <2>6 DEF IInv
  <1> QED
    BY <1>1, <1>2, <1>3 DEF Next

\* The invariant holds of every reachable state.
THEOREM InvariantHolds == Spec => []IInv
  BY InitIInv, NextIInv, PTL DEF Spec

\* The variables keep their types.
THEOREM TypeCorrect == Spec => []TypeOK
  <1>1. IInv => TypeOK
    BY DEF IInv
  <1> QED
    BY <1>1, InvariantHolds, PTL

\* However many publications race, version numbers have no gap: see
\* publish_version() in canonical_repository/store.py.
THEOREM NumbersHaveNoGap == Spec => []NumbersWithoutGap
  <1>1. IInv => NumbersWithoutGap
    BY DEF IInv
  <1> QED
    BY <1>1, InvariantHolds, PTL

\* However many publications race, every version is hashed on top of one
\* published before it: a race forks the chain, and detaches nothing.
THEOREM VersionsExtend == Spec => []EveryVersionExtends
  <1>1. IInv => EveryVersionExtends
    BY DEF IInv
  <1> QED
    BY <1>1, InvariantHolds, PTL

\* latest_version() finds the version it looks for, whatever is published
\* between its two reads.
THEOREM LatestFound == Spec => []LatestIsFound
  <1>1. IInv => LatestIsFound
    BY DEF IInv
  <1> QED
    BY <1>1, InvariantHolds, PTL

\* What a client of publish_version() or register() was told of stays in the
\* history.
THEOREM PublishedKept == Spec => []PublishedIsKept
  <1>1. IInv => PublishedIsKept
    BY DEF IInv
  <1> QED
    BY <1>1, InvariantHolds, PTL

\* A document that is found by its category has versions, however many
\* registrations race.
THEOREM IndexIsSound == Spec => []IndexPointsHome
  <1>1. IInv => IndexPointsHome
    BY DEF IInv
  <1> QED
    BY <1>1, InvariantHolds, PTL

-----------------------------------------------------------------------------
(* The hash chain of a document whose publications never overlapped.  Such  *)
(* a document has at most one publisher at a time, and what the publisher   *)
(* carries in local variables is still the end of the history.              *)

\* What the only publisher of d carries continues its history.
Continues(w, d) ==
  LET history == versions[d] IN
  /\ phase[w] \in {"hashed", "numbered"} => job[w].hash = Last(history).hash
  /\ phase[w] = "numbered" => job[w].number = Len(history) + 1
  /\ phase[w] = "appended" => job[w].number = Len(history)

Counted(history) == \A i \in 1..Len(history) : history[i].number = i

ChainOf(d) ==
  /\ ChainIntact(versions[d])
  /\ Counted(versions[d])
  /\ \A w, v \in PublishersOf(d) : w = v
  /\ \A w \in PublishersOf(d) : Continues(w, d)
  /\ versions[d] # <<>> /\ PublishersOf(d) = {} => documents[d].current = Len(versions[d])

ChainInv == \A d \in Docs \ disturbed : ChainOf(d)

-----------------------------------------------------------------------------

\* A publisher's document has a history.
LEMMA PublisherHasHistory ==
  ASSUME IInv, NEW d \in Docs, NEW w \in PublishersOf(d)
  PROVE  w \in Workers /\ job[w].doc = d /\ job[w] \in Job /\ versions[d] # <<>>
  <1>1. w \in Workers /\ phase[w] \in {"hashed", "numbered", "appended"} /\ job[w].doc = d
    BY DEF PublishersOf
  <1>2. JobInv(w) /\ job[w] \in Job
    BY <1>1, JobType DEF IInv
  <1>3. HashIn(d, job[w].hash) \/ InHistory(d, NewVersion(job[w]))
    BY <1>1, <1>2 DEF JobInv
  <1> QED
    BY <1>1, <1>2, <1>3, InNonempty

\* A step that moves no publisher of d leaves its chain alone.
LEMMA ChainUntouched ==
  ASSUME NEW d \in Docs, ChainOf(d), versions'[d] = versions[d],
         versions[d] = <<>> \/ documents'[d] = documents[d],
         \A w \in Workers :
           \/ phase'[w] = phase[w] /\ job'[w] = job[w]
           \/ w \notin PublishersOf(d) /\ phase'[w] \notin {"hashed", "numbered", "appended"}
  PROVE  ChainOf(d)'
  <1>1. PublishersOf(d)' = PublishersOf(d)
    BY DEF PublishersOf
  <1>2. \A w \in PublishersOf(d) : phase'[w] = phase[w] /\ job'[w] = job[w]
    BY DEF PublishersOf
  <1>3. \A w \in PublishersOf(d) : Continues(w, d)'
    BY <1>2 DEF ChainOf, Continues
  <1> QED
    BY <1>1, <1>3 DEF ChainOf, ChainIntact, Counted

\* Steps of w outside publications.
LEMMA OtherStep ==
  ASSUME IInv, IInv', ChainInv, NEW w \in Workers,
         \A v \in Workers \ {w} : phase'[v] = phase[v] /\ job'[v] = job[v],
         phase[w] \notin {"hashed", "numbered", "appended"},
         phase'[w] \notin {"hashed", "numbered", "appended"},
         versions' = versions, disturbed' = disturbed,
         \A d \in Docs : versions[d] = <<>> \/ documents'[d] = documents[d]
  PROVE  ChainInv'
  <1> SUFFICES ASSUME NEW d \in Docs, d \notin disturbed PROVE ChainOf(d)'
    BY DEF ChainInv
  <1>1. ChainOf(d) /\ w \notin PublishersOf(d)
    BY DEF ChainInv, PublishersOf
  <1> QED
    BY <1>1, ChainUntouched

-----------------------------------------------------------------------------
(* Registration and publication                                             *)

\* The first version is a chain.
LEMMA RegisterVersionsChain ==
  ASSUME IInv, IInv', ChainInv, NEW w \in Workers, RegisterVersions(w)
  PROVE  ChainInv'
  <1> SUFFICES ASSUME NEW d \in Docs, d \notin disturbed PROVE ChainOf(d)'
    BY DEF ChainInv, RegisterVersions
  <1> DEFINE v1 == NewVersion(job[w])
  <1>1. /\ phase[w] = "documented" /\ phase' = [phase EXCEPT ![w] = "versioned"]
        /\ versions' = [versions EXCEPT ![job[w].doc] = <<v1>>]
        /\ UNCHANGED <<documents, job>>
    BY DEF RegisterVersions, Proceed
  <1>2. /\ ChainOf(d) /\ w \notin PublishersOf(d)
        /\ \A v \in Workers \ {w} : phase'[v] = phase[v]
        /\ phase'[w] = "versioned" /\ job[w].doc \in Docs
    BY <1>1, JobType DEF ChainInv, PublishersOf, IInv, TypeOK
  <1>3. CASE d # job[w].doc
    <2>1. versions'[d] = versions[d] /\ documents'[d] = documents[d]
      BY <1>1, <1>3 DEF IInv, TypeOK
    <2> QED
      BY <1>1, <1>2, <2>1, ChainUntouched
  <1>4. CASE d = job[w].doc
    <2>1. /\ versions[d] = <<>> /\ job[w].number = 1 /\ job[w].hash = <<>>
          /\ documents[d].current = 1
      <3>1. JobInv(w) /\ Registering(w)
        BY <1>1 DEF IInv, Registering
      <3>2. /\ versions[d] = <<>> /\ job[w].number = 1 /\ job[w].hash = <<>>
            /\ documents[d] = [category |-> job[w].category, current |-> 1]
        BY <1>1, <1>4, <3>1 DEF JobInv
      <3> QED
        BY <3>2
    <2>2. PublishersOf(d)' = {}
      <3>1. PublishersOf(d) = {}
        BY <2>1, PublisherHasHistory
      <3> QED
        BY <1>1, <1>2, <3>1 DEF PublishersOf
    <2>3. versions'[d] = <<v1>> /\ v1.number = 1 /\ v1.hash = ContentHash(v1.content, <<>>)
      BY <1>1, <1>2, <1>4, <2>1 DEF NewVersion, IInv, TypeOK
    <2>4. Len(versions'[d]) = 1 /\ versions'[d][1] = v1
      BY <2>3
    <2>5. ChainIntact(versions'[d]) /\ Counted(versions'[d])
      BY <2>3, <2>4 DEF ChainIntact, Counted
    <2> QED
      BY <1>1, <2>1, <2>2, <2>4, <2>5 DEF ChainOf
  <1> QED
    BY <1>3, <1>4

\* A publication of an undisturbed document begins alone, at the end of its
\* history.
LEMMA PublishBeginChain ==
  ASSUME IInv, IInv', ChainInv, NEW w \in Workers, NEW e \in Docs, PublishBegin(w, e)
  PROVE  ChainInv'
  <1> SUFFICES ASSUME NEW d \in Docs, d \notin disturbed' PROVE ChainOf(d)'
    BY DEF ChainInv
  <1>1. /\ phase[w] = "idle" /\ phase' = [phase EXCEPT ![w] = "hashed"]
        /\ UNCHANGED storeVars
        /\ job' = [job EXCEPT ![w] = job'[w]]
        /\ job'[w].doc = e /\ job'[w].hash = Last(versions[e]).hash
        /\ disturbed' = IF PublishersOf(e) # {} THEN disturbed \cup {e} ELSE disturbed
    BY DEF PublishBegin, Proceed, IInv, TypeOK
  <1>2. /\ ChainOf(d) /\ w \notin PublishersOf(d) /\ phase'[w] = "hashed"
        /\ \A v \in Workers \ {w} : phase'[v] = phase[v] /\ job'[v] = job[v]
    BY <1>1 DEF ChainInv, PublishersOf, IInv, TypeOK
  <1>3. CASE d # e
    <2>1. PublishersOf(d)' = PublishersOf(d)
      BY <1>1, <1>2, <1>3 DEF PublishersOf
    <2>2. \A v \in PublishersOf(d) : Continues(v, d)'
      BY <1>1, <1>2 DEF ChainOf, Continues, PublishersOf, storeVars
    <2> QED
      BY <1>1, <1>2, <2>1, <2>2 DEF ChainOf, storeVars
  <1>4. CASE d = e
    <2>1. PublishersOf(d) = {}
      BY <1>1, <1>4
    <2>2. PublishersOf(d)' = {w}
      BY <1>1, <1>2, <1>4, <2>1 DEF PublishersOf
    <2>3. Continues(w, d)'
      BY <1>1, <1>2, <1>4 DEF Continues, storeVars
    <2> QED
      BY <1>1, <1>2, <2>2, <2>3 DEF ChainOf, storeVars
  <1> QED
    BY <1>3, <1>4

\* What a publisher's step means for the document it works on, and for others.
LEMMA PublisherStep ==
  ASSUME IInv, IInv', ChainInv, NEW w \in Workers,
         phase[w] \in {"hashed", "numbered", "appended"},
         \A v \in Workers \ {w} : phase'[v] = phase[v] /\ job'[v] = job[v],
         phase'[w] \in {"numbered", "appended"} => job'[w].doc = job[w].doc,
         phase'[w] \in {"idle", "numbered", "appended"},
         disturbed' = disturbed,
         \A d \in Docs \ {job[w].doc} :
           versions'[d] = versions[d] /\ documents'[d] = documents[d],
         job[w].doc \notin disturbed /\ ChainOf(job[w].doc)
           /\ PublishersOf(job[w].doc) = {w} /\ Continues(w, job[w].doc)
           => /\ ChainIntact(versions'[job[w].doc])
              /\ Counted(versions'[job[w].doc])
              /\ phase'[w] # "idle" => Continues(w, job[w].doc)'
              /\ phase'[w] = "idle" =>
                   documents'[job[w].doc].current = Len(versions'[job[w].doc])
  PROVE  ChainInv'
  <1> SUFFICES ASSUME NEW d \in Docs, d \notin disturbed PROVE ChainOf(d)'
    BY DEF ChainInv
  <1>1. ChainOf(d)
    BY DEF ChainInv
  <1>2. CASE d # job[w].doc
    <2>1. PublishersOf(d)' = PublishersOf(d) /\ w \notin PublishersOf(d)
      BY <1>2 DEF PublishersOf
    <2>2. \A v \in PublishersOf(d) : Continues(v, d)'
      BY <1>1, <1>2, <2>1 DEF ChainOf, Continues, PublishersOf
    <2> QED
      BY <1>1, <1>2, <2>1, <2>2 DEF ChainOf
  <1>3. CASE d = job[w].doc
    <2>1. w \in PublishersOf(d)
      BY <1>3 DEF PublishersOf
    <2>2. PublishersOf(d) = {w} /\ Continues(w, d)
      BY <1>1, <2>1 DEF ChainOf
    <2>3. PublishersOf(d)' = IF phase'[w] = "idle" THEN {} ELSE {w}
      BY <1>3, <2>2 DEF PublishersOf
    <2> QED
      BY <1>1, <1>3, <2>2, <2>3 DEF ChainOf
  <1> QED
    BY <1>2, <1>3

LEMMA ReadNumberChain ==
  ASSUME IInv, IInv', ChainInv, NEW w \in Workers, ReadNumber(w)
  PROVE  ChainInv'
  <1> DEFINE d == job[w].doc
  <1>1. /\ phase[w] = "hashed" /\ phase' = [phase EXCEPT ![w] = "numbered"]
        /\ job' = [job EXCEPT ![w].number = Last(versions[d]).number + 1]
        /\ UNCHANGED <<storeVars, disturbed>>
    BY DEF ReadNumber, Proceed
  <1>2. job[w] \in Job /\ d \in Docs
    BY <1>1, JobType DEF IInv
  <1>3. /\ phase'[w] = "numbered" /\ job'[w].doc = d /\ job'[w].hash = job[w].hash
        /\ job'[w].number = Last(versions[d]).number + 1
        /\ \A v \in Workers \ {w} : phase'[v] = phase[v] /\ job'[v] = job[v]
    BY <1>1, <1>2 DEF IInv, TypeOK, Job
  <1>4. ASSUME ChainOf(d), Continues(w, d)
        PROVE  ChainIntact(versions'[d]) /\ Counted(versions'[d]) /\ Continues(w, d)'
    <2>1. versions[d] # <<>> /\ versions[d] \in Seq(DocumentVersion)
      BY <1>1, <1>2, PublisherHasHistory, HistoryType DEF PublishersOf, IInv
    <2>2. Last(versions[d]).number = Len(versions[d])
      BY <1>4, <2>1 DEF ChainOf, Counted, Last
    <2> QED
      BY <1>1, <1>3, <1>4, <2>2 DEF ChainOf, Continues, storeVars
  <1> QED
    BY <1>1, <1>3, <1>4, PublisherStep DEF storeVars

LEMMA AppendVersionChain ==
  ASSUME IInv, IInv', ChainInv, NEW w \in Workers, AppendVersion(w)
  PROVE  ChainInv'
  <1> DEFINE d == job[w].doc
             v1 == NewVersion(job[w])
             n == Len(versions[d])
  <1>1. /\ phase[w] = "numbered" /\ phase' = [phase EXCEPT ![w] = "appended"]
        /\ versions' = [versions EXCEPT ![d] = Append(@, v1)]
        /\ UNCHANGED <<documents, job, disturbed>>
    BY DEF AppendVersion, Proceed
  <1>2. /\ job[w] \in Job /\ d \in Docs /\ phase'[w] = "appended"
        /\ \A v \in Workers \ {w} : phase'[v] = phase[v]
        /\ versions'[d] = Append(versions[d], v1)
        /\ \A e \in Docs \ {d} : versions'[e] = versions[e]
    BY <1>1, JobType DEF IInv, TypeOK
  <1>3. versions[d] # <<>> /\ versions[d] \in Seq(DocumentVersion) /\ n \in Nat
    BY <1>1, <1>2, PublisherHasHistory, HistoryType DEF PublishersOf, IInv
  <1>4. /\ Len(versions'[d]) = n + 1 /\ versions'[d][n + 1] = v1 /\ n >= 1
        /\ \A i \in 1..n : versions'[d][i] = versions[d][i]
    BY <1>2, <1>3
  <1>5. ASSUME ChainOf(d), Continues(w, d)
        PROVE  ChainIntact(versions'[d]) /\ Counted(versions'[d]) /\ Continues(w, d)'
    <2>1. job[w].hash = versions[d][n].hash /\ job[w].number = n + 1
      BY <1>1, <1>5 DEF Continues, Last
    <2>2. v1.hash = ContentHash(v1.content, versions[d][n].hash) /\ v1.number = n + 1
      BY <2>1 DEF NewVersion
    <2>3. Counted(versions'[d])
      <3>1. \A i \in 1..n : versions'[d][i].number = i
        BY <1>4, <1>5 DEF ChainOf, Counted
      <3>2. versions'[d][n + 1].number = n + 1
        BY <1>4, <2>2
      <3>3. \A i \in 1..(n + 1) : i = n + 1 \/ i \in 1..n
        BY <1>3
      <3> QED
        BY <1>4, <3>1, <3>2, <3>3 DEF Counted
    <2>4. ChainIntact(versions'[d])
      <3> SUFFICES ASSUME NEW i \in 1..(n + 1)
                   PROVE  versions'[d][i].hash =
                            ContentHash(versions'[d][i].content,
                                        IF i = 1 THEN <<>> ELSE versions'[d][i - 1].hash)
        BY <1>4 DEF ChainIntact
      <3>1. CASE i = n + 1
        <4>1. i # 1 /\ i - 1 = n /\ n \in 1..n
          BY <1>3, <1>4, <3>1
        <4> QED
          BY <1>4, <2>2, <3>1, <4>1
      <3>2. CASE i \in 1..n
        <4>1. i # 1 => i - 1 \in 1..n
          BY <1>3, <3>2
        <4>2. versions[d][i].hash =
                ContentHash(versions[d][i].content,
                            IF i = 1 THEN <<>> ELSE versions[d][i - 1].hash)
          BY <1>5, <3>2 DEF ChainOf, ChainIntact
        <4> QED
          BY <1>4, <3>2, <4>1, <4>2
      <3> QED
        BY <1>3, <3>1, <3>2
    <2>5. Continues(w, d)'
      BY <1>1, <1>2, <1>4, <2>1 DEF Continues
    <2> QED
      BY <2>3, <2>4, <2>5
  <1> QED
    BY <1>1, <1>2, <1>5, PublisherStep

LEMMA ReplaceDocumentChain ==
  ASSUME IInv, IInv', ChainInv, NEW w \in Workers, ReplaceDocument(w)
  PROVE  ChainInv'
  <1> DEFINE d == job[w].doc
  <1>1. /\ phase[w] = "appended" /\ phase' = [phase EXCEPT ![w] = "idle"]
        /\ job' = [job EXCEPT ![w] = NoJob]
        /\ documents' = [documents EXCEPT ![d].current = job[w].number]
        /\ UNCHANGED <<versions, disturbed>>
    BY DEF ReplaceDocument, Acknowledge, Proceed
  <1>2. /\ job[w] \in Job /\ d \in Docs /\ phase'[w] = "idle"
        /\ \A v \in Workers \ {w} : phase'[v] = phase[v] /\ job'[v] = job[v]
        /\ \A e \in Docs \ {d} : documents'[e] = documents[e]
    BY <1>1, JobType DEF IInv, TypeOK
  <1>3. documents'[d].current = job[w].number
    <2>1. versions[d] # <<>>
      BY <1>1, <1>2, PublisherHasHistory DEF PublishersOf
    <2>2. documents[d] \in Document
      BY <1>2, <2>1 DEF IInv, DocInv, TypeOK
    <2> QED
      BY <1>1, <1>2, <2>2 DEF Document, IInv, TypeOK
  <1>4. ASSUME ChainOf(d), Continues(w, d)
        PROVE  /\ ChainIntact(versions'[d]) /\ Counted(versions'[d])
               /\ documents'[d].current = Len(versions'[d])
    BY <1>1, <1>3, <1>4 DEF ChainOf, Continues
  <1> QED
    BY <1>1, <1>2, <1>4, PublisherStep

-----------------------------------------------------------------------------

\* Steps that no publisher takes.
LEMMA OtherChain ==
  ASSUME IInv, IInv', ChainInv, NEW w \in Workers,
         \/ \E c \in Categories : RegisterCheck(w, c)
         \/ \E d \in Docs : LatestBegin(w, d)
         \/ AnswerNow(w, answer')
         \/ RegisterDocument(w) \/ RegisterIndex(w) \/ LatestEnd(w)
  PROVE  ChainInv'
  <1>1. CASE (\E c \in Categories : RegisterCheck(w, c)) \/ (\E d \in Docs : LatestBegin(w, d))
    <2>1. /\ phase[w] = "idle" /\ phase'[w] \in {"checked", "reading"}
          /\ \A v \in Workers \ {w} : phase'[v] = phase[v] /\ job'[v] = job[v]
          /\ UNCHANGED <<storeVars, disturbed>>
      BY <1>1 DEF RegisterCheck, LatestBegin, Proceed, IInv, TypeOK
    <2> QED
      BY <2>1, OtherStep DEF storeVars
  <1>2. CASE AnswerNow(w, answer')
    BY <1>2, OtherStep DEF AnswerNow, storeVars
  <1>3. CASE RegisterDocument(w)
    <2>1. /\ phase[w] = "checked" /\ phase'[w] = "documented"
          /\ \A v \in Workers \ {w} : phase'[v] = phase[v] /\ job'[v] = job[v]
          /\ versions' = versions /\ disturbed' = disturbed
      BY <1>3 DEF RegisterDocument, Proceed, IInv, TypeOK
    <2>2. versions[job[w].doc] = <<>>
      BY <2>1 DEF IInv, JobInv, Registering
    <2>3. \A d \in Docs : versions[d] = <<>> \/ documents'[d] = documents[d]
      BY <1>3, <2>2 DEF RegisterDocument, IInv, TypeOK
    <2> QED
      BY <2>1, <2>3, OtherStep
  <1>4. CASE RegisterIndex(w) \/ LatestEnd(w)
    <2>1. /\ phase[w] \in {"versioned", "reading"} /\ phase'[w] = "idle"
          /\ \A v \in Workers \ {w} : phase'[v] = phase[v] /\ job'[v] = job[v]
          /\ UNCHANGED <<documents, versions, disturbed>>
      BY <1>4 DEF RegisterIndex, LatestEnd, Acknowledge, Proceed, IInv, TypeOK, storeVars
    <2> QED
      BY <2>1, OtherStep
  <1> QED
    BY <1>1, <1>2, <1>3, <1>4

LEMMA InitChain == Init => ChainInv
  <1> SUFFICES ASSUME Init, NEW d \in Docs PROVE ChainOf(d)
    BY DEF ChainInv
  <1>1. versions[d] = <<>> /\ Len(versions[d]) = 0 /\ PublishersOf(d) = {}
    BY DEF Init, PublishersOf
  <1> QED
    BY <1>1 DEF ChainOf, ChainIntact, Counted

LEMMA NextChain == IInv /\ IInv' /\ ChainInv /\ [Next]_vars => ChainInv'
  <1> SUFFICES ASSUME IInv, IInv', ChainInv, [Next]_vars PROVE ChainInv'
    OBVIOUS
  <1>1. ASSUME NEW w \in Workers, Step(w) PROVE ChainInv'
    BY <1>1, OtherChain, RegisterVersionsChain, ReadNumberChain, AppendVersionChain,
       ReplaceDocumentChain DEF Step
  <1>2. ASSUME NEW w \in Workers, Request(w) PROVE ChainInv'
    <2>1. CASE \E d \in Docs : PublishBegin(w, d)
      BY <2>1, PublishBeginChain
    <2>2. CASE (\E c \in Categories : RegisterCheck(w, c)) \/ (\E d \in Docs : LatestBegin(w, d))
      BY <2>2, OtherChain
    <2>3. CASE \/ \E c \in Categories : RegisterDuplicate(w, c) \/ ByCategory(w, c)
               \/ \E d \in Docs : VerifyChain(w, d) \/ NotFound(w, d) \/ NoVersionsYet(w, d)
      <3>1. AnswerNow(w, answer')
        BY <2>3 DEF RegisterDuplicate, ByCategory, VerifyChain, NotFound, NoVersionsYet, AnswerNow
      <3> QED
        BY <3>1, OtherChain
    <2> QED
      BY <1>2, <2>1, <2>2, <2>3 DEF Request
  <1>3. CASE UNCHANGED vars
    <2> SUFFICES ASSUME NEW d \in Docs, d \notin disturbed PROVE ChainOf(d)'
      BY <1>3 DEF ChainInv, vars
    <2>1. ChainOf(d)
      BY DEF ChainInv
    <2> QED
      BY <1>3, <2>1, ChainUntouched DEF vars, storeVars
  <1> QED
    BY <1>1, <1>2, <1>3 DEF Next

\* A document whose publications never overlapped: its chain verifies, its
\* versions are numbered by their place, and between publications it shows the
\* last one: see publish_version() and verify_chain() in
\* canonical_repository/store.py.
THEOREM ChainVerifies == Spec => []UndisturbedVerifies
  <1>1. Init => ChainInv
    BY InitChain
  <1>2. IInv /\ IInv' /\ ChainInv /\ [Next]_vars => ChainInv'
    BY NextChain
  <1>3. ChainInv => UndisturbedVerifies
    BY DEF ChainInv, ChainOf, Counted, UndisturbedVerifies
  <1> QED
    BY <1>1, <1>2, <1>3, InvariantHolds, PTL DEF Spec
=============================================================================
