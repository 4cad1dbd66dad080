-------------------------- MODULE MDUAdapterProofs --------------------------
(***************************************************************************)
(* Theorems about MDUAdapter, for any number of workers, datasets, changes  *)
(* of MDU's data and restarts.                                              *)
(***************************************************************************)
EXTENDS MDUAdapter, TLAPS

-----------------------------------------------------------------------------
(* The inductive invariant.  An id is good for a dataset if MDU has had it   *)
(* for that dataset, and still has if it never changed it; ids that are      *)
(* good stay good, and every id that handlers and the cache hold is.  With a *)
(* good id a handler sees the list of its dataset, and what is first on it,  *)
(* now or when MDU replied, is among the versions listed.                    *)

Good(d, i) == i \in named[d] /\ (d \notin moved => i = canonical[d])

NamesInv ==
  /\ \A d \in Datasets : canonical[d] # NoId => canonical[d] \in named[d] \cap DOMAIN schema
  /\ \A d \in Datasets : \A i \in named[d] : i < nextId
  /\ \A d, e \in Datasets : d # e => named[d] \cap named[e] = {}

CacheOK == \A d \in Datasets : cache[d] # NoId => Good(d, cache[d])

\* Only datasets are resolved.
TargetOK(w) == phase[w] \in {"resolving", "named"} => job[w].target \in Datasets

\* What a handler got as the id of its dataset.
IdOK(w) ==
  LET d == job[w].target IN
  d \in Datasets =>
    /\ phase[w] = "named" /\ job[w].id = NoId => d \in moved \/ canonical[d] = NoId
    /\ phase[w] = "named" /\ job[w].id # NoId => Good(d, job[w].id)
    /\ phase[w] \in {"fetching", "reported"} => job[w].id # NoId /\ Good(d, job[w].id)

\* What it gets, or got, as the list of versions.
ListOK(w) ==
  LET d == job[w].target IN
  d \in Datasets \ moved =>
    /\ phase[w] = "fetching" => First(schema[canonical[d]]) \in listed[w]
    /\ phase[w] = "reported" => job[w].reply # NoRecord /\ First(job[w].reply) \in listed[w]

HeldInv == CacheOK /\ \A w \in Workers : TargetOK(w) /\ IdOK(w) /\ ListOK(w)

IInv == TypeOK /\ NamesInv /\ HeldInv

\* Ids are numbers from 1 on; the targets of requests are ids or datasets.
LEMMA IdsFact ==
  /\ Ids \subseteq Nat \ {0} /\ NoId \notin Ids /\ Direct \subseteq Ids
  /\ \A i \in Ids \cup {NoId} : i \notin Datasets
  BY BoundsAssumption, TargetAssumption DEF Ids, NoId

\* What is first on a list is a version, or none.
LEMMA FirstFact ==
  ASSUME NEW list \in Lists
  PROVE  First(list) \in Versions \cup {NoVersion}
  <1>1. list \in Seq(Versions \cup {NoVersion})
    BY VersionAssumption
  <1>2. list # <<>> => list[1] \in Versions \cup {NoVersion}
    BY <1>1
  <1> QED
    BY <1>2 DEF First

LEMMA InitIInv == Init => IInv
  <1> SUFFICES ASSUME Init PROVE IInv
    OBVIOUS
  <1> USE DEF Init
  <1>1. nextId \in Nat \ {0} /\ 1..(nextId - 1) \subseteq Ids
    BY BoundsAssumption DEF Ids
  <1>2. \A d \in Datasets : canonical[d] # NoId => canonical[d] \in 1..(nextId - 1)
    OBVIOUS
  <1>3. \A d \in Datasets : named[d] = {canonical[d]} \ {NoId}
    OBVIOUS
  <1>4. TypeOK
    <2>1. named \in [Datasets -> SUBSET Ids]
      BY <1>1, <1>2
    <2>2. DOMAIN schema \subseteq Ids
          /\ \A i \in DOMAIN schema : schema[i] \in Lists
      BY <1>1, VersionAssumption
    <2> QED
      BY <2>1, <2>2 DEF TypeOK
  <1>5. NamesInv
    <2>1. \A d \in Datasets : canonical[d] # NoId => canonical[d] \in named[d] \cap DOMAIN schema
      BY <1>2, <1>3
    <2>2. \A d \in Datasets : \A i \in named[d] : i < nextId
      BY <1>1, <1>2, <1>3
    <2>3. \A d, e \in Datasets : d # e => named[d] \cap named[e] = {}
      BY <1>3
    <2> QED
      BY <2>1, <2>2, <2>3 DEF NamesInv
  <1>6. HeldInv
    BY DEF HeldInv, CacheOK, TargetOK, IdOK, ListOK
  <1> QED
    BY <1>4, <1>5, <1>6 DEF IInv

\* A change of MDU's data: good ids stay good, and handlers hold what they held.
LEMMA ChangeIInv ==
  ASSUME IInv, UNCHANGED handlerVars, TypeOK', NamesInv',
         \A w \in Workers : ListOK(w)',
         \A d \in Datasets : named[d] \subseteq named'[d],
         moved \subseteq moved',
         \A d \in Datasets : d \notin moved' => canonical'[d] = canonical[d]
  PROVE  IInv'
  <1> USE DEF handlerVars
  <1>1. \A d \in Datasets : \A i \in Ids : Good(d, i) => Good(d, i)'
    BY DEF Good
  <1>2. cache \in [Datasets -> Ids \cup {NoId}]
    BY DEF IInv, TypeOK
  <1>3. \A w \in Workers : phase[w] # "idle" => job[w].id \in Ids \cup {NoId}
    BY DEF IInv, TypeOK, Job
  <1>4. HeldInv'
    <2>1. CacheOK'
      BY <1>1, <1>2 DEF IInv, HeldInv, CacheOK
    <2>2. ASSUME NEW w \in Workers PROVE TargetOK(w)'
      BY DEF IInv, HeldInv, TargetOK
    <2>3. ASSUME NEW w \in Workers PROVE IdOK(w)'
      <3> DEFINE d == job[w].target
                 i == job[w].id
      <3>1. phase' = phase /\ job' = job
        OBVIOUS
      <3>2. IdOK(w)
        BY DEF IInv, HeldInv
      <3>3. d \in Datasets /\ i \in Ids /\ Good(d, i) => Good(d, i)'
        BY <1>1
      <3>4. d \in Datasets /\ (d \in moved \/ canonical[d] = NoId) =>
              d \in moved' \/ canonical'[d] = NoId
        OBVIOUS
      <3>5. phase[w] # "idle" => i \in Ids \cup {NoId}
        BY <1>3
      <3> QED
        BY <3>1, <3>2, <3>3, <3>4, <3>5 DEF IdOK, Good
    <2> QED
      BY <2>1, <2>2, <2>3 DEF HeldInv
  <1> QED
    BY <1>4 DEF IInv

\* A change that leaves the other datasets' lists alone.
LEMMA ListKept ==
  ASSUME IInv, UNCHANGED <<handlerVars, listed>>, moved \subseteq moved', NEW w \in Workers,
         \A d \in Datasets : d \notin moved' =>
           /\ canonical'[d] = canonical[d]
           /\ canonical[d] # NoId => schema'[canonical[d]] = schema[canonical[d]]
  PROVE  ListOK(w)'
  <1> DEFINE d == job[w].target
  <1>1. phase' = phase /\ job' = job /\ listed' = listed
    BY DEF handlerVars
  <1>2. ListOK(w) /\ IdOK(w)
    BY DEF IInv, HeldInv
  <1>3. ASSUME d \in Datasets \ moved', phase[w] = "fetching"
        PROVE  First(schema[canonical[d]])' = First(schema[canonical[d]])
    <2>1. canonical[d] # NoId
      BY <1>2, <1>3 DEF IdOK, Good
    <2>2. /\ canonical'[d] = canonical[d]
          /\ schema'[canonical[d]] = schema[canonical[d]]
      BY <1>3, <2>1
    <2> QED
      BY <1>1, <2>2 DEF First
  <1>4. First(job[w].reply)' = First(job[w].reply)
    BY <1>1 DEF First
  <1> QED
    BY <1>1, <1>2, <1>3, <1>4 DEF ListOK

LEMMA RegistersIInv ==
  ASSUME IInv, NEW d \in Datasets, MDURegisters(d)
  PROVE  IInv'
  <1> USE DEF IInv, MDURegisters, Change
  <1>1. nextId \in Ids /\ nextId \in Nat /\ nextId # NoId /\ nextId' = nextId + 1
    BY IdsFact
  <1>2. PICK v \in Lists, keep \in BOOLEAN :
          LET kept == IF keep THEN DOMAIN schema ELSE DOMAIN schema \ {canonical[d]} IN
          schema' = [i \in kept \cup {nextId} |-> IF i = nextId THEN v ELSE schema[i]]
    OBVIOUS
  <1>3. /\ DOMAIN schema \ {canonical[d]} \subseteq DOMAIN schema'
        /\ nextId \in DOMAIN schema'
        /\ DOMAIN schema' \subseteq DOMAIN schema \cup {nextId}
        /\ \A i \in DOMAIN schema' : schema'[i] = v \/ (i \in DOMAIN schema /\ schema'[i] = schema[i])
        /\ \A i \in DOMAIN schema \ {canonical[d], nextId} : schema'[i] = schema[i]
    BY <1>2
  <1>4. canonical \in [Datasets -> Ids \cup {NoId}] /\ named \in [Datasets -> SUBSET Ids]
    BY DEF TypeOK
  <1>5. /\ canonical'[d] = nextId /\ named'[d] = named[d] \cup {nextId}
        /\ \A e \in Datasets \ {d} : canonical'[e] = canonical[e] /\ named'[e] = named[e]
    BY <1>4
  <1>6. TypeOK'
    <2>1. DOMAIN schema' \subseteq Ids /\ \A i \in DOMAIN schema' : schema'[i] \in Lists
      BY <1>1, <1>3 DEF TypeOK
    <2>2. nextId' \in 1..(MaxIds + 1) /\ changes' \in Nat
      BY <1>1, BoundsAssumption DEF TypeOK, Ids
    <2>3. canonical' \in [Datasets -> Ids \cup {NoId}] /\ named' \in [Datasets -> SUBSET Ids]
          /\ moved' \subseteq Datasets
      BY <1>1, <1>4 DEF TypeOK
    <2> QED
      BY <2>1, <2>2, <2>3 DEF TypeOK, handlerVars
  <1>7. NamesInv'
    <2>1. \A e \in Datasets \ {d} : canonical[e] # NoId => canonical[e] # canonical[d]
      BY <1>4 DEF NamesInv
    <2>2. \A e \in Datasets : canonical'[e] # NoId => canonical'[e] \in named'[e] \cap DOMAIN schema'
      BY <1>3, <1>5, <2>1 DEF NamesInv
    <2>3. \A e \in Datasets : \A i \in named'[e] : i < nextId'
      BY <1>1, <1>4, <1>5, IdsFact DEF NamesInv
    <2>4. \A e \in Datasets : nextId \notin named[e]
      BY <1>1 DEF NamesInv
    <2>5. \A e, f \in Datasets : e # f => named'[e] \cap named'[f] = {}
      BY <1>5, <2>4 DEF NamesInv
    <2> QED
      BY <2>2, <2>3, <2>5 DEF NamesInv
  <1>8. /\ moved \subseteq moved'
        /\ \A e \in Datasets : named[e] \subseteq named'[e]
        /\ \A e \in Datasets : e \notin moved' => canonical'[e] = canonical[e]
    BY <1>5
  <1>9. ASSUME NEW e \in Datasets, e \notin moved', canonical[e] # NoId
        PROVE  schema'[canonical[e]] = schema[canonical[e]]
    <2>1. e # d /\ canonical[e] \in DOMAIN schema /\ canonical[e] < nextId
      BY <1>9 DEF NamesInv
    <2>2. canonical[e] # canonical[d] /\ canonical[e] # nextId
      BY <1>1, <1>4, <1>9, <2>1 DEF NamesInv
    <2> QED
      BY <1>3, <2>1, <2>2
  <1>10. \A w \in Workers : ListOK(w)'
    BY <1>8, <1>9, ListKept
  <1> QED
    BY <1>6, <1>7, <1>8, <1>10, ChangeIInv

LEMMA RemovesIInv ==
  ASSUME IInv, NEW d \in Datasets, MDURemoves(d)
  PROVE  IInv'
  <1> USE DEF IInv, MDURemoves, Change
  <1>1. /\ DOMAIN schema' = DOMAIN schema \ {canonical[d]}
        /\ \A i \in DOMAIN schema' : schema'[i] = schema[i]
    OBVIOUS
  <1>2. canonical \in [Datasets -> Ids \cup {NoId}]
    BY DEF TypeOK
  <1>3. /\ canonical'[d] = NoId /\ named' = named
        /\ \A e \in Datasets \ {d} : canonical'[e] = canonical[e]
    BY <1>2
  <1>4. TypeOK'
    BY <1>1, <1>2 DEF TypeOK, handlerVars
  <1>5. NamesInv'
    <2>1. \A e \in Datasets \ {d} : canonical[e] # NoId => canonical[e] # canonical[d]
      BY DEF NamesInv
    <2> QED
      BY <1>1, <1>3, <2>1 DEF NamesInv
  <1>6. moved \subseteq moved' /\ \A e \in Datasets : e \notin moved' => canonical'[e] = canonical[e]
    BY <1>3
  <1>7. ASSUME NEW e \in Datasets, e \notin moved', canonical[e] # NoId
        PROVE  schema'[canonical[e]] = schema[canonical[e]]
    <2>1. e # d /\ canonical[e] \in DOMAIN schema
      BY <1>7 DEF NamesInv
    <2>2. canonical[e] # canonical[d]
      BY <1>2, <1>7, <2>1 DEF NamesInv
    <2> QED
      BY <1>1, <2>1, <2>2
  <1>8. \A w \in Workers : ListOK(w)'
    BY <1>6, <1>7, ListKept
  <1> QED
    BY <1>3, <1>4, <1>5, <1>6, <1>8, ChangeIInv

LEMMA SchemaIInv ==
  ASSUME IInv, NEW i \in DOMAIN schema, MDUChangesSchema(i)
  PROVE  IInv'
  <1> USE DEF IInv, MDUChangesSchema, Change
  <1>1. PICK list \in Lists :
          /\ schema' = [schema EXCEPT ![i] = list]
          /\ listed' = [w \in Workers |->
               IF phase[w] = "fetching" /\ Asked(w) = i THEN listed[w] \cup {First(list)}
                                                       ELSE listed[w]]
    OBVIOUS
  <1>2. /\ DOMAIN schema' = DOMAIN schema
        /\ \A j \in DOMAIN schema' : schema'[j] = IF j = i THEN list ELSE schema[j]
    BY <1>1
  <1>3. TypeOK'
    <2>1. First(list) \in Versions \cup {NoVersion}
      BY FirstFact
    <2>2. listed' \in [Workers -> SUBSET (Versions \cup {NoVersion})]
      BY <1>1, <2>1 DEF TypeOK
    <2> QED
      BY <1>2, <2>2 DEF TypeOK, handlerVars
  <1>4. NamesInv'
    BY <1>2 DEF NamesInv
  <1>5. ASSUME NEW w \in Workers PROVE ListOK(w)'
    <2> DEFINE d == job[w].target
    <2>1. ListOK(w) /\ IdOK(w)
      BY DEF HeldInv
    <2>2. phase' = phase /\ job' = job /\ canonical' = canonical /\ moved' = moved
          /\ listed[w] \subseteq listed'[w]
      BY <1>1 DEF handlerVars
    <2>3. CASE phase[w] = "fetching" /\ d \in Datasets \ moved
      <3>1. canonical[d] \in DOMAIN schema
        BY <2>1, <2>3 DEF IdOK, Good, NamesInv
      <3>2. Asked(w) = canonical[d] /\ First(schema[canonical[d]]) \in listed[w]
        BY <2>1, <2>3 DEF Asked, ListOK
      <3>3. First(schema'[canonical[d]]) \in listed'[w]
        <4>1. CASE canonical[d] = i
          BY <1>1, <1>2, <2>3, <3>1, <3>2, <4>1
        <4>2. CASE canonical[d] # i
          BY <1>2, <2>2, <3>1, <3>2, <4>2
        <4> QED
          BY <4>1, <4>2
      <3> QED
        BY <2>2, <2>3, <3>3 DEF ListOK, First
    <2>4. CASE ~(phase[w] = "fetching" /\ d \in Datasets \ moved)
      BY <2>1, <2>2, <2>4 DEF ListOK, First
    <2> QED
      BY <2>3, <2>4
  <1> QED
    BY <1>3, <1>4, <1>5, ChangeIInv

-----------------------------------------------------------------------------
(* The handlers                                                             *)

\* A handler whose variables do not change, while MDU does not.
LEMMA OthersKept ==
  ASSUME NEW v, TargetOK(v), IdOK(v), ListOK(v),
         phase'[v] = phase[v], job'[v] = job[v], listed'[v] = listed[v], UNCHANGED mduVars
  PROVE  TargetOK(v)' /\ IdOK(v)' /\ ListOK(v)'
  BY DEF TargetOK, IdOK, ListOK, Good, First, mduVars

\* What becomes idle holds nothing.
LEMMA AnswersIInv ==
  ASSUME IInv, NEW w \in Workers, NEW status, NEW verdict, NEW reason,
         Answers(w, status, verdict, reason)
  PROVE  IInv'
  <1> USE DEF IInv, Answers, mduVars
  <1>1. /\ phase'[w] = "idle"
        /\ \A v \in Workers \ {w} : phase'[v] = phase[v] /\ job'[v] = job[v]
    BY DEF TypeOK
  <1>2. TypeOK'
    BY <1>1 DEF TypeOK
  <1>3. NamesInv'
    BY DEF NamesInv
  <1>4. CacheOK'
    BY DEF HeldInv, CacheOK, Good
  <1>5. ASSUME NEW v \in Workers PROVE TargetOK(v)' /\ IdOK(v)' /\ ListOK(v)'
    <2>1. CASE v = w
      BY <1>1, <2>1 DEF TargetOK, IdOK, ListOK
    <2>2. CASE v # w
      <3>1. phase'[v] = phase[v] /\ job'[v] = job[v] /\ listed'[v] = listed[v]
        BY <1>1, <2>2 DEF TypeOK
      <3> QED
        BY <3>1, OthersKept DEF HeldInv
    <2> QED
      BY <2>1, <2>2
  <1> QED
    BY <1>2, <1>3, <1>4, <1>5 DEF HeldInv

\* Errors of MDU end the handler in an answer of one of three kinds.
LEMMA UnavailableAnswers ==
  ASSUME NEW w, NEW kind, NEW reason, Unavailable(w, kind, reason)
  PROVE  \E status, verdict : Answers(w, status, verdict, reason)
  BY DEF Unavailable

LEMMA BrokenAnswers ==
  ASSUME NEW w, NEW kind, Broken(w, kind)
  PROVE  \E status, verdict : Answers(w, status, verdict, "broken")
  BY DEF Broken

\* A handler goes on, with ids that are good.
LEMMA GoesOnIInv ==
  ASSUME IInv, NEW w \in Workers,
         NEW next \in {"resolving", "named", "fetching", "reported"}, NEW j \in Job,
         NEW versions \in SUBSET (Versions \cup {NoVersion}),
         phase' = [phase EXCEPT ![w] = next], job' = [job EXCEPT ![w] = j],
         listed' = [listed EXCEPT ![w] = versions],
         UNCHANGED <<configured, mduVars, restarts>>,
         cache' \in [Datasets -> Ids \cup {NoId}], CacheOK',
         TargetOK(w)', IdOK(w)', ListOK(w)'
  PROVE  IInv'
  <1> USE DEF IInv, mduVars
  <1>1. /\ phase'[w] = next /\ job'[w] = j
        /\ \A v \in Workers \ {w} : phase'[v] = phase[v] /\ job'[v] = job[v]
    BY DEF TypeOK
  <1>2. TypeOK'
    BY <1>1 DEF TypeOK
  <1>3. NamesInv'
    BY DEF NamesInv
  <1>4. ASSUME NEW v \in Workers \ {w} PROVE TargetOK(v)' /\ IdOK(v)' /\ ListOK(v)'
    <2>1. listed'[v] = listed[v]
      BY DEF TypeOK
    <2> QED
      BY <1>1, <2>1, OthersKept DEF HeldInv
  <1> QED
    BY <1>2, <1>3, <1>4 DEF HeldInv

\* What MDU lists first are versions, or none; with a good id, those of the
\* dataset.
LEMMA ListedFact ==
  ASSUME IInv
  PROVE  /\ \A i : Listed(i) \in SUBSET (Versions \cup {NoVersion})
         /\ \A d \in Datasets : \A i \in Ids : d \notin moved /\ Good(d, i) =>
              i = canonical[d] /\ i \in DOMAIN schema /\ First(schema[i]) \in Listed(canonical[d])
  <1>1. \A i \in DOMAIN schema : First(schema[i]) \in Versions \cup {NoVersion}
    BY FirstFact DEF IInv, TypeOK
  <1>2. ASSUME NEW d \in Datasets, NEW i \in Ids, d \notin moved, Good(d, i)
        PROVE  i = canonical[d] /\ i \in DOMAIN schema
    BY <1>2, IdsFact DEF IInv, NamesInv, Good
  <1> QED
    BY <1>1, <1>2 DEF Listed

LEMMA BeginIInv ==
  ASSUME IInv, NEW w \in Workers, NEW kind \in Kinds, NEW target \in Datasets \cup Direct,
         NEW local \in Locals \cup {NoVersion}, Begin(w, kind, target, local)
  PROVE  IInv'
  <1>1. CASE ~configured
    BY <1>1, UnavailableAnswers, AnswersIInv DEF Begin
  <1>2. CASE configured
    <2> DEFINE id == Resolved(target)
               next == IF id = NoId THEN "resolving" ELSE "fetching"
               j == [kind |-> kind, target |-> target, local |-> local, id |-> id,
                     reply |-> NoRecord]
               asked == IF target \in Datasets THEN canonical[target] ELSE target
               versions == IF id = NoId THEN {} ELSE Listed(asked)
    <2>1. /\ phase' = [phase EXCEPT ![w] = next] /\ job' = [job EXCEPT ![w] = j]
          /\ listed' = [listed EXCEPT ![w] = versions]
          /\ UNCHANGED <<configured, mduVars, cache, restarts>>
      BY <1>2 DEF Begin
    <2>2. /\ id \in Ids \cup {NoId}
          /\ target \notin Datasets => id # NoId
          /\ target \in Datasets /\ id # NoId => Good(target, id)
      BY IdsFact DEF Resolved, IInv, TypeOK, HeldInv, CacheOK
    <2>3. j \in Job /\ j.target = target /\ j.id = id
      BY <2>2 DEF Job
    <2>4. versions \in SUBSET (Versions \cup {NoVersion})
      BY ListedFact
    <2>5. target \in Datasets \ moved /\ id # NoId =>
            First(schema[canonical[target]]) \in versions
      <3> SUFFICES ASSUME target \in Datasets \ moved, id # NoId
                   PROVE  First(schema[canonical[target]]) \in versions
        OBVIOUS
      <3>1. id \in Ids /\ Good(target, id)
        BY <2>2
      <3>2. id = canonical[target] /\ First(schema[id]) \in Listed(canonical[target])
        BY <3>1, ListedFact
      <3> QED
        BY <3>2
    <2>6. next \in {"resolving", "fetching"} /\ (next = "resolving" <=> id = NoId)
      OBVIOUS
    <2> HIDE DEF id, next, j, versions
    <2>7. phase'[w] = next /\ job'[w] = j /\ listed'[w] = versions
      BY <2>1 DEF IInv, TypeOK
    <2>8. TargetOK(w)'
      BY <2>2, <2>3, <2>6, <2>7 DEF TargetOK
    <2>9. IdOK(w)'
      BY <2>1, <2>2, <2>3, <2>6, <2>7 DEF IdOK, Good, mduVars
    <2>10. ListOK(w)'
      BY <2>1, <2>3, <2>5, <2>6, <2>7 DEF ListOK, First, mduVars
    <2>11. cache' \in [Datasets -> Ids \cup {NoId}] /\ CacheOK'
      BY <2>1 DEF IInv, TypeOK, HeldInv, CacheOK, Good, mduVars
    <2> QED
      BY <2>1, <2>3, <2>4, <2>6, <2>8, <2>9, <2>10, <2>11, GoesOnIInv
  <1> QED
    BY <1>1, <1>2

LEMMA NamesIInv ==
  ASSUME IInv, NEW w \in Workers, MDUNames(w)
  PROVE  IInv'
  <1> DEFINE d == job[w].target
             id == canonical[d]
             j == [job[w] EXCEPT !.id = id]
  <1>1. /\ phase[w] = "resolving" /\ phase' = [phase EXCEPT ![w] = "named"]
        /\ job' = [job EXCEPT ![w].id = id]
        /\ UNCHANGED <<configured, mduVars, cache, restarts, listed>>
    BY DEF MDUNames
  <1>2. job[w] \in Job /\ d \in Datasets /\ job \in [Workers -> Job \cup {NoJob}]
    BY <1>1 DEF IInv, TypeOK, HeldInv, TargetOK
  <1>3. id \in Ids \cup {NoId} /\ (id # NoId => Good(d, id))
    BY <1>2 DEF IInv, TypeOK, NamesInv, Good
  <1>4. j \in Job /\ j.target = d /\ j.id = id
    BY <1>2, <1>3 DEF Job
  <1>5. job' = [job EXCEPT ![w] = j] /\ phase'[w] = "named" /\ job'[w] = j
    BY <1>1, <1>2 DEF IInv, TypeOK
  <1>6. /\ listed' = [listed EXCEPT ![w] = listed[w]]
        /\ listed[w] \in SUBSET (Versions \cup {NoVersion})
    BY <1>1 DEF IInv, TypeOK
  <1>7. id = NoId => canonical[d] = NoId
    OBVIOUS
  <1> HIDE DEF j, id, d
  <1>8. TargetOK(w)' /\ ListOK(w)'
    BY <1>2, <1>4, <1>5 DEF TargetOK, ListOK
  <1>9. IdOK(w)'
    BY <1>1, <1>3, <1>4, <1>5, <1>7 DEF IdOK, Good, mduVars
  <1>10. cache' \in [Datasets -> Ids \cup {NoId}] /\ CacheOK'
    BY <1>1 DEF IInv, TypeOK, HeldInv, CacheOK, Good, mduVars
  <1> QED
    BY <1>1, <1>4, <1>5, <1>6, <1>8, <1>9, <1>10, GoesOnIInv

LEMMA CacheIInv ==
  ASSUME IInv, NEW w \in Workers, Cache(w)
  PROVE  IInv'
  <1> DEFINE d == job[w].target
             id == job[w].id
  <1>1. CASE id = NoId
    BY <1>1, UnavailableAnswers, AnswersIInv DEF Cache
  <1>2. CASE id # NoId
    <2>1. /\ phase[w] = "named" /\ phase' = [phase EXCEPT ![w] = "fetching"]
          /\ cache' = [cache EXCEPT ![d] = id]
          /\ listed' = [listed EXCEPT ![w] = Listed(Asked(w))]
          /\ UNCHANGED <<configured, mduVars, job, restarts>>
      BY <1>2 DEF Cache, Keeps
    <2>2. job[w] \in Job /\ d \in Datasets /\ id \in Ids /\ Good(d, id)
      BY <1>2, <2>1 DEF IInv, TypeOK, HeldInv, TargetOK, IdOK, Job
    <2>3. Asked(w) = canonical[d]
      BY <2>2 DEF Asked
    <2>4. Listed(canonical[d]) \in SUBSET (Versions \cup {NoVersion})
      BY ListedFact
    <2>5. d \notin moved => First(schema[canonical[d]]) \in Listed(canonical[d])
      BY <2>2, ListedFact
    <2>6. phase'[w] = "fetching" /\ job'[w] = job[w] /\ listed'[w] = Listed(canonical[d])
      BY <2>1, <2>3 DEF IInv, TypeOK
    <2>7. job' = [job EXCEPT ![w] = job[w]]
      BY <2>1 DEF IInv, TypeOK
    <2>8. TargetOK(w)' /\ IdOK(w)'
      BY <1>2, <2>1, <2>2, <2>6 DEF TargetOK, IdOK, Good, mduVars
    <2>9. ListOK(w)'
      BY <2>1, <2>5, <2>6 DEF ListOK, First, mduVars
    <2>10. cache' \in [Datasets -> Ids \cup {NoId}] /\ CacheOK'
      BY <2>1, <2>2 DEF IInv, TypeOK, HeldInv, CacheOK, Good, mduVars
    <2> QED
      BY <2>1, <2>2, <2>3, <2>4, <2>7, <2>8, <2>9, <2>10, GoesOnIInv
  <1> QED
    BY <1>1, <1>2

LEMMA ReportsIInv ==
  ASSUME IInv, NEW w \in Workers, MDUReports(w)
  PROVE  IInv'
  <1> DEFINE d == job[w].target
             id == job[w].id
             reply == IF id \in DOMAIN schema THEN schema[id] ELSE NoRecord
             j == [job[w] EXCEPT !.reply = reply]
  <1>1. /\ phase[w] = "fetching" /\ phase' = [phase EXCEPT ![w] = "reported"]
        /\ job' = [job EXCEPT ![w].reply = reply]
        /\ UNCHANGED <<configured, mduVars, cache, restarts, listed>>
    BY DEF MDUReports
  <1>2. job[w] \in Job /\ job \in [Workers -> Job \cup {NoJob}]
    BY <1>1 DEF IInv, TypeOK
  <1>3. d \in Datasets => id # NoId /\ Good(d, id)
    BY <1>1 DEF IInv, HeldInv, IdOK
  <1>4. reply \in Lists \cup {NoRecord} /\ id \in Ids \cup {NoId}
    BY <1>2 DEF IInv, TypeOK, Job
  <1>5. d \in Datasets \ moved => reply = schema[canonical[d]] /\ reply \in Lists
    BY <1>3, <1>4, ListedFact DEF IInv, TypeOK
  <1>6. d \in Datasets \ moved => reply # NoRecord /\ First(reply) \in listed[w]
    <2>1. ListOK(w)
      BY DEF IInv, HeldInv
    <2> QED
      BY <1>1, <1>5, <2>1, VersionAssumption DEF ListOK
  <1> HIDE DEF reply
  <1>7. j \in Job /\ j.target = d /\ j.id = id /\ j.reply = reply
    BY <1>2, <1>4 DEF Job
  <1>8. job' = [job EXCEPT ![w] = j] /\ phase'[w] = "reported" /\ job'[w] = j
    BY <1>1, <1>2 DEF IInv, TypeOK
  <1>9. /\ listed' = [listed EXCEPT ![w] = listed[w]]
        /\ listed[w] \in SUBSET (Versions \cup {NoVersion})
    BY <1>1 DEF IInv, TypeOK
  <1> HIDE DEF j, id, d
  <1>10. TargetOK(w)' /\ IdOK(w)'
    BY <1>1, <1>3, <1>7, <1>8 DEF TargetOK, IdOK, Good, mduVars
  <1>11. ListOK(w)'
    BY <1>1, <1>6, <1>7, <1>8 DEF ListOK, First, mduVars
  <1>12. cache' \in [Datasets -> Ids \cup {NoId}] /\ CacheOK'
    BY <1>1 DEF IInv, TypeOK, HeldInv, CacheOK, Good, mduVars
  <1> QED
    BY <1>1, <1>7, <1>8, <1>9, <1>10, <1>11, <1>12, GoesOnIInv

LEMMA RestartIInv ==
  ASSUME IInv, Restart
  PROVE  IInv'
  <1> USE DEF IInv, Restart, mduVars
  <1>1. \A w \in Workers : phase'[w] = "idle"
    OBVIOUS
  <1>2. \A d \in Datasets : cache'[d] = NoId
    OBVIOUS
  <1>3. TypeOK'
    BY DEF TypeOK
  <1>4. NamesInv'
    BY DEF NamesInv
  <1>5. HeldInv'
    BY <1>1, <1>2 DEF HeldInv, CacheOK, TargetOK, IdOK, ListOK
  <1> QED
    BY <1>3, <1>4, <1>5

LEMMA NextIInv ==
  ASSUME IInv, [Next]_vars
  PROVE  IInv'
  <1>1. CASE MDU
    BY <1>1, RegistersIInv, RemovesIInv, SchemaIInv DEF MDU
  <1>2. ASSUME NEW w \in Workers, Request(w) PROVE IInv'
    <2>1. PICK kind \in Kinds, target \in Datasets \cup Direct, local \in Locals :
            Begin(w, kind, target, IF kind = "compatibility" THEN local ELSE NoVersion)
      BY <1>2 DEF Request
    <2> QED
      BY <2>1, BeginIInv
  <1>3. ASSUME NEW w \in Workers, MDUNames(w) PROVE IInv'
    BY <1>3, NamesIInv
  <1>4. ASSUME NEW w \in Workers, Cache(w) PROVE IInv'
    BY <1>4, CacheIInv
  <1>5. ASSUME NEW w \in Workers, MDUReports(w) PROVE IInv'
    BY <1>5, ReportsIInv
  <1>6. ASSUME NEW w \in Workers, CallFails(w) PROVE IInv'
    BY <1>6, UnavailableAnswers, AnswersIInv DEF CallFails
  <1>7. ASSUME NEW w \in Workers, CallBreaks(w) PROVE IInv'
    BY <1>7, BrokenAnswers, AnswersIInv DEF CallBreaks
  <1>8. ASSUME NEW w \in Workers, Judge(w) PROVE IInv'
    BY <1>8, UnavailableAnswers, AnswersIInv DEF Judge
  <1>9. CASE Restart
    BY <1>9, RestartIInv
  <1>10. CASE UNCHANGED vars
    <2>1. TypeOK' /\ NamesInv'
      BY <1>10 DEF vars, mduVars, handlerVars, IInv, TypeOK, NamesInv
    <2>2. \A w \in Workers : ListOK(w)'
      BY <1>10, ListKept DEF vars, mduVars
    <2> QED
      BY <1>10, <2>1, <2>2, ChangeIInv DEF vars, mduVars
  <1> QED
    BY <1>1, <1>2, <1>3, <1>4, <1>5, <1>6, <1>7, <1>8, <1>9, <1>10 DEF Next

\* The invariant holds, whatever handlers, MDU and restarts do.
THEOREM Invariance == Spec => []IInv
  BY InitIInv, NextIInv, PTL DEF Spec

-----------------------------------------------------------------------------
(* What follows                                                             *)

\* The variables keep their types.
THEOREM TypeCorrect == Spec => []TypeOK
  <1>1. IInv => TypeOK
    BY DEF IInv
  <1> QED
    BY <1>1, Invariance, PTL

\* However many handlers share the unlocked cache, whatever MDU does and
\* whenever MASTERDB is restarted: the cache holds no id of another dataset,
\* and is stale only where MDU changed the id.
THEOREM CacheStaysTrue == Spec => []CacheIsMDUs
  <1>1. ASSUME IInv PROVE CacheIsMDUs
    <2>1. \A d \in Datasets : cache[d] # NoId => Good(d, cache[d])
      BY <1>1 DEF IInv, HeldInv, CacheOK
    <2> QED
      BY <1>1, <2>1 DEF CacheIsMDUs, Good, IInv, NamesInv
  <1> QED
    BY <1>1, Invariance, PTL

\* An answer ends the handler of one worker.
LEMMA AnswersOne ==
  ASSUME IInv, NEW v \in Workers, NEW status, NEW verdict, NEW reason,
         Answers(v, status, verdict, reason)
  PROVE  /\ \A w \in Workers \ {v} : phase'[w] = phase[w]
         /\ answer' = [status |-> status, verdict |-> verdict, reason |-> reason]
  BY DEF Answers, IInv, TypeOK

\* A worker that goes on does not end, and nobody else does.
LEMMA NobodyEnds ==
  ASSUME IInv, NEW v \in Workers, NEW next, next # "idle",
         phase' = [phase EXCEPT ![v] = next], NEW w \in Workers
  PROVE  ~(phase[w] # "idle" /\ phase'[w] = "idle")
  BY DEF IInv, TypeOK

\* Whatever else handlers and MDU do, a comparison that MDU answered is on a
\* version listed first since the call, if MDU never changed the dataset's id.
LEMMA VerdictStep ==
  ASSUME IInv, Next, NEW w \in Workers, AnswersComparison(w)
  PROVE  \E v \in listed[w] : answer'.verdict = Negotiate(job[w].local, v)
  <1> USE DEF AnswersComparison
  <1> DEFINE Ends(v, reason) == \E status, verdict : Answers(v, status, verdict, reason)
             Goal == \E v \in listed[w] : answer'.verdict = Negotiate(job[w].local, v)
  <1>1. ASSUME NEW v \in Workers, NEW reason, reason \notin {"ok", "refused"}, Ends(v, reason)
        PROVE  FALSE
    BY <1>1, AnswersOne
  <1>2. CASE MDU
    BY <1>2 DEF MDU, MDURegisters, MDURemoves, MDUChangesSchema, handlerVars
  <1>3. ASSUME NEW v \in Workers, Request(v) PROVE Goal
    <2>1. PICK kind \in Kinds, target \in Datasets \cup Direct,
                local \in Locals \cup {NoVersion} : Begin(v, kind, target, local)
      BY <1>3 DEF Request
    <2>2. CASE ~configured
      <3>1. Ends(v, "unconfigured")
        BY <2>1, <2>2, UnavailableAnswers DEF Begin
      <3> QED
        BY <1>1, <3>1
    <2>3. CASE configured
      BY <2>1, <2>3, NobodyEnds DEF Begin
    <2> QED
      BY <2>2, <2>3
  <1>4. ASSUME NEW v \in Workers, MDUNames(v) PROVE Goal
    BY <1>4, NobodyEnds DEF MDUNames
  <1>5. ASSUME NEW v \in Workers, Cache(v) PROVE Goal
    <2>1. CASE job[v].id = NoId
      <3>1. Ends(v, "refused") /\ phase[v] = "named"
        BY <1>5, <2>1, UnavailableAnswers DEF Cache
      <3>2. w = v
        BY <3>1, AnswersOne
      <3> QED
        BY <2>1, <3>1, <3>2 DEF IInv, HeldInv, IdOK
    <2>2. CASE job[v].id # NoId
      BY <1>5, <2>2, NobodyEnds DEF Cache, Keeps
    <2> QED
      BY <2>1, <2>2
  <1>6. ASSUME NEW v \in Workers, MDUReports(v) PROVE Goal
    BY <1>6, NobodyEnds DEF MDUReports
  <1>7. ASSUME NEW v \in Workers, Judge(v) PROVE Goal
    <2>1. \E status, verdict, reason : Answers(v, status, verdict, reason)
      BY <1>7, UnavailableAnswers DEF Judge
    <2>2. w = v
      BY <2>1, AnswersOne
    <2>3. job[w].reply # NoRecord /\ First(job[w].reply) \in listed[w]
      BY <1>7, <2>2 DEF Judge, IInv, HeldInv, ListOK
    <2>4. Answers(w, "200", Negotiate(job[w].local, First(job[w].reply)), "ok")
      BY <1>7, <2>2, <2>3 DEF Judge, Report
    <2> QED
      BY <2>3, <2>4, AnswersOne
  <1>8. ASSUME NEW v \in Workers, CallFails(v) PROVE Goal
    <2>1. Ends(v, "failed")
      BY <1>8, UnavailableAnswers DEF CallFails
    <2> QED
      BY <1>1, <2>1
  <1>9. ASSUME NEW v \in Workers, CallBreaks(v) PROVE Goal
    <2>1. Ends(v, "broken")
      BY <1>9, BrokenAnswers DEF CallBreaks
    <2> QED
      BY <1>1, <2>1
  <1>10. CASE Restart
    BY <1>10 DEF Restart, Silence
  <1> QED
    BY <1>2, <1>3, <1>4, <1>5, <1>6, <1>7, <1>8, <1>9, <1>10 DEF Next

\* However often MDU changes its lists while a dataset's id is in the cache
\* and while its replies travel: a comparison that MDU answered is on a
\* version MDU listed first for that very dataset since the call, whatever
\* the lists are and whatever their order means.
THEOREM VerdictsAreExact == Spec => VerdictIsExact
  <1>1. IInv /\ [Next]_vars =>
          [\A w \in Workers : AnswersComparison(w) =>
             \E v \in listed[w] : answer'.verdict = Negotiate(job[w].local, v)]_vars
    BY VerdictStep
  <1> QED
    BY <1>1, Invariance, PTL DEF Spec, VerdictIsExact
=============================================================================
