------------------------------ MODULE BCAESProofs ------------------------------
(***************************************************************************)
(* Theorems about BCAESConvergence, for any number of threads, objects and  *)
(* requests.                                                                *)
(*                                                                          *)
(* An id that a handler has looked up resolves, or has been deleted since,  *)
(* and that stays so.  The invariants follow from what each handler has     *)
(* looked up (JobInv).                                                      *)
(***************************************************************************)
EXTENDS BCAESConvergence, FiniteSetTheorems, TLAPS

Resolved(d) == objects[d] # Absent \/ d \in deleted
AllResolved(S) == \A d \in S : Resolved(d)

Mutating(w) == phase[w] \in {"checking", "checked"}

JobInv(w) ==
  LET j == job[w] IN
  /\ Mutating(w) =>
       /\ j.base = Absent => j.deps # Keep /\ j.detail # Keep
       /\ j.base # Absent => AllResolved(j.base.deps)
       /\ j.deps # Keep => AllResolved(j.deps \ j.todo)
  /\ phase[w] = "checked" => j.todo = {}
  /\ phase[w] \in {"patching", "merging"} => Resolved(j.id)
  /\ phase[w] = "counting" =>
       /\ AllResolved(j.tracked)
       /\ deleted = {} => j.tracked \subseteq j.seen \cup j.todo

IInv ==
  /\ TypeOK
  /\ DanglingWasDeleted
  /\ RecordsOfRegistered
  /\ \A w \in Workers : JobInv(w)

\* What is resolved stays resolved.
Lasting ==
  /\ \A d \in Ids : Resolved(d) => Resolved(d)'
  /\ deleted \subseteq deleted'

\* The type of what a worker in a phase holds.
Fits(p, j) ==
  /\ p \in {"idle", "checking", "checked", "deleting", "entering",
            "walking", "patching", "merging", "counting"}
  /\ p \in {"checking", "checked"} => j \in Mutation
  /\ p = "deleting" => j \in [id : Ids]
  /\ p \in {"entering", "walking"} => j \in Walk
  /\ p \in {"patching", "merging"} => j \in Upsert
  /\ p = "counting" => j \in Snapshot

-----------------------------------------------------------------------------
(* Steps in general                                                         *)

\* A handler that does not move keeps what it knows.
LEMMA OthersKnow ==
  ASSUME TypeOK, Lasting, NEW v \in Workers, JobInv(v),
         phase'[v] = phase[v], job'[v] = job[v]
  PROVE  JobInv(v)'
  <1> DEFINE j == job[v]
  <1>1. ASSUME NEW S \in SUBSET Ids, AllResolved(S) PROVE AllResolved(S)'
    BY <1>1 DEF AllResolved, Lasting
  <1>2. CASE Mutating(v)
    <2>1. j \in Mutation /\ j.todo \subseteq Ids
      BY <1>2 DEF TypeOK, RegistryTypeOK, Mutating, Mutation
    <2>2. j.base # Absent => j.base.deps \subseteq Ids
      BY <2>1 DEF Mutation, Object
    <2>3. j.deps # Keep => j.deps \subseteq Ids
      BY <2>1 DEF Mutation
    <2>4. j.base # Absent => AllResolved(j.base.deps)'
      BY <1>1, <1>2, <2>2 DEF JobInv
    <2>5. j.deps # Keep => AllResolved(j.deps \ j.todo)'
      BY <1>1, <1>2, <2>3 DEF JobInv
    <2>6. (j.base = Absent => j.deps # Keep /\ j.detail # Keep) /\ (phase[v] = "checked" => j.todo = {})
      BY <1>2 DEF JobInv
    <2> QED
      BY <1>2, <2>4, <2>5, <2>6 DEF JobInv, Mutating, AllResolved
  <1>3. CASE phase[v] \in {"patching", "merging"}
    <2>1. j.id \in Ids /\ Resolved(j.id)
      BY <1>3 DEF TypeOK, Upsert, JobInv
    <2>2. Resolved(j.id)'
      BY <2>1 DEF Lasting
    <2> QED
      BY <1>3, <2>2 DEF JobInv, Mutating, Resolved
  <1>4. CASE phase[v] = "counting"
    <2>1. j.tracked \subseteq Ids
      BY <1>4 DEF TypeOK, Snapshot
    <2>2. AllResolved(j.tracked)'
      BY <1>1, <1>4, <2>1 DEF JobInv
    <2>3. deleted' = {} => j.tracked \subseteq j.seen \cup j.todo
      BY <1>4 DEF JobInv, Lasting
    <2> QED
      BY <1>4, <2>2, <2>3 DEF JobInv, Mutating, AllResolved
  <1>5. CASE ~Mutating(v) /\ phase[v] \notin {"patching", "merging", "counting"}
    BY <1>5 DEF JobInv, Mutating
  <1> QED
    BY <1>2, <1>3, <1>4, <1>5

\* The types after a step of w.
LEMMA StepType ==
  ASSUME TypeOK, NEW w \in Workers, NEW p, NEW j, Fits(p, j),
         phase' = [phase EXCEPT ![w] = p], job' = [job EXCEPT ![w] = j],
         objects' \in [Ids -> Object \cup {Absent}], requests' \in Nat,
         deleted' \subseteq Ids, promised' \in [Ids -> Object \cup {Absent}],
         disturbed' \subseteq Ids, changed' \subseteq Workers,
         records' \in [Ids -> Record \cup {Absent}],
         patched' \in [Ids -> Record \cup {Absent}], raced' \subseteq Ids
  PROVE  TypeOK'
  <1>1. /\ phase'[w] = p /\ job'[w] = j /\ job' = [v \in Workers |-> job'[v]]
        /\ \A v \in Workers \ {w} : phase'[v] = phase[v] /\ job'[v] = job[v]
    BY DEF TypeOK, RegistryTypeOK
  <1>2. \A v \in Workers : Fits(phase'[v], job'[v])
    <2> SUFFICES ASSUME NEW v \in Workers PROVE Fits(phase'[v], job'[v])
      OBVIOUS
    <2>1. CASE v = w
      BY <1>1, <2>1
    <2>2. CASE v # w
      <3>1. Fits(phase[v], job[v])
        BY DEF TypeOK, RegistryTypeOK, Fits
      <3> QED
        BY <1>1, <2>2, <3>1
    <2> QED
      BY <2>1, <2>2
  <1>3. phase' \in [Workers -> {"idle", "checking", "checked", "deleting", "entering",
                                "walking", "patching", "merging", "counting"}]
    BY <1>2 DEF TypeOK, Fits
  <1> QED
    BY <1>1, <1>2, <1>3 DEF TypeOK, RegistryTypeOK, Fits

\* A step of w that leaves objects and records alone.
LEMMA LocalStep ==
  ASSUME IInv, TypeOK', NEW w \in Workers, UNCHANGED <<objects, deleted, records>>,
         \A v \in Workers \ {w} : phase'[v] = phase[v] /\ job'[v] = job[v],
         JobInv(w)'
  PROVE  IInv'
  <1>1. Lasting
    BY DEF Lasting, Resolved
  <1>2. \A v \in Workers : JobInv(v)'
    BY <1>1, OthersKnow DEF IInv
  <1>3. DanglingWasDeleted' /\ RecordsOfRegistered'
    BY DEF IInv, DanglingWasDeleted, RecordsOfRegistered, Registered, Tracked
  <1> QED
    BY <1>2, <1>3 DEF IInv

-----------------------------------------------------------------------------
(* Objects                                                                  *)

LEMMA RegisterBeginIInv ==
  ASSUME IInv, NEW w \in Workers, NEW i \in Ids, NEW deps \in SUBSET Ids,
         NEW detail \in Details, RegisterBegin(w, i, deps, detail),
         UNCHANGED convergenceVars
  PROVE  IInv'
  <1> DEFINE p == IF deps = {} THEN "checked" ELSE "checking"
             j == [id |-> i, deps |-> deps, detail |-> detail, base |-> Absent, todo |-> deps]
  <1>1. /\ phase' = [phase EXCEPT ![w] = p] /\ job' = [job EXCEPT ![w] = j]
        /\ requests' = requests + 1
        /\ disturbed' = IF MutatorsOf(i) # {} THEN disturbed \cup {i} ELSE disturbed
        /\ UNCHANGED <<objects, deleted, promised, changed, records, patched, raced>>
    BY DEF RegisterBegin, Start, BeginMutation, CountRequest, convergenceVars
  <1>2. Fits(p, j)
    BY DEF Fits, Mutation
  <1>3. TypeOK'
    <2>1. requests' \in Nat /\ disturbed' \subseteq Ids
      BY <1>1 DEF IInv, TypeOK, RegistryTypeOK
    <2> QED
      BY <1>1, <1>2, <2>1, StepType DEF IInv, TypeOK, RegistryTypeOK
  <1>4. /\ phase'[w] = p /\ job'[w] = j
        /\ \A v \in Workers \ {w} : phase'[v] = phase[v] /\ job'[v] = job[v]
    BY <1>1 DEF IInv, TypeOK, RegistryTypeOK
  <1>5. JobInv(w)'
    BY <1>4, KeepAssumption DEF JobInv, Mutating, AllResolved
  <1> QED
    BY <1>1, <1>3, <1>4, <1>5, LocalStep

LEMMA UpdateBeginIInv ==
  ASSUME IInv, NEW w \in Workers, NEW i \in Ids, NEW deps \in {Keep} \cup SUBSET Ids,
         NEW detail \in Details \cup {Keep}, UpdateBegin(w, i, deps, detail),
         UNCHANGED convergenceVars
  PROVE  IInv'
  <1> DEFINE p == IF deps \in {Keep, {}} THEN "checked" ELSE "checking"
             j == [id |-> i, deps |-> deps, detail |-> detail, base |-> objects[i],
                   todo |-> IF deps = Keep THEN {} ELSE deps]
  <1>1. /\ phase' = [phase EXCEPT ![w] = p] /\ job' = [job EXCEPT ![w] = j]
        /\ objects[i] # Absent /\ requests' = requests + 1
        /\ disturbed' = IF MutatorsOf(i) # {} THEN disturbed \cup {i} ELSE disturbed
        /\ UNCHANGED <<objects, deleted, promised, changed, records, patched, raced>>
    BY DEF UpdateBegin, Start, BeginMutation, CountRequest, convergenceVars
  <1>2. Fits(p, j)
    BY DEF Fits, Mutation, IInv, TypeOK, RegistryTypeOK
  <1>3. TypeOK'
    <2>1. requests' \in Nat /\ disturbed' \subseteq Ids
      BY <1>1 DEF IInv, TypeOK, RegistryTypeOK
    <2> QED
      BY <1>1, <1>2, <2>1, StepType DEF IInv, TypeOK, RegistryTypeOK
  <1>4. /\ phase'[w] = p /\ job'[w] = j
        /\ \A v \in Workers \ {w} : phase'[v] = phase[v] /\ job'[v] = job[v]
    BY <1>1 DEF IInv, TypeOK, RegistryTypeOK
  <1>5. \A d \in objects[i].deps : Resolved(d)
    BY <1>1 DEF IInv, DanglingWasDeleted, Registered, Resolved
  <1>6. JobInv(w)'
    BY <1>1, <1>4, <1>5 DEF JobInv, Mutating, AllResolved, Resolved
  <1> QED
    BY <1>1, <1>3, <1>4, <1>6, LocalStep

LEMMA CheckDependencyIInv ==
  ASSUME IInv, NEW w \in Workers, CheckDependency(w), UNCHANGED convergenceVars
  PROVE  IInv'
  <1>1. PICK d \in job[w].todo :
          /\ phase[w] = "checking" /\ objects[d] # Absent
          /\ job' = [job EXCEPT ![w].todo = @ \ {d}]
          /\ phase' = [phase EXCEPT ![w] = IF job[w].todo = {d} THEN "checked" ELSE "checking"]
          /\ UNCHANGED <<objects, requests, deleted, promised, disturbed, changed,
                         records, patched, raced>>
    BY DEF CheckDependency, convergenceVars
  <1> DEFINE p == IF job[w].todo = {d} THEN "checked" ELSE "checking"
             j == [job[w] EXCEPT !.todo = @ \ {d}]
  <1>2. job[w] \in Mutation /\ job' = [job EXCEPT ![w] = j]
    BY <1>1 DEF IInv, TypeOK, RegistryTypeOK
  <1>3. Fits(p, j)
    BY <1>2 DEF Fits, Mutation
  <1>4. TypeOK'
    BY <1>1, <1>2, <1>3, StepType DEF IInv, TypeOK, RegistryTypeOK
  <1>5. /\ phase'[w] = p /\ job'[w] = j
        /\ \A v \in Workers \ {w} : phase'[v] = phase[v] /\ job'[v] = job[v]
    BY <1>1, <1>2 DEF IInv, TypeOK, RegistryTypeOK
  <1>6. JobInv(w)'
    <2>1. /\ j.base = job[w].base /\ j.deps = job[w].deps /\ j.detail = job[w].detail
          /\ j.todo = job[w].todo \ {d}
      BY <1>2 DEF Mutation
    <2>2. /\ job[w].base = Absent => job[w].deps # Keep /\ job[w].detail # Keep
          /\ job[w].base # Absent => AllResolved(job[w].base.deps)
          /\ job[w].deps # Keep => AllResolved(job[w].deps \ job[w].todo)
      BY <1>1 DEF IInv, JobInv, Mutating
    <2>3. j.deps # Keep => AllResolved(j.deps \ j.todo)
      BY <1>1, <2>1, <2>2 DEF AllResolved, Resolved
    <2>4. \A e : Resolved(e)' <=> Resolved(e)
      BY <1>1 DEF Resolved
    <2>5. p \in {"checked", "checking"} /\ (p = "checked" => j.todo = {})
      BY <2>1
    <2>6. /\ j.base = Absent => j.deps # Keep /\ j.detail # Keep
          /\ j.base # Absent => \A e \in j.base.deps : Resolved(e)'
          /\ j.deps # Keep => \A e \in j.deps \ j.todo : Resolved(e)'
      BY <2>1, <2>2, <2>3, <2>4 DEF AllResolved
    <2> HIDE DEF p, j
    <2> QED
      BY <1>5, <2>5, <2>6 DEF JobInv, Mutating, AllResolved
  <1> QED
    BY <1>1, <1>4, <1>5, <1>6, LocalStep

\* A handler that begins or goes on without having looked anything up.
LEMMA PlainStep ==
  ASSUME IInv, NEW w \in Workers, NEW p, NEW j, Fits(p, j),
         p \in {"idle", "deleting", "entering", "walking"},
         phase' = [phase EXCEPT ![w] = p], job' = [job EXCEPT ![w] = j],
         UNCHANGED <<objects, deleted, promised, records, patched, raced>>,
         requests' \in Nat, disturbed' \subseteq Ids, changed' \subseteq Workers
  PROVE  IInv'
  <1>1. TypeOK'
    BY StepType DEF IInv, TypeOK, RegistryTypeOK
  <1>2. /\ phase'[w] = p
        /\ \A v \in Workers \ {w} : phase'[v] = phase[v] /\ job'[v] = job[v]
    BY DEF IInv, TypeOK, RegistryTypeOK
  <1>3. JobInv(w)'
    BY <1>2 DEF JobInv, Mutating
  <1> QED
    BY <1>1, <1>2, <1>3, LocalStep

\* An object is put under an id, or removed.
LEMMA PutStep ==
  ASSUME IInv, NEW w \in Workers, NEW i \in Ids, NEW x \in Object \cup {Absent},
         Put(w, i, x), UNCHANGED <<requests, disturbed, records, patched, raced>>,
         promised' \in [Ids -> Object \cup {Absent}],
         deleted' \subseteq Ids, deleted \subseteq deleted',
         x = Absent => i \in deleted',
         x # Absent => AllResolved(x.deps)
  PROVE  IInv'
  <1>1. /\ phase' = [phase EXCEPT ![w] = "idle"] /\ job' = [job EXCEPT ![w] = NoJob]
        /\ objects' = [objects EXCEPT ![i] = x]
        /\ changed' = changed \cup {v \in Workers :
             \/ phase[v] \in {"entering", "walking"}
             \/ phase[v] = "counting" /\ (objects[i] = Absent) # (x = Absent)}
    BY DEF Put, Finish
  <1>2. TypeOK'
    <2>1. Fits("idle", NoJob)
      BY DEF Fits
    <2>2. objects' \in [Ids -> Object \cup {Absent}] /\ changed' \subseteq Workers
      BY <1>1 DEF IInv, TypeOK, RegistryTypeOK
    <2> QED
      BY <1>1, <2>1, <2>2, StepType DEF IInv, TypeOK, RegistryTypeOK
  <1>3. /\ phase'[w] = "idle" /\ objects'[i] = x
        /\ \A v \in Workers \ {w} : phase'[v] = phase[v] /\ job'[v] = job[v]
        /\ \A d \in Ids \ {i} : objects'[d] = objects[d]
    BY <1>1 DEF IInv, TypeOK, RegistryTypeOK
  <1>4. Lasting
    BY <1>3 DEF Lasting, Resolved
  <1>5. \A v \in Workers : JobInv(v)'
    <2> SUFFICES ASSUME NEW v \in Workers PROVE JobInv(v)'
      OBVIOUS
    <2>1. CASE v = w
      BY <1>3, <2>1 DEF JobInv, Mutating
    <2>2. CASE v # w
      BY <1>3, <1>4, <2>2, OthersKnow DEF IInv
    <2> QED
      BY <2>1, <2>2
  <1>6. DanglingWasDeleted'
    <2> SUFFICES ASSUME NEW k \in Ids, objects'[k] # Absent, NEW d \in objects'[k].deps
                 PROVE  Resolved(d)'
      BY DEF DanglingWasDeleted, Registered, Resolved
    <2>1. objects'[k] \in Object
      BY <1>2 DEF TypeOK, RegistryTypeOK
    <2>2. d \in Ids
      BY <2>1 DEF Object
    <2>3. Resolved(d)
      <3>1. CASE k = i
        BY <1>3, <3>1 DEF AllResolved
      <3>2. CASE k # i
        BY <1>3, <3>2 DEF IInv, DanglingWasDeleted, Registered, Resolved
      <3> QED
        BY <3>1, <3>2
    <2> QED
      BY <1>4, <2>2, <2>3 DEF Lasting
  <1>7. RecordsOfRegistered'
    BY <1>4 DEF IInv, RecordsOfRegistered, Tracked, Lasting, Resolved
  <1> QED
    BY <1>2, <1>5, <1>6, <1>7 DEF IInv

LEMMA SaveObjectIInv ==
  ASSUME IInv, NEW w \in Workers, SaveObject(w), UNCHANGED convergenceVars
  PROVE  IInv'
  <1> DEFINE j == job[w]
             x == Patched(j.base, j.deps, j.detail)
  <1>1. /\ phase[w] = "checked" /\ Put(w, j.id, x)
        /\ promised' = [promised EXCEPT ![j.id] =
             IF j.base = Absent \/ @ # Absent
               THEN [deps |-> IF j.deps = Keep THEN @.deps ELSE j.deps,
                     detail |-> IF j.detail = Keep THEN @.detail ELSE j.detail]
             ELSE @]
        /\ UNCHANGED <<requests, deleted, disturbed, records, patched, raced>>
    BY DEF SaveObject, convergenceVars
  <1>2. /\ j \in Mutation /\ j.id \in Ids /\ j.todo = {}
        /\ j.base = Absent => j.deps # Keep /\ j.detail # Keep
        /\ j.base # Absent => AllResolved(j.base.deps)
        /\ j.deps # Keep => AllResolved(j.deps \ j.todo)
    BY <1>1 DEF IInv, JobInv, Mutating, TypeOK, RegistryTypeOK, Mutation
  <1>3. x \in Object /\ x # Absent
    <2>1. /\ j.deps \in {Keep} \cup SUBSET Ids /\ j.detail \in Details \cup {Keep}
          /\ j.base \in Object \cup {Absent}
      BY <1>2 DEF Mutation
    <2> QED
      BY <1>2, <2>1, AbsentAssumption DEF Object, Patched
  <1>4. AllResolved(x.deps)
    BY <1>2 DEF Patched, AllResolved
  <1>5. promised' \in [Ids -> Object \cup {Absent}]
    <2>1. promised \in [Ids -> Object \cup {Absent}]
      BY DEF IInv, TypeOK, RegistryTypeOK
    <2>2. promised'[j.id] \in Object \cup {Absent}
      BY <1>1, <1>2, <2>1 DEF Mutation, Object
    <2> QED
      BY <1>1, <1>2, <2>1, <2>2
  <1> QED
    BY <1>1, <1>2, <1>3, <1>4, <1>5, PutStep DEF IInv, TypeOK, RegistryTypeOK

LEMMA DeleteEndIInv ==
  ASSUME IInv, NEW w \in Workers, DeleteEnd(w), UNCHANGED convergenceVars
  PROVE  IInv'
  <1> DEFINE i == job[w].id
  <1>1. /\ phase[w] = "deleting" /\ Put(w, i, Absent)
        /\ deleted' = deleted \cup {i} /\ promised' = [promised EXCEPT ![i] = Absent]
        /\ UNCHANGED <<requests, disturbed, records, patched, raced>>
    BY DEF DeleteEnd, convergenceVars
  <1>2. i \in Ids
    BY <1>1 DEF IInv, TypeOK, RegistryTypeOK
  <1>3. promised' \in [Ids -> Object \cup {Absent}] /\ deleted' \subseteq Ids
    BY <1>1, <1>2 DEF IInv, TypeOK, RegistryTypeOK
  <1> QED
    BY <1>1, <1>2, <1>3, PutStep

-----------------------------------------------------------------------------
(* Walks                                                                    *)

LEMMA EnteredType ==
  ASSUME IInv, NEW j \in Walk, NEW stack \in Seq(Frame), NEW d \in Ids
  PROVE  Entered(j, stack, d) \in Walk
  <1> DEFINE entered == IF objects[d] = Absent THEN stack
                        ELSE Append(stack, [id |-> d, rest |-> objects[d].deps])
  <1>1. objects[d] # Absent => [id |-> d, rest |-> objects[d].deps] \in Frame
    BY DEF IInv, TypeOK, RegistryTypeOK, Object, Frame
  <1>2. entered \in Seq(Frame)
    BY <1>1
  <1> HIDE DEF entered
  <1>3. [j EXCEPT !.visited = @ \cup {d}, !.stack = entered] \in Walk
    BY <1>2 DEF Walk
  <1> QED
    BY <1>3 DEF Entered, entered

LEMMA WalkBeginIInv ==
  ASSUME IInv, NEW w \in Workers, NEW i \in Ids, WalkBegin(w, i), UNCHANGED convergenceVars
  PROVE  IInv'
  <1> DEFINE j == [id |-> i, found |-> {}, visited |-> {}, cycle |-> FALSE, stack |-> <<>>]
  <1>1. j \in Walk
    <2>1. <<>> \in Seq(Frame)
      OBVIOUS
    <2>2. ASSUME NEW s \in Seq(Frame)
          PROVE  [id |-> i, found |-> {}, visited |-> {}, cycle |-> FALSE, stack |-> s] \in Walk
      BY Zenon DEF Walk
    <2> QED
      BY <2>1, <2>2
  <1>2. Fits("entering", j)
    BY <1>1 DEF Fits
  <1>3. /\ phase' = [phase EXCEPT ![w] = "entering"] /\ job' = [job EXCEPT ![w] = j]
        /\ UNCHANGED <<objects, deleted, promised, records, patched, raced>>
        /\ requests' \in Nat /\ disturbed' \subseteq Ids /\ changed' \subseteq Workers
    BY DEF WalkBegin, Start, convergenceVars, IInv, TypeOK, RegistryTypeOK
  <1> HIDE DEF j
  <1> QED
    BY <1>2, <1>3, PlainStep

LEMMA WalkRootIInv ==
  ASSUME IInv, NEW w \in Workers, WalkRoot(w), UNCHANGED convergenceVars
  PROVE  IInv'
  <1> DEFINE j == Entered(job[w], <<>>, job[w].id)
  <1>1. job[w] \in Walk /\ job[w].id \in Ids
    BY DEF WalkRoot, IInv, TypeOK, RegistryTypeOK, Walk
  <1>2. j \in Walk
    <2>1. <<>> \in Seq(Frame)
      OBVIOUS
    <2> QED
      BY <1>1, <2>1, EnteredType
  <1>3. Fits("walking", j)
    BY <1>2 DEF Fits
  <1>4. /\ phase' = [phase EXCEPT ![w] = "walking"] /\ job' = [job EXCEPT ![w] = j]
        /\ UNCHANGED <<objects, deleted, promised, records, patched, raced>>
        /\ requests' \in Nat /\ disturbed' \subseteq Ids /\ changed' \subseteq Workers
    BY DEF WalkRoot, convergenceVars, IInv, TypeOK, RegistryTypeOK
  <1> HIDE DEF j
  <1> QED
    BY <1>3, <1>4, PlainStep

LEMMA WalkOnIInv ==
  ASSUME IInv, NEW w \in Workers, WalkOn(w), UNCHANGED convergenceVars
  PROVE  IInv'
  <1> DEFINE j == job[w]
             n == Len(j.stack)
             rest(d) == [j.stack EXCEPT ![n].rest = @ \ {d}]
             seen(d) == [j EXCEPT !.found = IF d = j.id THEN @ ELSE @ \cup {d}]
             next(d) == IF \E k \in 1..n : j.stack[k].id = d
                          THEN [seen(d) EXCEPT !.cycle = TRUE, !.stack = rest(d)]
                        ELSE IF d \in j.visited
                          THEN [seen(d) EXCEPT !.stack = rest(d)]
                        ELSE Entered(seen(d), rest(d), d)
  <1>1. PICK d \in j.stack[n].rest :
          /\ phase[w] = "walking" /\ n > 0 /\ job' = [job EXCEPT ![w] = next(d)]
          /\ UNCHANGED <<objects, phase, requests, deleted, promised, disturbed, changed,
                         records, patched, raced>>
    BY DEF WalkOn, convergenceVars
  <1>2. j \in Walk
    BY <1>1 DEF IInv, TypeOK, RegistryTypeOK
  <1>3. j.stack \in Seq(Frame) /\ j.found \subseteq Ids /\ j.id \in Ids
    BY <1>2 DEF Walk
  <1>4. n \in 1..n /\ n \in Nat /\ j.stack[n] \in Frame
    BY <1>1, <1>3
  <1>5. d \in Ids
    BY <1>4 DEF Frame
  <1>6. rest(d) \in Seq(Frame)
    <2>1. [j.stack[n] EXCEPT !.rest = @ \ {d}] \in Frame
      BY <1>4 DEF Frame
    <2> QED
      BY <1>3, <1>4, <2>1
  <1>7. seen(d) \in Walk
    BY <1>2, <1>3, <1>5 DEF Walk
  <1>8. next(d) \in Walk
    <2> HIDE DEF rest, seen, j
    <2>2. [seen(d) EXCEPT !.cycle = TRUE, !.stack = rest(d)] \in Walk
      BY <1>6, <1>7 DEF Walk
    <2>3. [seen(d) EXCEPT !.stack = rest(d)] \in Walk
      BY <1>6, <1>7 DEF Walk
    <2>4. Entered(seen(d), rest(d), d) \in Walk
      BY <1>5, <1>6, <1>7, EnteredType
    <2> QED
      BY <2>2, <2>3, <2>4
  <1> HIDE DEF next
  <1>9. Fits("walking", next(d))
    BY <1>8 DEF Fits
  <1>10. phase' = [phase EXCEPT ![w] = "walking"]
    BY <1>1 DEF IInv, TypeOK
  <1>11. requests' \in Nat /\ disturbed' \subseteq Ids /\ changed' \subseteq Workers
    BY <1>1 DEF IInv, TypeOK, RegistryTypeOK
  <1> QED
    BY <1>1, <1>9, <1>10, <1>11, PlainStep

LEMMA WalkReturnIInv ==
  ASSUME IInv, NEW w \in Workers, WalkReturn(w), UNCHANGED convergenceVars
  PROVE  IInv'
  <1> DEFINE n == Len(job[w].stack)
             s == SubSeq(job[w].stack, 1, n - 1)
             j == [job[w] EXCEPT !.stack = s]
  <1>1. /\ phase[w] = "walking" /\ n > 0 /\ job' = [job EXCEPT ![w].stack = s]
        /\ UNCHANGED <<objects, phase, requests, deleted, promised, disturbed, changed,
                       records, patched, raced>>
    BY DEF WalkReturn, convergenceVars
  <1>2. job[w] \in Walk /\ job' = [job EXCEPT ![w] = j]
    BY <1>1 DEF IInv, TypeOK, RegistryTypeOK
  <1>3. s \in Seq(Frame)
    <2>1. job[w].stack \in Seq(Frame)
      BY <1>2 DEF Walk
    <2>2. n - 1 \in 0..n
      BY <1>1, <2>1
    <2> QED
      BY <2>1, <2>2
  <1> HIDE DEF s
  <1>4. j \in Walk
    BY <1>2, <1>3 DEF Walk
  <1>5. Fits("walking", j)
    BY <1>4 DEF Fits
  <1>6. phase' = [phase EXCEPT ![w] = "walking"]
    BY <1>1 DEF IInv, TypeOK
  <1>7. requests' \in Nat /\ disturbed' \subseteq Ids /\ changed' \subseteq Workers
    BY <1>1 DEF IInv, TypeOK, RegistryTypeOK
  <1> HIDE DEF j
  <1> QED
    BY <1>1, <1>2, <1>5, <1>6, <1>7, PlainStep

\* Handlers that end without a change.
LEMMA FinishIInv ==
  ASSUME IInv, NEW w \in Workers,
         DependencyMissing(w) \/ DeleteFails(w) \/ WalkEnd(w) \/ SnapshotEnd(w)
           \/ SnapshotFails(w),
         UNCHANGED convergenceVars
  PROVE  IInv'
  <1>1. Fits("idle", NoJob)
    BY DEF Fits
  <1>2. /\ Finish(w) /\ UNCHANGED <<objects, deleted, promised, records, patched, raced>>
        /\ requests' \in Nat /\ disturbed' \subseteq Ids /\ changed' \subseteq Workers
    BY DEF DependencyMissing, DeleteFails, WalkEnd, SnapshotEnd, SnapshotFails,
           convergenceVars, IInv, TypeOK, RegistryTypeOK
  <1> QED
    BY <1>1, <1>2, PlainStep DEF Finish

LEMMA DeleteBeginIInv ==
  ASSUME IInv, NEW w \in Workers, NEW i \in Ids, DeleteBegin(w, i), UNCHANGED convergenceVars
  PROVE  IInv'
  <1>1. Fits("deleting", [id |-> i])
    BY DEF Fits
  <1>2. requests' \in Nat /\ disturbed' \subseteq Ids
    BY DEF DeleteBegin, BeginMutation, CountRequest, IInv, TypeOK, RegistryTypeOK
  <1> QED
    BY <1>1, <1>2, PlainStep DEF DeleteBegin, Start, convergenceVars, IInv, TypeOK,
       RegistryTypeOK
-----------------------------------------------------------------------------
(* Convergence                                                              *)

LEMMA UpsertBeginIInv ==
  ASSUME IInv, NEW w \in Workers, NEW i \in Ids, NEW patch \in Patch,
         UpsertBegin(w, i, patch)
  PROVE  IInv'
  <1> DEFINE j == [id |-> i, patch |-> patch, base |-> Absent]
  <1>1. /\ phase' = [phase EXCEPT ![w] = "patching"] /\ job' = [job EXCEPT ![w] = j]
        /\ objects[i] # Absent /\ requests' = requests + 1
        /\ raced' = IF UpsertersOf(i) # {} THEN raced \cup {i} ELSE raced
        /\ UNCHANGED <<objects, deleted, promised, disturbed, changed, records, patched>>
    BY DEF UpsertBegin, Start, CountRequest, registryRest
  <1>2. Fits("patching", j)
    BY DEF Fits, Upsert
  <1>3. TypeOK'
    <2>1. requests' \in Nat /\ raced' \subseteq Ids
      BY <1>1 DEF IInv, TypeOK, RegistryTypeOK
    <2> QED
      BY <1>1, <1>2, <2>1, StepType DEF IInv, TypeOK, RegistryTypeOK
  <1>4. /\ phase'[w] = "patching" /\ job'[w] = j
        /\ \A v \in Workers \ {w} : phase'[v] = phase[v] /\ job'[v] = job[v]
    BY <1>1 DEF IInv, TypeOK, RegistryTypeOK
  <1>5. JobInv(w)'
    BY <1>1, <1>4 DEF JobInv, Mutating, Resolved
  <1> QED
    BY <1>1, <1>3, <1>4, <1>5, LocalStep

LEMMA UpsertCopyIInv ==
  ASSUME IInv, NEW w \in Workers, UpsertCopy(w)
  PROVE  IInv'
  <1> DEFINE j == [job[w] EXCEPT !.base = records[job[w].id]]
  <1>1. /\ phase[w] = "patching" /\ phase' = [phase EXCEPT ![w] = "merging"]
        /\ job' = [job EXCEPT ![w].base = records[job[w].id]]
        /\ UNCHANGED <<objects, requests, deleted, promised, disturbed, changed,
                       records, patched, raced>>
    BY DEF UpsertCopy, registryRest, convergenceVars
  <1>2. job[w] \in Upsert /\ job' = [job EXCEPT ![w] = j]
    BY <1>1 DEF IInv, TypeOK, RegistryTypeOK
  <1>3. j \in Upsert /\ j.id = job[w].id
    BY <1>2 DEF IInv, TypeOK, Upsert
  <1> HIDE DEF j
  <1>4. TypeOK'
    <2>1. Fits("merging", j)
      BY <1>3 DEF Fits
    <2> QED
      BY <1>1, <1>2, <2>1, StepType DEF IInv, TypeOK, RegistryTypeOK
  <1>5. /\ phase'[w] = "merging" /\ job'[w] = j
        /\ \A v \in Workers \ {w} : phase'[v] = phase[v] /\ job'[v] = job[v]
    BY <1>1, <1>2 DEF IInv, TypeOK, RegistryTypeOK
  <1>6. JobInv(w)'
    <2>1. Resolved(j.id)
      BY <1>1, <1>3 DEF IInv, JobInv
    <2> QED
      BY <1>1, <1>5, <2>1 DEF JobInv, Mutating, Resolved
  <1> QED
    BY <1>1, <1>4, <1>5, <1>6, LocalStep

LEMMA UpsertSaveIInv ==
  ASSUME IInv, NEW w \in Workers, UpsertSave(w)
  PROVE  IInv'
  <1> DEFINE j == job[w]
  <1>1. /\ phase[w] = "merging" /\ phase' = [phase EXCEPT ![w] = "idle"]
        /\ job' = [job EXCEPT ![w] = NoJob]
        /\ records' = [records EXCEPT ![j.id] = Merged(j.base, j.patch)]
        /\ patched' = [patched EXCEPT ![j.id] = [f \in Dimensions |->
             IF j.patch[f] # Keep THEN j.patch[f]
             ELSE IF @ = Absent THEN NotStarted ELSE @[f]]]
        /\ UNCHANGED <<objects, requests, deleted, promised, disturbed, changed, raced>>
    BY DEF UpsertSave, Finish, registryRest
  <1>2. j \in Upsert /\ j.id \in Ids /\ Resolved(j.id)
    BY <1>1 DEF IInv, JobInv, TypeOK, RegistryTypeOK, Upsert
  <1>3. /\ j.patch \in [Dimensions -> Statuses \cup {Keep}]
        /\ j.base \in [Dimensions -> Statuses] \cup {Absent}
    BY <1>2 DEF Upsert, Patch, Record
  <1>4. records' \in [Ids -> Record \cup {Absent}]
    <2>1. Merged(j.base, j.patch) \in Record
      BY <1>3, NotStartedAssumption DEF Merged, Record
    <2> QED
      BY <1>1, <2>1 DEF IInv, TypeOK
  <1>5. patched' \in [Ids -> Record \cup {Absent}]
    <2>1. patched[j.id] \in [Dimensions -> Statuses] \cup {Absent}
      BY <1>2 DEF IInv, TypeOK, Record
    <2>2. [f \in Dimensions |-> IF j.patch[f] # Keep THEN j.patch[f]
                                ELSE IF patched[j.id] = Absent THEN NotStarted
                                     ELSE patched[j.id][f]] \in Record
      BY <1>3, <2>1, NotStartedAssumption DEF Record
    <2> QED
      BY <1>1, <2>2 DEF IInv, TypeOK
  <1>6. TypeOK'
    <2>1. Fits("idle", NoJob)
      BY DEF Fits
    <2> QED
      BY <1>1, <1>4, <1>5, <2>1, StepType DEF IInv, TypeOK, RegistryTypeOK
  <1>7. /\ phase'[w] = "idle"
        /\ \A v \in Workers \ {w} : phase'[v] = phase[v] /\ job'[v] = job[v]
    BY <1>1 DEF IInv, TypeOK, RegistryTypeOK
  <1>8. \A v \in Workers : JobInv(v)'
    <2>1. Lasting
      BY <1>1 DEF Lasting, Resolved
    <2>2. JobInv(w)'
      BY <1>7 DEF JobInv, Mutating
    <2>3. \A v \in Workers \ {w} : JobInv(v)'
      BY <1>7, <2>1, OthersKnow DEF IInv
    <2> QED
      BY <2>2, <2>3
  <1>9. DanglingWasDeleted'
    BY <1>1 DEF IInv, DanglingWasDeleted, Registered
  <1>10. RecordsOfRegistered'
    <2>1. \A i \in Ids \ {j.id} : records'[i] = records[i]
      BY <1>1 DEF IInv, TypeOK
    <2> QED
      BY <1>1, <1>2, <2>1 DEF IInv, RecordsOfRegistered, Tracked, Resolved
  <1> QED
    BY <1>6, <1>8, <1>9, <1>10 DEF IInv

LEMMA SnapshotBeginIInv ==
  ASSUME IInv, NEW w \in Workers, SnapshotBegin(w)
  PROVE  IInv'
  <1> DEFINE j == [id |-> Absent, tracked |-> Tracked, seen |-> {}, todo |-> Ids]
  <1>1. /\ phase' = [phase EXCEPT ![w] = "counting"] /\ job' = [job EXCEPT ![w] = j]
        /\ UNCHANGED <<objects, requests, deleted, promised, disturbed, changed,
                       records, patched, raced>>
    BY DEF SnapshotBegin, Start, registryRest, convergenceVars
  <1>2. Tracked \subseteq Ids /\ AllResolved(Tracked)
    BY DEF IInv, RecordsOfRegistered, Tracked, AllResolved, Resolved
  <1>3. TypeOK'
    <2>1. Fits("counting", j)
      BY <1>2 DEF Fits, Snapshot
    <2> QED
      BY <1>1, <2>1, StepType DEF IInv, TypeOK, RegistryTypeOK
  <1>4. /\ phase'[w] = "counting" /\ job'[w] = j
        /\ \A v \in Workers \ {w} : phase'[v] = phase[v] /\ job'[v] = job[v]
    BY <1>1 DEF IInv, TypeOK, RegistryTypeOK
  <1>5. JobInv(w)'
    BY <1>1, <1>2, <1>4 DEF JobInv, Mutating, AllResolved, Resolved
  <1> QED
    BY <1>1, <1>3, <1>4, <1>5, LocalStep

\* What has a record is registered as long as nothing is deleted: the loop
\* finds it.
LEMMA SnapshotObjectIInv ==
  ASSUME IInv, NEW w \in Workers, SnapshotObject(w)
  PROVE  IInv'
  <1>1. PICK i \in job[w].todo :
          /\ phase[w] = "counting"
          /\ job' = [job EXCEPT ![w].todo = @ \ {i},
                                ![w].seen = IF objects[i] = Absent THEN @ ELSE @ \cup {i}]
          /\ UNCHANGED <<objects, phase, requests, deleted, promised, disturbed, changed,
                         records, patched, raced>>
    BY DEF SnapshotObject, registryRest, convergenceVars
  <1> DEFINE j == [job[w] EXCEPT !.todo = @ \ {i},
                                 !.seen = IF objects[i] = Absent THEN @ ELSE @ \cup {i}]
  <1>2. job[w] \in Snapshot /\ job' = [job EXCEPT ![w] = j]
    BY <1>1 DEF IInv, TypeOK, RegistryTypeOK
  <1>3. /\ j \in Snapshot /\ j.tracked = job[w].tracked /\ j.todo = job[w].todo \ {i}
        /\ j.seen = IF objects[i] = Absent THEN job[w].seen ELSE job[w].seen \cup {i}
    BY <1>2 DEF Snapshot
  <1> HIDE DEF j
  <1>4. TypeOK'
    <2>1. Fits("counting", j)
      BY <1>3 DEF Fits
    <2>2. phase' = [phase EXCEPT ![w] = "counting"]
      BY <1>1 DEF IInv, TypeOK
    <2> QED
      BY <1>1, <1>2, <2>1, <2>2, StepType DEF IInv, TypeOK, RegistryTypeOK
  <1>5. /\ phase'[w] = "counting" /\ job'[w] = j
        /\ \A v \in Workers \ {w} : phase'[v] = phase[v] /\ job'[v] = job[v]
    BY <1>1, <1>2 DEF IInv, TypeOK, RegistryTypeOK
  <1>6. JobInv(w)'
    <2>1. /\ AllResolved(job[w].tracked)
          /\ deleted = {} => job[w].tracked \subseteq job[w].seen \cup job[w].todo
      BY <1>1 DEF IInv, JobInv
    <2>2. deleted = {} => j.tracked \subseteq j.seen \cup j.todo
      BY <1>3, <2>1 DEF AllResolved, Resolved
    <2>3. \A e \in j.tracked : Resolved(e)'
      BY <1>1, <1>3, <2>1 DEF AllResolved, Resolved
    <2> QED
      BY <1>1, <1>5, <2>2, <2>3 DEF JobInv, Mutating, AllResolved
  <1> QED
    BY <1>1, <1>4, <1>5, <1>6, LocalStep

-----------------------------------------------------------------------------

LEMMA InitIInv == Init => IInv
  <1> SUFFICES ASSUME Init PROVE IInv
    OBVIOUS
  <1>1. TypeOK
    BY MaxRequestsAssumption DEF Init, RegistryInit, TypeOK, RegistryTypeOK
  <1>2. DanglingWasDeleted /\ RecordsOfRegistered
    BY DEF Init, RegistryInit, DanglingWasDeleted, RecordsOfRegistered, Registered, Tracked
  <1>3. \A w \in Workers : JobInv(w)
    BY DEF Init, RegistryInit, JobInv, Mutating
  <1> QED
    BY <1>1, <1>2, <1>3 DEF IInv

LEMMA NextIInv == IInv /\ [Next]_vars => IInv'
  <1> SUFFICES ASSUME IInv, [Next]_vars PROVE IInv'
    OBVIOUS
  <1>1. ASSUME NEW w \in Workers, RegistryRequest(w), UNCHANGED convergenceVars PROVE IInv'
    <2> PICK i \in Ids :
          \/ \E deps \in SUBSET Ids, detail \in Details : RegisterBegin(w, i, deps, detail)
          \/ \E deps \in {Keep} \cup SUBSET Ids, detail \in Details \cup {Keep} :
               UpdateBegin(w, i, deps, detail)
          \/ DeleteBegin(w, i) \/ WalkBegin(w, i)
      BY <1>1 DEF RegistryRequest
    <2> QED
      BY <1>1, RegisterBeginIInv, UpdateBeginIInv, DeleteBeginIInv, WalkBeginIInv
  <1>2. ASSUME NEW w \in Workers, RegistryStep(w), UNCHANGED convergenceVars PROVE IInv'
    BY <1>2, CheckDependencyIInv, SaveObjectIInv, DeleteEndIInv, WalkRootIInv, WalkOnIInv,
       WalkReturnIInv, FinishIInv DEF RegistryStep
  <1>3. ASSUME NEW w \in Workers, ConvergenceRequest(w) PROVE IInv'
    BY <1>3, UpsertBeginIInv, SnapshotBeginIInv DEF ConvergenceRequest
  <1>4. ASSUME NEW w \in Workers, ConvergenceStep(w) PROVE IInv'
    <2>1. SnapshotEnd(w) \/ SnapshotFails(w) => UNCHANGED convergenceVars
      BY DEF SnapshotEnd, SnapshotFails
    <2> QED
      BY <1>4, <2>1, UpsertCopyIInv, UpsertSaveIInv, SnapshotObjectIInv, FinishIInv
         DEF ConvergenceStep
  <1>5. CASE UNCHANGED vars
    <2>1. UNCHANGED <<objects, phase, job, requests, deleted, promised, disturbed, changed,
                      records, patched, raced>>
      BY <1>5 DEF vars, registryVars, convergenceVars
    <2>2. TypeOK' /\ DanglingWasDeleted' /\ RecordsOfRegistered'
      BY <2>1 DEF IInv, TypeOK, RegistryTypeOK, DanglingWasDeleted, RecordsOfRegistered,
         Registered, Tracked
    <2>3. Lasting
      BY <2>1 DEF Lasting, Resolved
    <2>4. \A v \in Workers : JobInv(v)'
      BY <2>1, <2>3, OthersKnow DEF IInv
    <2> QED
      BY <2>2, <2>4 DEF IInv
  <1> QED
    BY <1>1, <1>2, <1>3, <1>4, <1>5 DEF Next

LEMMA SpecIInv == Spec => []IInv
  BY InitIInv, NextIInv, PTL DEF Spec

\* Every variable and every handler's local variables keep their types.
THEOREM TypeCorrect == Spec => []TypeOK
  <1>1. IInv => TypeOK
    BY DEF IInv
  <1> QED
    BY <1>1, SpecIInv, PTL

\* A dependency that does not resolve was deleted, although the registry looks
\* dependencies up long before it saves the object, and forgets to ask the
\* consumers of what it deletes.
THEOREM DanglingIsDeleted == Spec => []DanglingWasDeleted
  <1>1. IInv => DanglingWasDeleted
    BY DEF IInv
  <1> QED
    BY <1>1, SpecIInv, PTL

\* Every convergence record is of an object that is or was registered, although
\* the object is looked up before the record is made.
THEOREM RecordsStayRegistered == Spec => []RecordsOfRegistered
  <1>1. IInv => RecordsOfRegistered
    BY DEF IInv
  <1> QED
    BY <1>1, SpecIInv, PTL

\* The counts of a snapshot add up while nothing is deleted, although records
\* and objects are read at different times.
THEOREM SnapshotsAddUp == Spec => []SnapshotAddsUp
  <1>1. IInv => SnapshotAddsUp
    <2> SUFFICES ASSUME IInv, NEW w \in Workers, phase[w] = "counting",
                        job[w].todo = {}, deleted = {}
                 PROVE  Cardinality(job[w].tracked) + Cardinality(job[w].seen \ job[w].tracked)
                          = Cardinality(job[w].seen)
      BY DEF SnapshotAddsUp
    <2> DEFINE T == job[w].tracked
               S == job[w].seen
    <2>1. T \subseteq S /\ S \subseteq Ids
      BY DEF IInv, JobInv, TypeOK, Snapshot
    <2> HIDE DEF T, S
    <2>2. IsFiniteSet(S) /\ S \cap T = T
      BY <2>1, IdsAssumption, FS_Subset
    <2>3. IsFiniteSet(T) /\ Cardinality(S \ T) = Cardinality(S) - Cardinality(T)
      BY <2>1, <2>2, FS_Difference, FS_Subset
    <2>4. Cardinality(S) \in Nat /\ Cardinality(T) \in Nat
      BY <2>2, <2>3, FS_CardinalityType
    <2>5. Cardinality(T) + Cardinality(S \ T) = Cardinality(S)
      BY <2>3, <2>4
    <2> QED
      BY <2>5 DEF T, S
  <1> QED
    BY <1>1, SpecIInv, PTL

-----------------------------------------------------------------------------
(* Undisturbed objects and unraced records.  Whoever mutates one is alone   *)
(* with it, and what it has copied is still there.                          *)

Changing(w) == phase[w] \in {"checking", "checked", "deleting"}
Upserting(w) == phase[w] \in {"patching", "merging"}

ObjectInv ==
  /\ UndisturbedIsExact
  /\ \A u, v \in Workers :
       Changing(u) /\ Changing(v) /\ job[u].id = job[v].id /\ job[u].id \notin disturbed => u = v
  /\ \A w \in Workers : Mutating(w) /\ job[w].id \notin disturbed =>
       job[w].base = objects[job[w].id]

RecordInv ==
  /\ UnracedRecordIsExact
  /\ \A u, v \in Workers :
       Upserting(u) /\ Upserting(v) /\ job[u].id = job[v].id /\ job[u].id \notin raced => u = v
  /\ \A w \in Workers : phase[w] = "merging" /\ job[w].id \notin raced =>
       job[w].base = records[job[w].id]

\* The other handlers stay where they are.
OthersStay(w) == \A v \in Workers \ {w} : phase'[v] = phase[v] /\ job'[v] = job[v]

\* The handler of w moves to phase p and holds j.
LEMMA MoveFact ==
  ASSUME IInv, NEW w \in Workers, NEW p, NEW j,
         phase' = [phase EXCEPT ![w] = p], job' = [job EXCEPT ![w] = j]
  PROVE  OthersStay(w) /\ phase'[w] = p /\ job'[w] = j
  BY DEF OthersStay, IInv, TypeOK, RegistryTypeOK

\* A step of w that puts nothing and begins no mutation.
LEMMA LocalObjects ==
  ASSUME ObjectInv, NEW w \in Workers, OthersStay(w),
         UNCHANGED <<objects, promised, disturbed>>,
         Changing(w)' => Changing(w) /\ job'[w].id = job[w].id,
         Mutating(w)' => Mutating(w) /\ job'[w].base = job[w].base
  PROVE  ObjectInv'
  <1>1. \A v \in Workers : Changing(v)' => Changing(v) /\ job'[v].id = job[v].id
    BY DEF OthersStay, Changing
  <1>2. \A v \in Workers : Mutating(v)' =>
          Changing(v)' /\ Mutating(v) /\ job'[v].base = job[v].base
    BY DEF OthersStay, Mutating, Changing
  <1>3. UndisturbedIsExact'
    BY DEF ObjectInv, UndisturbedIsExact
  <1> QED
    BY <1>1, <1>2, <1>3 DEF ObjectInv

LEMMA BeginObjects ==
  ASSUME ObjectInv, NEW w \in Workers, NEW i \in Ids, OthersStay(w), ~Changing(w),
         UNCHANGED <<objects, promised>>, BeginMutation(i), job'[w].id = i,
         Mutating(w)' => job'[w].base = objects[i]
  PROVE  ObjectInv'
  <1>1. /\ disturbed \subseteq disturbed'
        /\ MutatorsOf(i) # {} => i \in disturbed'
    BY DEF BeginMutation
  <1>2. \A v \in Workers : v # w /\ Changing(v)' => Changing(v) /\ job'[v] = job[v]
    BY DEF OthersStay, Changing
  <1>3. ASSUME NEW v \in Workers, v # w, Changing(v), job[v].id = i PROVE i \in disturbed'
    BY <1>1, <1>3 DEF MutatorsOf, Changing
  <1>4. ASSUME NEW u \in Workers, NEW v \in Workers, Changing(u)', Changing(v)',
               job'[u].id = job'[v].id, job'[u].id \notin disturbed'
        PROVE  u = v
    BY <1>1, <1>2, <1>3, <1>4 DEF ObjectInv
  <1>5. ASSUME NEW v \in Workers, Mutating(v)', job'[v].id \notin disturbed'
        PROVE  job'[v].base = objects'[job'[v].id]
    <2>1. CASE v = w
      BY <1>5, <2>1
    <2>2. CASE v # w
      <3>1. Mutating(v) /\ job'[v] = job[v]
        BY <1>5, <2>2 DEF OthersStay, Mutating
      <3> QED
        BY <1>1, <1>5, <3>1 DEF ObjectInv
    <2> QED
      BY <2>1, <2>2
  <1>6. UndisturbedIsExact'
    BY <1>1 DEF ObjectInv, UndisturbedIsExact
  <1> QED
    BY <1>4, <1>5, <1>6 DEF ObjectInv

LEMMA PutObjects ==
  ASSUME ObjectInv, NEW w \in Workers, NEW i \in Ids, i = job[w].id, OthersStay(w),
         Changing(w), ~Changing(w)', disturbed' = disturbed,
         \A k \in Ids : k # i => objects'[k] = objects[k] /\ promised'[k] = promised[k],
         i \notin disturbed => objects'[i] = promised'[i],
         \A v \in Workers : Mutating(v) => job[v].id \in Ids
  PROVE  ObjectInv'
  <1>1. \A v \in Workers : Changing(v)' => v # w /\ Changing(v) /\ job'[v] = job[v]
    BY DEF OthersStay, Changing
  <1>2. \A v \in Workers : Mutating(v)' => v # w /\ Mutating(v) /\ Changing(v)
    BY <1>1 DEF OthersStay, Mutating, Changing
  <1>3. ASSUME NEW v \in Workers, Mutating(v)', job'[v].id \notin disturbed'
        PROVE  job'[v].base = objects'[job'[v].id]
    <2>1. v # w /\ Mutating(v) /\ Changing(v) /\ job'[v] = job[v] /\ job[v].id \notin disturbed
      BY <1>1, <1>2, <1>3 DEF OthersStay
    <2>2. job[v].id # i
      BY <2>1 DEF ObjectInv
    <2> QED
      BY <2>1, <2>2 DEF ObjectInv
  <1>4. UndisturbedIsExact'
    BY DEF ObjectInv, UndisturbedIsExact
  <1>5. \A u, v \in Workers :
          Changing(u)' /\ Changing(v)' /\ job'[u].id = job'[v].id
          /\ job'[u].id \notin disturbed' => u = v
    BY <1>1 DEF ObjectInv
  <1> QED
    BY <1>3, <1>4, <1>5 DEF ObjectInv

LEMMA SaveObjects ==
  ASSUME IInv, ObjectInv, NEW w \in Workers, SaveObject(w)
  PROVE  ObjectInv'
  <1> DEFINE j == job[w]
             i == j.id
             new(old) == [deps |-> IF j.deps = Keep THEN old.deps ELSE j.deps,
                          detail |-> IF j.detail = Keep THEN old.detail ELSE j.detail]
  <1>1. j \in Mutation /\ i \in Ids /\ phase[w] = "checked"
    BY DEF SaveObject, IInv, TypeOK, RegistryTypeOK, Mutation
  <1>2. OthersStay(w) /\ phase'[w] = "idle"
    BY MoveFact DEF SaveObject, Put, Finish
  <1>3. /\ objects'[i] = new(j.base)
        /\ promised'[i] = IF j.base = Absent \/ promised[i] # Absent
                            THEN new(promised[i]) ELSE promised[i]
        /\ disturbed' = disturbed
        /\ \A k \in Ids : k # i => objects'[k] = objects[k] /\ promised'[k] = promised[k]
    BY <1>1 DEF SaveObject, Put, Patched, IInv, TypeOK, RegistryTypeOK
  <1>4. i \notin disturbed => j.base = objects[i] /\ objects[i] = promised[i]
    BY <1>1 DEF ObjectInv, UndisturbedIsExact, Mutating
  <1> HIDE DEF new
  <1>5. i \notin disturbed => objects'[i] = promised'[i]
    <2> HIDE DEF i
    <2> QED
      BY <1>3, <1>4
  <1>6. \A v \in Workers : Mutating(v) => job[v].id \in Ids
    BY DEF IInv, TypeOK, RegistryTypeOK, Mutation, Mutating
  <1> QED
    BY <1>1, <1>2, <1>3, <1>5, <1>6, PutObjects DEF Changing

LEMMA DeleteObjects ==
  ASSUME IInv, ObjectInv, NEW w \in Workers, DeleteEnd(w)
  PROVE  ObjectInv'
  <1> DEFINE i == job[w].id
  <1>1. i \in Ids /\ phase[w] = "deleting"
    BY DEF DeleteEnd, IInv, TypeOK, RegistryTypeOK
  <1>2. OthersStay(w) /\ phase'[w] = "idle"
    BY MoveFact DEF DeleteEnd, Put, Finish
  <1>3. /\ objects'[i] = promised'[i] /\ disturbed' = disturbed
        /\ \A k \in Ids : k # i => objects'[k] = objects[k] /\ promised'[k] = promised[k]
    BY <1>1 DEF DeleteEnd, Put, IInv, TypeOK, RegistryTypeOK
  <1>4. \A v \in Workers : Mutating(v) => job[v].id \in Ids
    BY DEF IInv, TypeOK, RegistryTypeOK, Mutation, Mutating
  <1> QED
    BY <1>1, <1>2, <1>3, <1>4, PutObjects DEF Changing

LEMMA RequestObjects ==
  ASSUME IInv, ObjectInv, NEW w \in Workers, RegistryRequest(w)
  PROVE  ObjectInv'
  <1> PICK i \in Ids :
        \/ \E deps \in SUBSET Ids, detail \in Details : RegisterBegin(w, i, deps, detail)
        \/ \E deps \in {Keep} \cup SUBSET Ids, detail \in Details \cup {Keep} :
             UpdateBegin(w, i, deps, detail)
        \/ DeleteBegin(w, i) \/ WalkBegin(w, i)
    BY DEF RegistryRequest
  <1>1. ASSUME NEW deps, NEW detail, RegisterBegin(w, i, deps, detail) PROVE ObjectInv'
    <2> DEFINE j == [id |-> i, deps |-> deps, detail |-> detail, base |-> Absent, todo |-> deps]
    <2>1. /\ objects[i] = Absent /\ phase[w] = "idle" /\ BeginMutation(i)
          /\ UNCHANGED <<objects, promised>>
          /\ phase' = [phase EXCEPT ![w] = IF deps = {} THEN "checked" ELSE "checking"]
          /\ job' = [job EXCEPT ![w] = j]
      BY <1>1 DEF RegisterBegin, Start
    <2>2. OthersStay(w) /\ job'[w] = j
      BY <2>1, MoveFact
    <2> QED
      BY <2>1, <2>2, BeginObjects DEF Changing
  <1>2. ASSUME NEW deps, NEW detail, UpdateBegin(w, i, deps, detail) PROVE ObjectInv'
    <2> DEFINE j == [id |-> i, deps |-> deps, detail |-> detail, base |-> objects[i],
                     todo |-> IF deps = Keep THEN {} ELSE deps]
    <2>1. /\ phase[w] = "idle" /\ BeginMutation(i) /\ UNCHANGED <<objects, promised>>
          /\ phase' = [phase EXCEPT ![w] = IF deps \in {Keep, {}} THEN "checked" ELSE "checking"]
          /\ job' = [job EXCEPT ![w] = j]
      BY <1>2 DEF UpdateBegin, Start
    <2>2. OthersStay(w) /\ job'[w] = j
      BY <2>1, MoveFact
    <2>3. job'[w].id = i /\ job'[w].base = objects[i]
      BY <2>2
    <2> QED
      BY <2>1, <2>2, <2>3, BeginObjects DEF Changing
  <1>3. CASE DeleteBegin(w, i)
    <2>1. OthersStay(w) /\ phase'[w] = "deleting" /\ job'[w] = [id |-> i]
      BY <1>3, MoveFact DEF DeleteBegin, Start
    <2>2. job'[w].id = i
      BY <2>1
    <2> QED
      BY <1>3, <2>1, <2>2, BeginObjects DEF DeleteBegin, Start, Changing, Mutating
  <1>4. CASE WalkBegin(w, i)
    <2>1. OthersStay(w) /\ phase'[w] = "entering"
      BY <1>4, MoveFact DEF WalkBegin, Start
    <2> QED
      BY <1>4, <2>1, LocalObjects DEF WalkBegin, Changing, Mutating
  <1> QED
    BY <1>1, <1>2, <1>3, <1>4

\* A step of w that is at no mutation, and begins none.
LEMMA ElsewhereObjects ==
  ASSUME ObjectInv, NEW w \in Workers, OthersStay(w),
         UNCHANGED <<objects, promised, disturbed>>, ~Changing(w)'
  PROVE  ObjectInv'
  BY LocalObjects DEF Changing, Mutating

LEMMA StepObjects ==
  ASSUME IInv, ObjectInv, NEW w \in Workers, RegistryStep(w)
  PROVE  ObjectInv'
  <1>1. CASE CheckDependency(w)
    <2>1. PICK d \in job[w].todo :
            /\ job' = [job EXCEPT ![w].todo = @ \ {d}]
            /\ phase' = [phase EXCEPT ![w] = IF job[w].todo = {d} THEN "checked" ELSE "checking"]
      BY <1>1 DEF CheckDependency
    <2>2. job[w] \in Mutation /\ phase[w] = "checking"
          /\ UNCHANGED <<objects, promised, disturbed>>
      BY <1>1 DEF CheckDependency, IInv, TypeOK, RegistryTypeOK
    <2>3. job' = [job EXCEPT ![w] = [job[w] EXCEPT !.todo = @ \ {d}]]
      BY <2>1 DEF IInv, TypeOK, RegistryTypeOK
    <2>4. OthersStay(w) /\ job'[w] = [job[w] EXCEPT !.todo = @ \ {d}]
      BY <2>1, <2>3, MoveFact
    <2>5. job'[w].id = job[w].id /\ job'[w].base = job[w].base
      BY <2>2, <2>4 DEF Mutation
    <2> QED
      BY <2>2, <2>4, <2>5, LocalObjects DEF Changing, Mutating
  <1>2. CASE DependencyMissing(w) \/ DeleteFails(w) \/ WalkEnd(w)
    <2>1. Finish(w) /\ UNCHANGED <<objects, promised, disturbed>>
      BY <1>2 DEF DependencyMissing, DeleteFails, WalkEnd
    <2>2. OthersStay(w) /\ phase'[w] = "idle"
      BY <2>1, MoveFact DEF Finish
    <2> QED
      BY <2>1, <2>2, ElsewhereObjects DEF Changing
  <1>3. CASE WalkRoot(w)
    <2>1. OthersStay(w) /\ phase'[w] = "walking"
      BY <1>3, MoveFact DEF WalkRoot
    <2> QED
      BY <1>3, <2>1, ElsewhereObjects DEF WalkRoot, Changing
  <1>4. CASE WalkOn(w) \/ WalkReturn(w)
    <2>1. /\ phase' = phase /\ phase[w] = "walking"
          /\ UNCHANGED <<objects, promised, disturbed>>
      BY <1>4 DEF WalkOn, WalkReturn
    <2>2. \A v \in Workers \ {w} : job'[v] = job[v]
      BY <1>4 DEF WalkOn, WalkReturn, IInv, TypeOK, RegistryTypeOK
    <2> QED
      BY <2>1, <2>2, ElsewhereObjects DEF OthersStay, Changing
  <1> QED
    BY <1>1, <1>2, <1>3, <1>4, SaveObjects, DeleteObjects DEF RegistryStep

-----------------------------------------------------------------------------

\* A step of w that saves no record and begins no upsert.
LEMMA LocalRecords ==
  ASSUME RecordInv, NEW w \in Workers, OthersStay(w), ~Upserting(w)',
         UNCHANGED <<records, patched, raced>>
  PROVE  RecordInv'
  <1>1. \A v \in Workers : Upserting(v)' =>
          /\ Upserting(v) /\ job'[v] = job[v] /\ phase'[v] = phase[v]
    BY DEF OthersStay, Upserting
  <1>2. \A v \in Workers : phase'[v] = "merging" => Upserting(v)'
    BY DEF Upserting
  <1>3. UnracedRecordIsExact'
    BY DEF RecordInv, UnracedRecordIsExact
  <1> QED
    BY <1>1, <1>2, <1>3 DEF RecordInv

LEMMA UpsertBeginRecords ==
  ASSUME IInv, RecordInv, NEW w \in Workers, NEW i \in Ids, NEW patch \in Patch,
         UpsertBegin(w, i, patch)
  PROVE  RecordInv'
  <1>1. /\ OthersStay(w) /\ phase'[w] = "patching"
        /\ job'[w] = [id |-> i, patch |-> patch, base |-> Absent]
    BY MoveFact DEF UpsertBegin, Start
  <1>2. job'[w].id = i
    BY <1>1
  <1>3. /\ raced \subseteq raced'
        /\ UpsertersOf(i) # {} => i \in raced'
        /\ UNCHANGED <<records, patched>>
    BY DEF UpsertBegin
  <1>4. \A v \in Workers : v # w => phase'[v] = phase[v] /\ job'[v] = job[v]
    BY <1>1 DEF OthersStay
  <1>5. ASSUME NEW v \in Workers, v # w, Upserting(v), job[v].id = i PROVE i \in raced'
    BY <1>3, <1>5 DEF UpsertersOf, Upserting
  <1>6. ASSUME NEW u \in Workers, NEW v \in Workers, Upserting(u)', Upserting(v)',
               job'[u].id = job'[v].id, job'[u].id \notin raced'
        PROVE  u = v
    <2>1. \A x \in Workers : x # w /\ Upserting(x)' => Upserting(x)
      BY <1>4 DEF Upserting
    <2> QED
      BY <1>2, <1>3, <1>4, <1>5, <1>6, <2>1 DEF RecordInv
  <1>7. UnracedRecordIsExact'
    BY <1>3 DEF RecordInv, UnracedRecordIsExact
  <1>8. \A v \in Workers : phase'[v] = "merging" /\ job'[v].id \notin raced' =>
          job'[v].base = records'[job'[v].id]
    BY <1>1, <1>3, <1>4 DEF RecordInv
  <1> QED
    BY <1>6, <1>7, <1>8 DEF RecordInv

LEMMA UpsertCopyRecords ==
  ASSUME IInv, RecordInv, NEW w \in Workers, UpsertCopy(w)
  PROVE  RecordInv'
  <1> DEFINE j == [job[w] EXCEPT !.base = records[job[w].id]]
  <1>1. job[w] \in Upsert /\ phase[w] = "patching" /\ UNCHANGED <<records, patched, raced>>
    BY DEF UpsertCopy, convergenceVars, IInv, TypeOK
  <1>2. job' = [job EXCEPT ![w] = j]
    BY DEF UpsertCopy, IInv, TypeOK, RegistryTypeOK
  <1>3. OthersStay(w) /\ phase'[w] = "merging" /\ job'[w] = j
    BY <1>2, MoveFact DEF UpsertCopy
  <1>4. job'[w].id = job[w].id /\ job'[w].base = records[job[w].id]
    BY <1>1, <1>3 DEF Upsert
  <1>5. \A v \in Workers : v # w => phase'[v] = phase[v] /\ job'[v] = job[v]
    BY <1>3 DEF OthersStay
  <1>6. \A v \in Workers : Upserting(v)' => Upserting(v) /\ job'[v].id = job[v].id
    BY <1>1, <1>4, <1>5 DEF Upserting
  <1>7. \A v \in Workers : phase'[v] = "merging" /\ job'[v].id \notin raced' =>
          job'[v].base = records'[job'[v].id]
    BY <1>1, <1>4, <1>5 DEF RecordInv
  <1>8. UnracedRecordIsExact'
    BY <1>1 DEF RecordInv, UnracedRecordIsExact
  <1> QED
    BY <1>1, <1>6, <1>7, <1>8 DEF RecordInv

LEMMA UpsertSaveRecords ==
  ASSUME IInv, RecordInv, NEW w \in Workers, UpsertSave(w)
  PROVE  RecordInv'
  <1> DEFINE j == job[w]
             i == j.id
  <1>1. j \in Upsert /\ i \in Ids /\ phase[w] = "merging" /\ raced' = raced
    BY DEF UpsertSave, IInv, TypeOK, Upsert
  <1>2. OthersStay(w) /\ phase'[w] = "idle"
    BY MoveFact DEF UpsertSave, Finish
  <1>3. /\ records'[i] = Merged(j.base, j.patch)
        /\ patched'[i] = Merged(patched[i], j.patch)
        /\ \A k \in Ids : k # i => records'[k] = records[k] /\ patched'[k] = patched[k]
    BY <1>1 DEF UpsertSave, Merged, IInv, TypeOK
  <1>4. i \notin raced => j.base = records[i] /\ records[i] = patched[i]
    BY <1>1 DEF RecordInv, UnracedRecordIsExact
  <1>5. UnracedRecordIsExact'
    <2>1. ASSUME NEW k \in Ids \ raced' PROVE records'[k] = patched'[k]
      <3>1. CASE k = i
        BY <1>1, <1>3, <1>4, <3>1
      <3>2. CASE k # i
        BY <1>1, <1>3, <3>2 DEF RecordInv, UnracedRecordIsExact
      <3> QED
        BY <3>1, <3>2
    <2> QED
      BY <2>1 DEF UnracedRecordIsExact
  <1>6. \A v \in Workers : Upserting(v)' =>
          v # w /\ Upserting(v) /\ phase'[v] = phase[v] /\ job'[v] = job[v]
    BY <1>2 DEF OthersStay, Upserting
  <1>7. ASSUME NEW v \in Workers, phase'[v] = "merging", job'[v].id \notin raced'
        PROVE  job'[v].base = records'[job'[v].id]
    <2>1. /\ v # w /\ Upserting(v) /\ phase[v] = "merging" /\ job'[v] = job[v]
          /\ job[v].id \notin raced /\ job[v].id \in Ids
      BY <1>1, <1>6, <1>7 DEF Upserting, IInv, TypeOK, Upsert
    <2>2. job[v].id # i
      BY <1>1, <2>1 DEF RecordInv, Upserting
    <2> QED
      BY <1>3, <2>1, <2>2 DEF RecordInv
  <1>8. \A u, v \in Workers :
          Upserting(u)' /\ Upserting(v)' /\ job'[u].id = job'[v].id
          /\ job'[u].id \notin raced' => u = v
    BY <1>1, <1>6 DEF RecordInv
  <1> QED
    BY <1>5, <1>7, <1>8 DEF RecordInv

\* A handler of the registry moves alone, ...
LEMMA RegistryMoves ==
  ASSUME IInv, NEW w \in Workers, RegistryRequest(w) \/ RegistryStep(w)
  PROVE  OthersStay(w) /\ phase'[w] \notin {"patching", "merging"}
  <1>1. CASE RegistryRequest(w)
    <2>1. PICK next \in {"checked", "checking", "deleting", "entering"} :
            \E j : Start(w, next, j)
      BY <1>1 DEF RegistryRequest, RegisterBegin, UpdateBegin, DeleteBegin, WalkBegin
    <2>2. PICK j : Start(w, next, j)
      BY <2>1
    <2> QED
      BY <2>2, MoveFact DEF Start
  <1>2. CASE SaveObject(w) \/ DeleteEnd(w) \/ DependencyMissing(w) \/ DeleteFails(w)
             \/ WalkEnd(w)
    <2>1. Finish(w)
      BY <1>2 DEF SaveObject, DeleteEnd, DependencyMissing, DeleteFails, WalkEnd, Put
    <2>2. OthersStay(w) /\ phase'[w] = "idle"
      BY <2>1, MoveFact DEF Finish
    <2> QED
      BY <2>2
  <1>3. CASE CheckDependency(w)
    BY <1>3 DEF CheckDependency, OthersStay, IInv, TypeOK, RegistryTypeOK
  <1>4. CASE WalkRoot(w)
    BY <1>4, MoveFact DEF WalkRoot
  <1>5. CASE WalkOn(w) \/ WalkReturn(w)
    BY <1>5 DEF WalkOn, WalkReturn, OthersStay, IInv, TypeOK, RegistryTypeOK
  <1> QED
    BY <1>1, <1>2, <1>3, <1>4, <1>5 DEF RegistryStep

\* ... and concerns no record.
LEMMA RegistryRecords ==
  ASSUME IInv, RecordInv, NEW w \in Workers, RegistryRequest(w) \/ RegistryStep(w),
         UNCHANGED convergenceVars
  PROVE  RecordInv'
  BY RegistryMoves, LocalRecords DEF Upserting, convergenceVars

\* What a handler of the convergence store does concerns no object.
LEMMA ConvergenceObjects ==
  ASSUME IInv, ObjectInv, NEW w \in Workers, ConvergenceRequest(w) \/ ConvergenceStep(w)
  PROVE  /\ OthersStay(w) /\ ~Changing(w)' /\ UNCHANGED <<objects, promised, disturbed>>
         /\ ObjectInv'
  <1>1. CASE ConvergenceRequest(w)
    <2>1. PICK next \in {"patching", "counting"} : \E j : Start(w, next, j)
      BY <1>1 DEF ConvergenceRequest, UpsertBegin, SnapshotBegin
    <2>2. PICK j : Start(w, next, j)
      BY <2>1
    <2>3. OthersStay(w) /\ phase'[w] = next
      BY <2>2, MoveFact DEF Start
    <2>4. UNCHANGED <<objects, promised, disturbed>>
      BY <1>1 DEF ConvergenceRequest, UpsertBegin, SnapshotBegin, registryRest
    <2> QED
      BY <2>3, <2>4, ElsewhereObjects DEF Changing
  <1>2. CASE UpsertCopy(w) \/ SnapshotObject(w)
    <2>1. /\ phase'[w] \in {"merging", "counting"} /\ OthersStay(w)
          /\ UNCHANGED <<objects, promised, disturbed>>
      BY <1>2 DEF UpsertCopy, SnapshotObject, OthersStay, registryRest, IInv, TypeOK,
         RegistryTypeOK
    <2> QED
      BY <2>1, ElsewhereObjects DEF Changing
  <1>3. CASE UpsertSave(w) \/ SnapshotEnd(w) \/ SnapshotFails(w)
    <2>1. Finish(w) /\ UNCHANGED <<objects, promised, disturbed>>
      BY <1>3 DEF UpsertSave, SnapshotEnd, SnapshotFails, registryRest
    <2>2. OthersStay(w) /\ phase'[w] = "idle"
      BY <2>1, MoveFact DEF Finish
    <2> QED
      BY <2>1, <2>2, ElsewhereObjects DEF Changing
  <1> QED
    BY <1>1, <1>2, <1>3 DEF ConvergenceStep

LEMMA ConvergenceRecords ==
  ASSUME IInv, ObjectInv, RecordInv, NEW w \in Workers,
         ConvergenceRequest(w) \/ ConvergenceStep(w)
  PROVE  RecordInv'
  <1>1. CASE SnapshotBegin(w)
    <2>1. OthersStay(w) /\ phase'[w] = "counting"
      BY <1>1, MoveFact DEF SnapshotBegin, Start
    <2> QED
      BY <1>1, <2>1, LocalRecords DEF SnapshotBegin, convergenceVars, Upserting
  <1>2. CASE SnapshotObject(w)
    <2>1. OthersStay(w) /\ phase'[w] = "counting"
      BY <1>2, ConvergenceObjects DEF ConvergenceStep, SnapshotObject
    <2> QED
      BY <1>2, <2>1, LocalRecords DEF SnapshotObject, convergenceVars, Upserting
  <1>3. CASE SnapshotEnd(w) \/ SnapshotFails(w)
    <2>1. OthersStay(w) /\ phase'[w] = "idle"
      BY <1>3, MoveFact DEF SnapshotEnd, SnapshotFails, Finish
    <2> QED
      BY <1>3, <2>1, LocalRecords DEF SnapshotEnd, SnapshotFails, convergenceVars, Upserting
  <1> QED
    BY <1>1, <1>2, <1>3, UpsertBeginRecords, UpsertCopyRecords, UpsertSaveRecords
    DEF ConvergenceRequest, ConvergenceStep

LEMMA NextExact == IInv /\ ObjectInv /\ RecordInv /\ [Next]_vars => ObjectInv' /\ RecordInv'
  <1> SUFFICES ASSUME IInv, ObjectInv, RecordInv, [Next]_vars PROVE ObjectInv' /\ RecordInv'
    OBVIOUS
  <1>1. CASE UNCHANGED vars
    BY <1>1 DEF vars, registryVars, convergenceVars, ObjectInv, RecordInv, Changing, Mutating,
       Upserting, UndisturbedIsExact, UnracedRecordIsExact
  <1> QED
    BY <1>1, RequestObjects, StepObjects, RegistryRecords, ConvergenceObjects,
       ConvergenceRecords DEF Next

LEMMA SpecExact == Spec => [](ObjectInv /\ RecordInv)
  <1>1. Init => ObjectInv /\ RecordInv
    BY DEF Init, RegistryInit, ObjectInv, RecordInv, Changing, Mutating, Upserting,
       UndisturbedIsExact, UnracedRecordIsExact
  <1> QED
    BY <1>1, SpecIInv, NextExact, PTL DEF Spec

\* An object whose mutations never overlapped is what they give one after the
\* other, whatever happens to other objects meanwhile.
THEOREM UndisturbedExact == Spec => []UndisturbedIsExact
  <1>1. ObjectInv => UndisturbedIsExact
    BY DEF ObjectInv
  <1> QED
    BY <1>1, SpecExact, PTL

\* A convergence record whose upserts never overlapped has in each dimension
\* what was last patched there.
THEOREM UnracedExact == Spec => []UnracedRecordIsExact
  <1>1. RecordInv => UnracedRecordIsExact
    BY DEF RecordInv
  <1> QED
    BY <1>1, SpecExact, PTL
-----------------------------------------------------------------------------
(* Walks are exact.  A depth-first walk over objects that stay as they are  *)
(* has looked up the dependencies of all it has left; what is on its path   *)
(* leads to what is further up; and as long as it has met no cycle, none of *)
(* what it has left leads back to itself.                                   *)

Deps(k) == IF objects[k] = Absent THEN {} ELSE objects[k].deps

OnPath(j) == {j.stack[k].id : k \in 1..Len(j.stack)}
Left(j) == j.visited \ OnPath(j)

PathInv(j) ==
  LET n == Len(j.stack) IN
  /\ \A a \in 1..n : j.stack[a].rest \subseteq Deps(j.stack[a].id)
  /\ \A a, b \in 1..n : a < b =>
       /\ j.stack[a].id # j.stack[b].id
       /\ j.stack[b].id \in Reachable(j.stack[a].id)

FoundInv(j) ==
  /\ j.id \in j.visited /\ OnPath(j) \subseteq j.visited
  /\ j.found = j.visited \ {j.id}
  /\ j.visited \subseteq Reachable(j.id) \cup {j.id}
  /\ \A k \in Left(j) : Deps(k) \subseteq j.visited
  /\ \A a \in 1..Len(j.stack) : Deps(j.stack[a].id) \ j.stack[a].rest \subseteq j.visited

CycleInv(j) ==
  LET n == Len(j.stack) IN
  IF j.cycle THEN \E d \in j.visited : d \in Reachable(d)
  ELSE /\ \A k \in Left(j) : Deps(k) \subseteq Left(j) /\ k \notin Reachable(k)
       /\ \A a \in 1..n :
            Deps(j.stack[a].id) \ j.stack[a].rest
              \subseteq Left(j) \cup {j.stack[b].id : b \in (a + 1)..n}

WalkKnows(p, j) ==
  /\ p = "entering" => j.found = {} /\ j.visited = {} /\ j.stack = <<>> /\ ~j.cycle
  /\ p = "walking" => PathInv(j) /\ FoundInv(j) /\ CycleInv(j)

WalkInv == \A w \in Workers \ changed : WalkKnows(phase[w], job[w])

\* Dependencies are ids.
LEMMA DepsAreIds ==
  ASSUME TypeOK, NEW k \in Ids
  PROVE  Deps(k) \subseteq Ids
  BY DEF TypeOK, RegistryTypeOK, Deps, Object

\* What can be reached, by the name that the proofs use.
LEMMA ReachableMeans ==
  ASSUME NEW i
  PROVE  Reachable(i) = {d \in Ids : \A S \in SUBSET Ids :
           Deps(i) \subseteq S /\ (\A k \in S : Deps(k) \subseteq S) => d \in S}
  BY DEF Reachable, Deps

\* A closed set that holds what i depends on holds all that i leads to.
LEMMA ReachableInClosed ==
  ASSUME NEW i, NEW S \in SUBSET Ids, Deps(i) \subseteq S, \A k \in S : Deps(k) \subseteq S
  PROVE  Reachable(i) \subseteq S
  BY ReachableMeans

\* What i leads to leads on to what that depends on.
LEMMA ReachableStep ==
  ASSUME TypeOK, NEW i \in Ids, NEW k \in Reachable(i) \cup {i}, NEW d \in Deps(k)
  PROVE  d \in Reachable(i)
  <1>1. k \in Ids
    BY ReachableMeans
  <1>2. d \in Ids
    BY <1>1, DepsAreIds
  <1>3. ASSUME NEW S \in SUBSET Ids, Deps(i) \subseteq S, \A e \in S : Deps(e) \subseteq S
        PROVE  d \in S
    BY <1>3, ReachableInClosed
  <1> QED
    BY <1>2, <1>3, ReachableMeans

-----------------------------------------------------------------------------
(* The moves of a walk from j to k                                          *)

\* The next dependency of the object on top is on the path, or has been left.
LEMMA MoveSeen ==
  ASSUME TypeOK, NEW j, NEW k, PathInv(j), FoundInv(j), CycleInv(j), NEW n \in Nat, n > 0,
         j.id \in Ids, OnPath(j) \subseteq Ids,
         Len(j.stack) = n, Len(k.stack) = n, NEW d \in j.stack[n].rest,
         \A a \in 1..n : k.stack[a].id = j.stack[a].id,
         \A a \in 1..n : k.stack[a].rest = IF a = n THEN j.stack[a].rest \ {d} ELSE j.stack[a].rest,
         d \in j.visited, k.id = j.id, k.visited = j.visited,
         k.found = IF d = j.id THEN j.found ELSE j.found \cup {d},
         k.cycle = IF d \in OnPath(j) THEN TRUE ELSE j.cycle
  PROVE  PathInv(k) /\ FoundInv(k) /\ CycleInv(k)
  <1>1. OnPath(k) = OnPath(j) /\ Left(k) = Left(j)
    BY DEF OnPath, Left
  <1>2. PathInv(k)
    <2>1. \A a \in 1..n : k.stack[a].rest \subseteq j.stack[a].rest
      OBVIOUS
    <2>2. \A a \in 1..n : k.stack[a].rest \subseteq Deps(k.stack[a].id)
      BY <2>1 DEF PathInv
    <2>3. \A a, b \in 1..n : a < b =>
            k.stack[a].id # k.stack[b].id /\ k.stack[b].id \in Reachable(k.stack[a].id)
      BY DEF PathInv
    <2> QED
      BY <2>2, <2>3 DEF PathInv
  <1>3. \A a \in 1..n : Deps(k.stack[a].id) \ k.stack[a].rest
                          \subseteq (Deps(j.stack[a].id) \ j.stack[a].rest) \cup {d}
    OBVIOUS
  <1>4. FoundInv(k)
    <2>1. k.found = k.visited \ {k.id}
      BY DEF FoundInv
    <2>2. \A a \in 1..n : Deps(k.stack[a].id) \ k.stack[a].rest \subseteq k.visited
      BY <1>3 DEF FoundInv
    <2> QED
      BY <1>1, <2>1, <2>2 DEF FoundInv
  <1>5. CASE d \in OnPath(j)
    <2>1. PICK a \in 1..n : d = j.stack[a].id
      BY <1>5 DEF OnPath
    <2>2. d \in Ids /\ n \in 1..n /\ j.stack[n].id \in Reachable(d) \cup {d}
      BY <1>5, <2>1 DEF PathInv
    <2>3. d \in Deps(j.stack[n].id)
      BY <2>2 DEF PathInv
    <2>4. d \in Reachable(d)
      BY <2>2, <2>3, ReachableStep
    <2> QED
      BY <1>2, <1>4, <1>5, <2>4 DEF CycleInv
  <1>6. CASE d \notin OnPath(j) /\ j.cycle
    BY <1>2, <1>4, <1>6 DEF CycleInv
  <1>7. CASE d \notin OnPath(j) /\ ~j.cycle
    <2>1. d \in Left(j)
      BY <1>7 DEF Left
    <2>2. ASSUME NEW a \in 1..n
          PROVE  Deps(k.stack[a].id) \ k.stack[a].rest
                   \subseteq Left(k) \cup {k.stack[b].id : b \in (a + 1)..n}
      <3>1. {k.stack[b].id : b \in (a + 1)..n} = {j.stack[b].id : b \in (a + 1)..n}
        OBVIOUS
      <3>2. Deps(j.stack[a].id) \ j.stack[a].rest
              \subseteq Left(j) \cup {j.stack[b].id : b \in (a + 1)..n}
        BY <1>7 DEF CycleInv
      <3> QED
        BY <1>1, <1>3, <2>1, <3>1, <3>2
    <2>3. \A e \in Left(k) : Deps(e) \subseteq Left(k) /\ e \notin Reachable(e)
      BY <1>1, <1>7 DEF CycleInv
    <2>4. ~k.cycle
      BY <1>7
    <2>5. CycleInv(k)
      BY <2>2, <2>3, <2>4 DEF CycleInv
    <2> QED
      BY <1>2, <1>4, <2>5
  <1> QED
    BY <1>5, <1>6, <1>7

\* The object on top leaves the path.
LEMMA MoveReturn ==
  ASSUME TypeOK, NEW j, NEW k, PathInv(j), FoundInv(j), CycleInv(j), NEW n \in Nat, n > 0,
         j.visited \subseteq Ids, j.cycle \in BOOLEAN,
         Len(j.stack) = n, Len(k.stack) = n - 1, j.stack[n].rest = {},
         \A a \in 1..(n - 1) : k.stack[a] = j.stack[a],
         k.id = j.id, k.visited = j.visited, k.found = j.found, k.cycle = j.cycle
  PROVE  PathInv(k) /\ FoundInv(k) /\ CycleInv(k)
  <1> DEFINE top == j.stack[n].id
  <1>1. /\ n \in 1..n /\ (\A a \in 1..(n - 1) : a \in 1..n)
        /\ (\A a \in 1..n : a = n \/ a \in 1..(n - 1))
    OBVIOUS
  <1>2. top \in OnPath(j) /\ top \in j.visited
    BY <1>1 DEF OnPath, FoundInv
  <1>3. OnPath(k) = OnPath(j) \ {top}
    <2>1. \A a \in 1..(n - 1) : k.stack[a].id = j.stack[a].id /\ j.stack[a].id # top
      BY <1>1 DEF PathInv
    <2>2. OnPath(k) = {j.stack[a].id : a \in 1..(n - 1)}
      <3>1. OnPath(k) = {k.stack[a].id : a \in 1..(n - 1)}
        BY DEF OnPath
      <3>2. \A a \in 1..(n - 1) : k.stack[a].id = j.stack[a].id
        BY <2>1
      <3> QED
        BY <3>1, <3>2
    <2>3. OnPath(j) = {j.stack[a].id : a \in 1..n}
      BY DEF OnPath
    <2> HIDE DEF top
    <2>4. {j.stack[a].id : a \in 1..n} = {j.stack[a].id : a \in 1..(n - 1)} \cup {top}
      BY <1>1 DEF top
    <2>5. top \notin {j.stack[a].id : a \in 1..(n - 1)}
      BY <2>1
    <2> QED
      BY <2>2, <2>3, <2>4, <2>5
  <1>4. Left(k) = Left(j) \cup {top}
    BY <1>2, <1>3 DEF Left
  <1>5. PathInv(k)
    BY <1>1 DEF PathInv
  <1>6. Deps(top) \ j.stack[n].rest = Deps(top)
    OBVIOUS
  <1>7. FoundInv(k)
    <2>1. Deps(top) \subseteq j.visited
      BY <1>1, <1>6 DEF FoundInv
    <2>2. \A e \in Left(k) : Deps(e) \subseteq k.visited
      BY <1>4, <2>1 DEF FoundInv
    <2>3. \A a \in 1..(n - 1) : Deps(k.stack[a].id) \ k.stack[a].rest \subseteq k.visited
      BY <1>1 DEF FoundInv
    <2> QED
      BY <1>3, <2>2, <2>3 DEF FoundInv
  <1>8. CASE j.cycle
    BY <1>5, <1>7, <1>8 DEF CycleInv
  <1>9. CASE ~j.cycle
    <2>1. Deps(top) \subseteq Left(j)
      <3>1. {j.stack[b].id : b \in (n + 1)..n} = {}
        OBVIOUS
      <3> QED
        BY <1>1, <1>6, <1>9, <3>1 DEF CycleInv
    <2>2. \A e \in Left(j) : Deps(e) \subseteq Left(j) /\ e \notin Reachable(e)
      BY <1>9 DEF CycleInv
    <2>3. Reachable(top) \subseteq Left(j)
      <3>1. Left(j) \in SUBSET Ids
        BY DEF Left
      <3> QED
        BY <2>1, <2>2, <3>1, ReachableInClosed
    <2>4. top \notin Reachable(top)
      BY <1>2, <2>3 DEF Left
    <2>5. \A e \in Left(k) : Deps(e) \subseteq Left(k) /\ e \notin Reachable(e)
      BY <1>4, <2>1, <2>2, <2>4
    <2>6. ASSUME NEW a \in 1..(n - 1)
          PROVE  Deps(k.stack[a].id) \ k.stack[a].rest
                   \subseteq Left(k) \cup {k.stack[b].id : b \in (a + 1)..(n - 1)}
      <3>1. {j.stack[b].id : b \in (a + 1)..n}
              \subseteq {k.stack[b].id : b \in (a + 1)..(n - 1)} \cup {top}
        <4>1. \A b \in (a + 1)..n : b = n \/ (b \in (a + 1)..(n - 1) /\ k.stack[b] = j.stack[b])
          OBVIOUS
        <4> QED
          BY <4>1
      <3>2. Deps(j.stack[a].id) \ j.stack[a].rest
              \subseteq Left(j) \cup {j.stack[b].id : b \in (a + 1)..n}
        BY <1>1, <1>9 DEF CycleInv
      <3> QED
        BY <1>4, <3>1, <3>2
    <2>7. CycleInv(k)
      BY <1>9, <2>5, <2>6 DEF CycleInv
    <2> QED
      BY <1>5, <1>7, <2>7
  <1> QED
    BY <1>5, <1>7, <1>8, <1>9

\* Another object is looked up and is there: it comes on top.
LEMMA MovePush ==
  ASSUME TypeOK, NEW j, NEW k, PathInv(j), FoundInv(j), CycleInv(j), NEW n \in Nat, n > 0,
         j.id \in Ids, j.visited \subseteq Ids, j.cycle \in BOOLEAN,
         Len(j.stack) = n, Len(k.stack) = n + 1, NEW d \in j.stack[n].rest, d \notin j.visited,
         \A a \in 1..n : k.stack[a].id = j.stack[a].id,
         \A a \in 1..n : k.stack[a].rest = IF a = n THEN j.stack[a].rest \ {d} ELSE j.stack[a].rest,
         k.stack[n + 1].id = d, k.stack[n + 1].rest = Deps(d),
         k.id = j.id, k.visited = j.visited \cup {d},
         k.found = IF d = j.id THEN j.found ELSE j.found \cup {d}, k.cycle = j.cycle
  PROVE  PathInv(k) /\ FoundInv(k) /\ CycleInv(k)
  <1>1. n \in 1..n /\ n + 1 \notin 1..n /\ (\A a \in 1..(n + 1) : a = n + 1 \/ a \in 1..n)
        /\ (\A a \in 1..n : a \in 1..(n + 1)) /\ n + 1 \in 1..(n + 1)
    OBVIOUS
  <1>2. OnPath(k) = OnPath(j) \cup {d}
    <2>1. OnPath(k) = {k.stack[a].id : a \in 1..(n + 1)}
      BY DEF OnPath
    <2>2. OnPath(j) = {k.stack[a].id : a \in 1..n}
      BY DEF OnPath
    <2> QED
      BY <1>1, <2>1, <2>2
  <1>3. Left(k) = Left(j) /\ d \notin OnPath(j)
    BY <1>2 DEF Left, FoundInv
  <1>4. d \in Deps(j.stack[n].id)
    BY <1>1 DEF PathInv
  <1>5. \A a \in 1..n : j.stack[a].id \in OnPath(j) /\ j.stack[a].id \in Ids
    BY DEF OnPath, FoundInv
  <1>6. \A a \in 1..n : k.stack[a].rest \subseteq j.stack[a].rest
    OBVIOUS
  <1>7. PathInv(k)
    <2>1. \A a \in 1..n : k.stack[a].rest \subseteq Deps(k.stack[a].id)
      BY <1>6 DEF PathInv
    <2>2. \A a \in 1..(n + 1) : k.stack[a].rest \subseteq Deps(k.stack[a].id)
      BY <1>1, <2>1
    <2>3. ASSUME NEW a \in 1..n, NEW b \in 1..n, a < b
          PROVE  k.stack[a].id # k.stack[b].id /\ k.stack[b].id \in Reachable(k.stack[a].id)
      BY <2>3 DEF PathInv
    <2>4. ASSUME NEW a \in 1..n
          PROVE  k.stack[a].id # d /\ d \in Reachable(k.stack[a].id)
      <3>1. j.stack[n].id \in Reachable(j.stack[a].id) \cup {j.stack[a].id}
        <4>1. CASE a = n
          BY <4>1
        <4>2. CASE a < n
          BY <1>1, <4>2 DEF PathInv
        <4> QED
          BY <4>1, <4>2
      <3>2. d \in Reachable(j.stack[a].id)
        BY <1>4, <1>5, <3>1, ReachableStep
      <3> QED
        BY <1>3, <1>5, <3>2
    <2>5. ASSUME NEW a \in 1..(n + 1), NEW b \in 1..(n + 1), a < b
          PROVE  k.stack[a].id # k.stack[b].id /\ k.stack[b].id \in Reachable(k.stack[a].id)
      <3>1. a \in 1..n /\ (b \in 1..n \/ b = n + 1)
        BY <2>5
      <3> QED
        BY <2>3, <2>4, <2>5, <3>1
    <2> QED
      BY <2>2, <2>5 DEF PathInv
  <1>8. \A a \in 1..n : Deps(k.stack[a].id) \ k.stack[a].rest
                          \subseteq (Deps(j.stack[a].id) \ j.stack[a].rest) \cup {d}
    OBVIOUS
  <1>9. FoundInv(k)
    <2>1. k.found = k.visited \ {k.id}
      BY DEF FoundInv
    <2>2. \A a \in 1..n : Deps(k.stack[a].id) \ k.stack[a].rest \subseteq k.visited
      BY <1>8 DEF FoundInv
    <2>3. \A a \in 1..(n + 1) : Deps(k.stack[a].id) \ k.stack[a].rest \subseteq k.visited
      <3>1. Deps(k.stack[n + 1].id) \ k.stack[n + 1].rest = {}
        OBVIOUS
      <3> QED
        BY <1>1, <2>2, <3>1
    <2>4. d \in Reachable(j.id)
      BY <1>1, <1>4, <1>5, ReachableStep DEF FoundInv
    <2>5. k.id \in k.visited /\ OnPath(k) \subseteq k.visited
      BY <1>2 DEF FoundInv
    <2>6. k.visited \subseteq Reachable(k.id) \cup {k.id}
      BY <2>4 DEF FoundInv
    <2>7. \A e \in Left(k) : Deps(e) \subseteq k.visited
      BY <1>3 DEF FoundInv
    <2> QED
      BY <2>1, <2>3, <2>5, <2>6, <2>7 DEF FoundInv
  <1>10. CASE j.cycle
    BY <1>7, <1>9, <1>10 DEF CycleInv
  <1>11. CASE ~j.cycle
    <2>1. \A e \in Left(k) : Deps(e) \subseteq Left(k) /\ e \notin Reachable(e)
      BY <1>3, <1>11 DEF CycleInv
    <2>2. ASSUME NEW a \in 1..(n + 1)
          PROVE  Deps(k.stack[a].id) \ k.stack[a].rest
                   \subseteq Left(k) \cup {k.stack[b].id : b \in (a + 1)..(n + 1)}
      <3>1. CASE a = n + 1
        BY <3>1
      <3>2. CASE a \in 1..n
        <4>1. Deps(j.stack[a].id) \ j.stack[a].rest
                \subseteq Left(j) \cup {j.stack[b].id : b \in (a + 1)..n}
          BY <1>11, <3>2 DEF CycleInv
        <4>2. \A b \in (a + 1)..n : b \in (a + 1)..(n + 1) /\ k.stack[b].id = j.stack[b].id
          BY <3>2
        <4>3. n + 1 \in (a + 1)..(n + 1)
          BY <3>2
        <4>4. {j.stack[b].id : b \in (a + 1)..n} \cup {d}
                \subseteq {k.stack[b].id : b \in (a + 1)..(n + 1)}
          BY <4>2, <4>3
        <4> QED
          BY <1>3, <1>8, <3>2, <4>1, <4>4
      <3> QED
        BY <1>1, <3>1, <3>2
    <2>3. CycleInv(k)
      BY <1>11, <2>1, <2>2 DEF CycleInv
    <2> QED
      BY <1>7, <1>9, <2>3
  <1> QED
    BY <1>10, <1>11

\* Another object is looked up and is not there: it is left at once.
LEMMA MoveLeaf ==
  ASSUME TypeOK, NEW j, NEW k, PathInv(j), FoundInv(j), CycleInv(j), NEW n \in Nat, n > 0,
         j.id \in Ids, j.visited \subseteq Ids, j.cycle \in BOOLEAN,
         Len(j.stack) = n, Len(k.stack) = n, NEW d \in j.stack[n].rest, d \notin j.visited,
         \A a \in 1..n : k.stack[a].id = j.stack[a].id,
         \A a \in 1..n : k.stack[a].rest = IF a = n THEN j.stack[a].rest \ {d} ELSE j.stack[a].rest,
         Deps(d) = {}, k.id = j.id, k.visited = j.visited \cup {d},
         k.found = IF d = j.id THEN j.found ELSE j.found \cup {d}, k.cycle = j.cycle
  PROVE  PathInv(k) /\ FoundInv(k) /\ CycleInv(k)
  <1>1. OnPath(k) = OnPath(j)
    BY DEF OnPath
  <1>2. Left(k) = Left(j) \cup {d} /\ n \in 1..n
    BY <1>1 DEF Left, FoundInv
  <1>3. d \in Deps(j.stack[n].id) /\ j.stack[n].id \in OnPath(j)
    BY <1>2 DEF PathInv, OnPath
  <1>4. PathInv(k)
    <2>1. \A a \in 1..n : k.stack[a].rest \subseteq j.stack[a].rest
      OBVIOUS
    <2>2. \A a \in 1..n : k.stack[a].rest \subseteq Deps(k.stack[a].id)
      BY <2>1 DEF PathInv
    <2>3. \A a, b \in 1..n : a < b =>
            k.stack[a].id # k.stack[b].id /\ k.stack[b].id \in Reachable(k.stack[a].id)
      BY DEF PathInv
    <2> QED
      BY <2>2, <2>3 DEF PathInv
  <1>5. \A a \in 1..n : Deps(k.stack[a].id) \ k.stack[a].rest
                          \subseteq (Deps(j.stack[a].id) \ j.stack[a].rest) \cup {d}
    OBVIOUS
  <1>6. FoundInv(k)
    <2>1. k.found = k.visited \ {k.id}
      BY DEF FoundInv
    <2>2. \A a \in 1..n : Deps(k.stack[a].id) \ k.stack[a].rest \subseteq k.visited
      BY <1>5 DEF FoundInv
    <2>3. d \in Reachable(j.id)
      BY <1>3, ReachableStep DEF FoundInv
    <2>4. \A e \in Left(k) : Deps(e) \subseteq k.visited
      BY <1>2 DEF FoundInv
    <2> QED
      BY <1>1, <2>1, <2>2, <2>3, <2>4 DEF FoundInv
  <1>7. CASE j.cycle
    BY <1>4, <1>6, <1>7 DEF CycleInv
  <1>8. CASE ~j.cycle
    <2>1. Reachable(d) = {}
      <3>1. {} \in SUBSET Ids /\ Deps(d) \subseteq {} /\ \A e \in {} : Deps(e) \subseteq {}
        OBVIOUS
      <3> QED
        BY <3>1, ReachableInClosed
    <2>2. \A e \in Left(k) : Deps(e) \subseteq Left(k) /\ e \notin Reachable(e)
      BY <1>2, <1>8, <2>1 DEF CycleInv
    <2>3. ASSUME NEW a \in 1..n
          PROVE  Deps(k.stack[a].id) \ k.stack[a].rest
                   \subseteq Left(k) \cup {k.stack[b].id : b \in (a + 1)..n}
      <3>1. {k.stack[b].id : b \in (a + 1)..n} = {j.stack[b].id : b \in (a + 1)..n}
        OBVIOUS
      <3>2. Deps(j.stack[a].id) \ j.stack[a].rest
              \subseteq Left(j) \cup {j.stack[b].id : b \in (a + 1)..n}
        BY <1>8 DEF CycleInv
      <3> QED
        BY <1>2, <1>5, <3>1, <3>2
    <2>4. CycleInv(k)
      BY <1>8, <2>2, <2>3 DEF CycleInv
    <2> QED
      BY <1>4, <1>6, <2>4
  <1> QED
    BY <1>7, <1>8

\* The fields after d has been looked up.
LEMMA EnteredFields ==
  ASSUME TypeOK, NEW j \in Walk, NEW stack \in Seq(Frame), NEW d \in Ids,
         NEW k, k = Entered(j, stack, d)
  PROVE  /\ k.id = j.id /\ k.found = j.found /\ k.cycle = j.cycle
         /\ k.visited = j.visited \cup {d}
         /\ objects[d] = Absent => k.stack = stack /\ Deps(d) = {}
         /\ objects[d] # Absent =>
              /\ Len(k.stack) = Len(stack) + 1
              /\ \A a \in 1..Len(stack) : k.stack[a] = stack[a]
              /\ k.stack[Len(stack) + 1].id = d /\ k.stack[Len(stack) + 1].rest = Deps(d)
  <1> DEFINE frame == [id |-> d, rest |-> objects[d].deps]
             entered == IF objects[d] = Absent THEN stack ELSE Append(stack, frame)
  <1>1. k = [j EXCEPT !.visited = @ \cup {d}, !.stack = entered]
    BY DEF Entered
  <1>2. frame.id = d /\ frame.rest = objects[d].deps
    OBVIOUS
  <1> HIDE DEF frame, entered
  <1>3. /\ k.id = j.id /\ k.found = j.found /\ k.cycle = j.cycle
        /\ k.visited = j.visited \cup {d} /\ k.stack = entered
    BY <1>1 DEF Walk
  <1>4. CASE objects[d] = Absent
    BY <1>3, <1>4 DEF entered, Deps
  <1>5. CASE objects[d] # Absent
    <2>1. entered = Append(stack, frame)
      BY <1>5 DEF entered
    <2>2. /\ Len(entered) = Len(stack) + 1 /\ entered[Len(stack) + 1] = frame
          /\ \A a \in 1..Len(stack) : entered[a] = stack[a]
      BY <2>1
    <2>3. Deps(d) = objects[d].deps
      BY <1>5 DEF Deps
    <2> QED
      BY <1>2, <1>3, <1>5, <2>2, <2>3
  <1> QED
    BY <1>4, <1>5

\* The object itself is looked up first.
LEMMA MoveRoot ==
  ASSUME TypeOK, NEW j \in Walk, WalkKnows("entering", j), NEW k, k = Entered(j, <<>>, j.id)
  PROVE  PathInv(k) /\ FoundInv(k) /\ CycleInv(k)
  <1> DEFINE r == j.id
  <1>1. r \in Ids /\ j.found = {} /\ j.visited = {} /\ ~j.cycle
    BY DEF Walk, WalkKnows
  <1>2. <<>> \in Seq(Frame) /\ Len(<<>>) = 0
    OBVIOUS
  <1>3. /\ k.id = r /\ k.found = {} /\ ~k.cycle /\ k.visited = {r}
        /\ objects[r] = Absent => k.stack = <<>> /\ Deps(r) = {}
        /\ objects[r] # Absent =>
             /\ Len(k.stack) = 1 /\ k.stack[1].id = r /\ k.stack[1].rest = Deps(r)
    <2> DEFINE s == <<>>
    <2>1. s \in Seq(Frame) /\ k = Entered(j, s, r)
      BY <1>2
    <2>3. Len(s) + 1 = 1
      OBVIOUS
    <2> HIDE DEF s, r
    <2>2. /\ k.id = j.id /\ k.found = j.found /\ k.cycle = j.cycle
          /\ k.visited = j.visited \cup {r}
          /\ objects[r] = Absent => k.stack = s /\ Deps(r) = {}
          /\ objects[r] # Absent =>
               /\ Len(k.stack) = Len(s) + 1
               /\ k.stack[Len(s) + 1].id = r /\ k.stack[Len(s) + 1].rest = Deps(r)
      BY <1>1, <2>1, EnteredFields DEF r
    <2> QED
      BY <1>1, <2>2, <2>3 DEF s, r
  <1>4. CASE objects[r] = Absent
    <2>1. Len(k.stack) = 0 /\ 1..0 = {}
      BY <1>3, <1>4
    <2>2. OnPath(k) = {} /\ Left(k) = {r}
      BY <1>3, <2>1 DEF OnPath, Left
    <2>3. Reachable(r) = {}
      <3>1. {} \in SUBSET Ids /\ Deps(r) \subseteq {} /\ \A e \in {} : Deps(e) \subseteq {}
        BY <1>3, <1>4
      <3> QED
        BY <3>1, ReachableInClosed
    <2>4. PathInv(k)
      BY <2>1 DEF PathInv
    <2>5. FoundInv(k)
      BY <1>3, <1>4, <2>1, <2>2 DEF FoundInv
    <2>6. CycleInv(k)
      BY <1>3, <1>4, <2>1, <2>2, <2>3 DEF CycleInv
    <2> QED
      BY <2>4, <2>5, <2>6
  <1>5. CASE objects[r] # Absent
    <2>1. Len(k.stack) = 1 /\ 1..1 = {1}
      BY <1>3, <1>5
    <2>2. OnPath(k) = {r} /\ Left(k) = {}
      BY <1>3, <1>5, <2>1 DEF OnPath, Left
    <2>3. Deps(k.stack[1].id) \ k.stack[1].rest = {}
      BY <1>3, <1>5
    <2>4. PathInv(k)
      BY <1>3, <1>5, <2>1 DEF PathInv
    <2>5. FoundInv(k)
      BY <1>3, <2>1, <2>2, <2>3 DEF FoundInv
    <2>6. CycleInv(k)
      BY <1>3, <2>1, <2>2, <2>3 DEF CycleInv
    <2> QED
      BY <2>4, <2>5, <2>6
  <1> QED
    BY <1>4, <1>5

-----------------------------------------------------------------------------
(* The steps of a walk                                                      *)

LEMMA WalkRootExact ==
  ASSUME IInv, NEW w \in Workers, WalkKnows(phase[w], job[w]), WalkRoot(w)
  PROVE  WalkKnows("walking", job'[w])
  <1>1. phase[w] = "entering" /\ job' = [job EXCEPT ![w] = Entered(job[w], <<>>, job[w].id)]
    BY DEF WalkRoot
  <1>2. job[w] \in Walk /\ job'[w] = Entered(job[w], <<>>, job[w].id)
    BY <1>1 DEF IInv, TypeOK, RegistryTypeOK
  <1>3. PathInv(job'[w]) /\ FoundInv(job'[w]) /\ CycleInv(job'[w])
    BY <1>1, <1>2, MoveRoot DEF IInv
  <1> QED
    BY <1>3 DEF WalkKnows

LEMMA WalkOnExact ==
  ASSUME IInv, NEW w \in Workers, WalkKnows(phase[w], job[w]), WalkOn(w)
  PROVE  WalkKnows("walking", job'[w])
  <1> DEFINE j == job[w]
             n == Len(j.stack)
             rest(d) == [j.stack EXCEPT ![n].rest = @ \ {d}]
             seen(d) == [j EXCEPT !.found = IF d = j.id THEN @ ELSE @ \cup {d}]
             next(d) == IF \E k \in 1..n : j.stack[k].id = d
                          THEN [seen(d) EXCEPT !.cycle = TRUE, !.stack = rest(d)]
                        ELSE IF d \in j.visited
                          THEN [seen(d) EXCEPT !.stack = rest(d)]
                        ELSE Entered(seen(d), rest(d), d)
             k == job'[w]
  <1>1. PICK d \in j.stack[n].rest :
          phase[w] = "walking" /\ n > 0 /\ job' = [job EXCEPT ![w] = next(d)]
    BY DEF WalkOn
  <1>2. j \in Walk /\ k = next(d) /\ PathInv(j) /\ FoundInv(j) /\ CycleInv(j) /\ TypeOK
    BY <1>1 DEF IInv, TypeOK, RegistryTypeOK, WalkKnows
  <1>3. /\ j.stack \in Seq(Frame) /\ j.found \subseteq Ids /\ j.id \in Ids
        /\ j.visited \subseteq Ids /\ j.cycle \in BOOLEAN
    BY <1>2 DEF Walk
  <1>4. n \in 1..n /\ n \in Nat /\ j.stack[n] \in Frame
    BY <1>1, <1>3
  <1>5. d \in Ids
    BY <1>4 DEF Frame
  <1>6. [j.stack[n] EXCEPT !.rest = @ \ {d}] \in Frame
        /\ [j.stack[n] EXCEPT !.rest = @ \ {d}].id = j.stack[n].id
        /\ [j.stack[n] EXCEPT !.rest = @ \ {d}].rest = j.stack[n].rest \ {d}
    BY <1>4 DEF Frame
  <1>7. /\ rest(d) \in Seq(Frame) /\ Len(rest(d)) = n
        /\ \A a \in 1..n : rest(d)[a] = IF a = n THEN [j.stack[n] EXCEPT !.rest = @ \ {d}]
                                       ELSE j.stack[a]
    BY <1>3, <1>4, <1>6
  <1> HIDE DEF rest
  <1>8. /\ \A a \in 1..n : rest(d)[a].id = j.stack[a].id
        /\ \A a \in 1..n : rest(d)[a].rest =
             IF a = n THEN j.stack[a].rest \ {d} ELSE j.stack[a].rest
    BY <1>6, <1>7
  <1>9. /\ seen(d) \in Walk /\ seen(d).id = j.id /\ seen(d).visited = j.visited
        /\ seen(d).cycle = j.cycle /\ seen(d).stack = j.stack
        /\ seen(d).found = IF d = j.id THEN j.found ELSE j.found \cup {d}
    BY <1>2, <1>3, <1>5 DEF Walk
  <1>10. (\E a \in 1..n : j.stack[a].id = d) <=> d \in OnPath(j)
    BY DEF OnPath
  <1>11. OnPath(j) \subseteq j.visited
    BY <1>2 DEF FoundInv
  <1>12. OnPath(j) \subseteq Ids
    BY <1>3, <1>11
  <1>13. /\ d \in OnPath(j) => k = [seen(d) EXCEPT !.cycle = TRUE, !.stack = rest(d)]
         /\ d \notin OnPath(j) /\ d \in j.visited => k = [seen(d) EXCEPT !.stack = rest(d)]
         /\ d \notin j.visited => k = Entered(seen(d), rest(d), d)
    BY <1>2, <1>10, <1>11
  <1> HIDE DEF seen, next, j, k, n
  <1>14. CASE d \in j.visited
    <2>1. /\ k.id = j.id /\ k.visited = j.visited /\ k.stack = rest(d)
          /\ k.found = IF d = j.id THEN j.found ELSE j.found \cup {d}
          /\ k.cycle = IF d \in OnPath(j) THEN TRUE ELSE j.cycle
      <3>1. CASE d \in OnPath(j)
        BY <1>9, <1>13, <3>1 DEF Walk
      <3>2. CASE d \notin OnPath(j)
        BY <1>9, <1>13, <1>14, <3>2 DEF Walk
      <3> QED
        BY <3>1, <3>2
    <2>2. /\ Len(k.stack) = n
          /\ \A a \in 1..n : k.stack[a].id = j.stack[a].id
          /\ \A a \in 1..n : k.stack[a].rest =
               IF a = n THEN j.stack[a].rest \ {d} ELSE j.stack[a].rest
      BY <1>7, <1>8, <2>1
    <2>3. PathInv(k) /\ FoundInv(k) /\ CycleInv(k)
      BY <1>1, <1>2, <1>3, <1>4, <1>12, <1>14, <2>1, <2>2, MoveSeen DEF n
    <2> QED
      BY <2>3 DEF WalkKnows, k
  <1>15. CASE d \notin j.visited /\ objects[d] = Absent
    <2>1. /\ k.id = j.id /\ k.visited = j.visited \cup {d} /\ k.stack = rest(d)
          /\ k.found = IF d = j.id THEN j.found ELSE j.found \cup {d}
          /\ k.cycle = j.cycle /\ Deps(d) = {}
      BY <1>2, <1>5, <1>7, <1>9, <1>13, <1>15, EnteredFields
    <2>2. /\ Len(k.stack) = n
          /\ \A a \in 1..n : k.stack[a].id = j.stack[a].id
          /\ \A a \in 1..n : k.stack[a].rest =
               IF a = n THEN j.stack[a].rest \ {d} ELSE j.stack[a].rest
      BY <1>7, <1>8, <2>1
    <2>3. PathInv(k) /\ FoundInv(k) /\ CycleInv(k)
      <3>1. /\ d \in j.stack[n].rest /\ d \notin j.visited /\ n > 0 /\ Len(j.stack) = n
            /\ PathInv(j) /\ FoundInv(j) /\ CycleInv(j) /\ TypeOK
        BY <1>1, <1>2, <1>15 DEF n
      <3>2. n \in Nat
        BY <1>4
      <3> QED
        BY <1>3, <2>1, <2>2, <3>1, <3>2, MoveLeaf
    <2> QED
      BY <2>3 DEF WalkKnows, k
  <1>16. CASE d \notin j.visited /\ objects[d] # Absent
    <2>1. /\ k.id = j.id /\ k.visited = j.visited \cup {d}
          /\ k.found = IF d = j.id THEN j.found ELSE j.found \cup {d}
          /\ k.cycle = j.cycle /\ Len(k.stack) = n + 1
          /\ \A a \in 1..n : k.stack[a] = rest(d)[a]
          /\ k.stack[n + 1].id = d /\ k.stack[n + 1].rest = Deps(d)
      BY <1>2, <1>5, <1>7, <1>9, <1>13, <1>16, EnteredFields
    <2>2. /\ \A a \in 1..n : k.stack[a].id = j.stack[a].id
          /\ \A a \in 1..n : k.stack[a].rest =
               IF a = n THEN j.stack[a].rest \ {d} ELSE j.stack[a].rest
      BY <1>8, <2>1
    <2>3. PathInv(k) /\ FoundInv(k) /\ CycleInv(k)
      BY <1>1, <1>2, <1>3, <1>4, <1>16, <2>1, <2>2, MovePush DEF n
    <2> QED
      BY <2>3 DEF WalkKnows, k
  <1> QED
    BY <1>14, <1>15, <1>16

LEMMA WalkReturnExact ==
  ASSUME IInv, NEW w \in Workers, WalkKnows(phase[w], job[w]), WalkReturn(w)
  PROVE  WalkKnows("walking", job'[w])
  <1> DEFINE j == job[w]
             n == Len(j.stack)
             s == SubSeq(j.stack, 1, n - 1)
             k == job'[w]
  <1>1. phase[w] = "walking" /\ n > 0 /\ j.stack[n].rest = {} /\ job' = [job EXCEPT ![w].stack = s]
    BY DEF WalkReturn
  <1>2. j \in Walk /\ k = [j EXCEPT !.stack = s] /\ PathInv(j) /\ FoundInv(j) /\ CycleInv(j)
    BY <1>1 DEF IInv, TypeOK, RegistryTypeOK, WalkKnows
  <1>3. j.stack \in Seq(Frame) /\ j.visited \subseteq Ids /\ j.cycle \in BOOLEAN /\ n \in Nat
    BY <1>2 DEF Walk
  <1>4. Len(s) = n - 1 /\ \A a \in 1..(n - 1) : s[a] = j.stack[a]
    BY <1>1, <1>3
  <1> HIDE DEF s
  <1>5. k.id = j.id /\ k.visited = j.visited /\ k.found = j.found /\ k.cycle = j.cycle
        /\ k.stack = s
    BY <1>2 DEF Walk
  <1> HIDE DEF j, k, n
  <1>6. PathInv(k) /\ FoundInv(k) /\ CycleInv(k)
    BY <1>1, <1>2, <1>3, <1>4, <1>5, MoveReturn DEF IInv, n
  <1> QED
    BY <1>6 DEF WalkKnows, k

\* What a walk knows, it knows as long as the objects stay as they are.
LEMMA SameObjects ==
  ASSUME UNCHANGED objects, NEW p, NEW j, WalkKnows(p, j)
  PROVE  WalkKnows(p, j)'
  <1>1. \A k : Deps(k)' = Deps(k)
    BY DEF Deps
  <1>2. \A i : Reachable(i)' = Reachable(i)
    BY DEF Reachable
  <1>3. OnPath(j)' = OnPath(j) /\ Left(j)' = Left(j)
    BY DEF OnPath, Left
  <1>4. PathInv(j)' <=> PathInv(j)
    BY <1>1, <1>2 DEF PathInv
  <1>5. FoundInv(j)' <=> FoundInv(j)
    BY <1>1, <1>2, <1>3 DEF FoundInv
  <1>6. CycleInv(j)' <=> CycleInv(j)
    BY <1>1, <1>2, <1>3 DEF CycleInv
  <1> QED
    BY <1>4, <1>5, <1>6 DEF WalkKnows

\* A step of w that puts nothing.
LEMMA QuietStep ==
  ASSUME WalkInv, NEW w \in Workers, OthersStay(w), UNCHANGED objects,
         changed' \in {changed, changed \ {w}},
         w \notin changed' => WalkKnows(phase'[w], job'[w])
  PROVE  WalkInv'
  <1> SUFFICES ASSUME NEW v \in Workers, v \notin changed'
               PROVE  WalkKnows(phase[v], job[v])'
    BY DEF WalkInv
  <1>1. WalkKnows(phase'[v], job'[v])
    BY DEF WalkInv, OthersStay
  <1> QED
    BY <1>1, SameObjects

\* A step of w after which it is not walking.
LEMMA NotWalking ==
  ASSUME WalkInv, NEW w \in Workers, OthersStay(w), UNCHANGED objects,
         changed' \in {changed, changed \ {w}}, phase'[w] \notin {"entering", "walking"}
  PROVE  WalkInv'
  BY QuietStep DEF WalkKnows

\* Whoever puts an object tells all who are walking.
LEMMA PutTells ==
  ASSUME IInv, WalkInv, NEW w \in Workers, NEW i, NEW x, Put(w, i, x)
  PROVE  WalkInv'
  <1>1. OthersStay(w) /\ phase'[w] = "idle"
    BY MoveFact DEF Put, Finish
  <1>2. \A v \in Workers : phase[v] \in {"entering", "walking"} => v \in changed'
    BY DEF Put
  <1>3. \A v \in Workers \ changed' : phase'[v] \notin {"entering", "walking"}
    BY <1>1, <1>2 DEF OthersStay
  <1> QED
    BY <1>3 DEF WalkInv, WalkKnows

LEMMA RequestWalk ==
  ASSUME IInv, WalkInv, NEW w \in Workers, RegistryRequest(w)
  PROVE  WalkInv'
  <1> PICK i \in Ids :
        \/ \E deps \in SUBSET Ids, detail \in Details : RegisterBegin(w, i, deps, detail)
        \/ \E deps \in {Keep} \cup SUBSET Ids, detail \in Details \cup {Keep} :
             UpdateBegin(w, i, deps, detail)
        \/ DeleteBegin(w, i) \/ WalkBegin(w, i)
    BY DEF RegistryRequest
  <1>1. ASSUME NEW deps, NEW detail, RegisterBegin(w, i, deps, detail) PROVE WalkInv'
    <2>1. OthersStay(w) /\ phase'[w] \in {"checked", "checking"} /\ UNCHANGED <<objects, changed>>
      BY <1>1, MoveFact DEF RegisterBegin, Start
    <2> QED
      BY <2>1, NotWalking
  <1>2. ASSUME NEW deps, NEW detail, UpdateBegin(w, i, deps, detail) PROVE WalkInv'
    <2>1. OthersStay(w) /\ phase'[w] \in {"checked", "checking"} /\ UNCHANGED <<objects, changed>>
      BY <1>2, MoveFact DEF UpdateBegin, Start
    <2> QED
      BY <2>1, NotWalking
  <1>3. CASE DeleteBegin(w, i)
    <2>1. OthersStay(w) /\ phase'[w] = "deleting" /\ UNCHANGED <<objects, changed>>
      BY <1>3, MoveFact DEF DeleteBegin, Start
    <2> QED
      BY <2>1, NotWalking
  <1>4. CASE WalkBegin(w, i)
    <2> DEFINE j == [id |-> i, found |-> {}, visited |-> {}, cycle |-> FALSE, stack |-> <<>>]
    <2>1. /\ OthersStay(w) /\ phase'[w] = "entering" /\ job'[w] = j
          /\ UNCHANGED <<objects, changed>>
      BY <1>4, MoveFact DEF WalkBegin, Start
    <2>2. j.found = {} /\ j.visited = {} /\ j.stack = <<>> /\ ~j.cycle
      OBVIOUS
    <2> HIDE DEF j
    <2>3. WalkKnows(phase'[w], job'[w])
      BY <2>1, <2>2 DEF WalkKnows
    <2> QED
      BY <2>1, <2>3, QuietStep
  <1> QED
    BY <1>1, <1>2, <1>3, <1>4

LEMMA StepWalk ==
  ASSUME IInv, WalkInv, NEW w \in Workers, RegistryStep(w)
  PROVE  WalkInv'
  <1>1. CASE CheckDependency(w)
    <2>1. PICK d \in job[w].todo :
            /\ job' = [job EXCEPT ![w].todo = @ \ {d}]
            /\ phase' = [phase EXCEPT ![w] = IF job[w].todo = {d} THEN "checked" ELSE "checking"]
      BY <1>1 DEF CheckDependency
    <2>2. OthersStay(w) /\ phase'[w] \in {"checked", "checking"}
      BY <2>1 DEF OthersStay, IInv, TypeOK, RegistryTypeOK
    <2> QED
      BY <1>1, <2>2, NotWalking DEF CheckDependency
  <1>2. CASE DependencyMissing(w) \/ DeleteFails(w) \/ WalkEnd(w)
    <2>1. OthersStay(w) /\ phase'[w] = "idle"
      BY <1>2, MoveFact DEF DependencyMissing, DeleteFails, WalkEnd, Finish
    <2> QED
      BY <1>2, <2>1, NotWalking DEF DependencyMissing, DeleteFails, WalkEnd
  <1>3. CASE WalkRoot(w) \/ WalkOn(w) \/ WalkReturn(w)
    <2>1. OthersStay(w) /\ phase'[w] = "walking" /\ UNCHANGED <<objects, changed>>
      BY <1>3 DEF WalkRoot, WalkOn, WalkReturn, OthersStay, IInv, TypeOK, RegistryTypeOK
    <2>2. ASSUME w \notin changed PROVE WalkKnows("walking", job'[w])
      BY <1>3, <2>2, WalkRootExact, WalkOnExact, WalkReturnExact DEF WalkInv
    <2> QED
      BY <2>1, <2>2, QuietStep
  <1>4. CASE SaveObject(w) \/ DeleteEnd(w)
    BY <1>4, PutTells DEF SaveObject, DeleteEnd
  <1> QED
    BY <1>1, <1>2, <1>3, <1>4 DEF RegistryStep

LEMMA ConvergenceWalk ==
  ASSUME IInv, WalkInv, NEW w \in Workers, ConvergenceRequest(w) \/ ConvergenceStep(w)
  PROVE  WalkInv'
  <1>1. OthersStay(w) /\ phase'[w] \notin {"entering", "walking"}
    <2>1. CASE ConvergenceRequest(w)
      <3>1. PICK next \in {"patching", "counting"} : \E j : Start(w, next, j)
        BY <2>1 DEF ConvergenceRequest, UpsertBegin, SnapshotBegin
      <3> QED
        BY <3>1, MoveFact DEF Start
    <2>2. CASE UpsertCopy(w) \/ SnapshotObject(w)
      BY <2>2 DEF UpsertCopy, SnapshotObject, OthersStay, IInv, TypeOK, RegistryTypeOK
    <2>3. CASE UpsertSave(w) \/ SnapshotEnd(w) \/ SnapshotFails(w)
      BY <2>3, MoveFact DEF UpsertSave, SnapshotEnd, SnapshotFails, Finish
    <2> QED
      BY <2>1, <2>2, <2>3 DEF ConvergenceStep
  <1>2. UNCHANGED objects /\ changed' \in {changed, changed \ {w}}
    BY DEF ConvergenceRequest, ConvergenceStep, UpsertBegin, UpsertCopy, UpsertSave,
       SnapshotBegin, SnapshotObject, SnapshotEnd, SnapshotFails, registryRest
  <1> QED
    BY <1>1, <1>2, NotWalking

LEMMA NextWalk == IInv /\ WalkInv /\ [Next]_vars => WalkInv'
  <1> SUFFICES ASSUME IInv, WalkInv, [Next]_vars PROVE WalkInv'
    OBVIOUS
  <1>1. CASE UNCHANGED vars
    <2>1. UNCHANGED <<objects, phase, job, changed>>
      BY <1>1 DEF vars, registryVars
    <2> SUFFICES ASSUME NEW v \in Workers \ changed PROVE WalkKnows(phase[v], job[v])'
      BY <2>1 DEF WalkInv
    <2> QED
      BY <2>1, SameObjects DEF WalkInv
  <1> QED
    BY <1>1, RequestWalk, StepWalk, ConvergenceWalk DEF Next

LEMMA SpecWalk == Spec => []WalkInv
  <1>1. Init => WalkInv
    BY DEF Init, RegistryInit, WalkInv, WalkKnows
  <1> QED
    BY <1>1, SpecIInv, NextWalk, PTL DEF Spec

\* A walk during which no object changed answers with exactly what its object
\* depends on, directly or not, and reports a cycle exactly if one of these, or
\* the object, leads back to itself: in whatever order the dependencies are
\* looked up, and although what has been visited is not looked up again.
THEOREM WalksAreExact == Spec => []WalkIsExact
  <1>1. ASSUME IInv, WalkInv, NEW w \in Workers \ changed, phase[w] = "walking",
               job[w].stack = <<>>
        PROVE  /\ job[w].found = Reachable(job[w].id) \ {job[w].id}
               /\ job[w].cycle <=>
                    \E d \in Reachable(job[w].id) \cup {job[w].id} : d \in Reachable(d)
    <2> DEFINE j == job[w]
    <2>1. j \in Walk /\ FoundInv(j) /\ CycleInv(j)
      BY <1>1 DEF IInv, TypeOK, RegistryTypeOK, WalkInv, WalkKnows
    <2>2. j.visited \in SUBSET Ids /\ j.cycle \in BOOLEAN
      BY <2>1 DEF Walk
    <2>3. OnPath(j) = {} /\ Left(j) = j.visited
      BY <1>1 DEF OnPath, Left
    <2> HIDE DEF j
    <2>4. Deps(j.id) \subseteq j.visited /\ \A k \in j.visited : Deps(k) \subseteq j.visited
      BY <2>1, <2>3 DEF FoundInv
    <2>5. Reachable(j.id) \subseteq j.visited
      BY <2>2, <2>4, ReachableInClosed
    <2>6. j.visited = Reachable(j.id) \cup {j.id}
      BY <2>1, <2>5 DEF FoundInv
    <2>7. j.found = Reachable(j.id) \ {j.id}
      BY <2>1, <2>6 DEF FoundInv
    <2>8. j.cycle <=> \E d \in j.visited : d \in Reachable(d)
      BY <2>1, <2>2, <2>3 DEF CycleInv
    <2> QED
      BY <2>6, <2>7, <2>8 DEF j
  <1>2. IInv /\ WalkInv => WalkIsExact
    BY <1>1 DEF WalkIsExact
  <1> QED
    BY <1>2, SpecIInv, SpecWalk, PTL

-----------------------------------------------------------------------------
(* Walks end, whatever is saved under them.                                 *)

\* k is closer to the end of a walk than j: more ids are visited, or else
\* the path is shorter, or the object at its end has fewer dependencies left.
\* As there are finitely many ids, a walk cannot come closer for ever.
Closer(k, j) ==
  \/ j.visited \subseteq k.visited /\ k.visited # j.visited
  \/ k.visited = j.visited /\ Len(k.stack) < Len(j.stack)
  \/ LET n == Len(j.stack) IN
     /\ k.visited = j.visited /\ Len(k.stack) = n /\ n > 0
     /\ k.stack[n].rest \subseteq j.stack[n].rest /\ k.stack[n].rest # j.stack[n].rest

LEMMA WalkOnCloser ==
  ASSUME IInv, NEW w \in Workers, WalkOn(w)
  PROVE  Closer(job'[w], job[w])
  <1> DEFINE j == job[w]
             n == Len(j.stack)
             rest(d) == [j.stack EXCEPT ![n].rest = @ \ {d}]
             seen(d) == [j EXCEPT !.found = IF d = j.id THEN @ ELSE @ \cup {d}]
             next(d) == IF \E k \in 1..n : j.stack[k].id = d
                          THEN [seen(d) EXCEPT !.cycle = TRUE, !.stack = rest(d)]
                        ELSE IF d \in j.visited
                          THEN [seen(d) EXCEPT !.stack = rest(d)]
                        ELSE Entered(seen(d), rest(d), d)
             k == job'[w]
  <1>1. PICK d \in j.stack[n].rest :
          phase[w] = "walking" /\ n > 0 /\ job' = [job EXCEPT ![w] = next(d)]
    BY DEF WalkOn
  <1>2. j \in Walk /\ k = next(d) /\ TypeOK
    BY <1>1 DEF IInv, TypeOK, RegistryTypeOK
  <1>3. j.stack \in Seq(Frame) /\ n \in Nat
    BY <1>2 DEF Walk
  <1>4. n \in 1..n /\ j.stack[n] \in Frame
    BY <1>1, <1>3
  <1>5. [j.stack[n] EXCEPT !.rest = @ \ {d}].rest = j.stack[n].rest \ {d}
    BY <1>4 DEF Frame
  <1>6. Len(rest(d)) = n /\ rest(d)[n].rest = j.stack[n].rest \ {d}
    BY <1>3, <1>4, <1>5
  <1> HIDE DEF rest
  <1>7. seen(d).visited = j.visited /\ DOMAIN seen(d) = DOMAIN j
    BY <1>2 DEF Walk
  <1>8. CASE k = [seen(d) EXCEPT !.cycle = TRUE, !.stack = rest(d)]
             \/ k = [seen(d) EXCEPT !.stack = rest(d)]
    <2>1. k.visited = j.visited /\ k.stack = rest(d)
      BY <1>2, <1>7, <1>8 DEF Walk
    <2> HIDE DEF j, k, n
    <2> QED
      BY <1>1, <1>6, <2>1 DEF Closer, j, k, n
  <1>9. CASE d \notin j.visited /\ k = Entered(seen(d), rest(d), d)
    <2>1. k.visited = j.visited \cup {d}
      BY <1>7, <1>9 DEF Entered, Walk
    <2> HIDE DEF j, k, n
    <2> QED
      BY <1>9, <2>1 DEF Closer, j, k
  <1> QED
    BY <1>2, <1>8, <1>9

LEMMA WalkReturnCloser ==
  ASSUME IInv, NEW w \in Workers, WalkReturn(w)
  PROVE  Closer(job'[w], job[w])
  <1> DEFINE j == job[w]
             n == Len(j.stack)
             s == SubSeq(j.stack, 1, n - 1)
  <1>1. phase[w] = "walking" /\ n > 0 /\ job' = [job EXCEPT ![w].stack = s]
    BY DEF WalkReturn
  <1>2. j \in Walk /\ job'[w] = [j EXCEPT !.stack = s]
    BY <1>1 DEF IInv, TypeOK, RegistryTypeOK
  <1>3. j.stack \in Seq(Frame) /\ n \in Nat
    BY <1>2 DEF Walk
  <1>4. Len(s) < n
    BY <1>1, <1>3
  <1> HIDE DEF s
  <1>5. job'[w].visited = j.visited /\ job'[w].stack = s
    BY <1>2 DEF Walk
  <1> QED
    BY <1>4, <1>5 DEF Closer

\* Every step of a walk brings it closer to its end, and no step of another
\* handler takes it back: visited and the path are the walk's own, so that
\* transitive_dependencies() returns on every graph, cyclic or changing.
WalksComeCloser ==
  [][\A w \in Workers : phase[w] = "walking" /\ phase'[w] = "walking" =>
       job'[w] = job[w] \/ Closer(job'[w], job[w])]_vars

THEOREM WalksEnd == Spec => WalksComeCloser
  <1>1. ASSUME IInv, ObjectInv, Next, NEW w \in Workers,
               phase[w] = "walking", phase'[w] = "walking"
        PROVE  job'[w] = job[w] \/ Closer(job'[w], job[w])
    <2>1. PICK v \in Workers :
            \/ RegistryRequest(v) \/ RegistryStep(v)
            \/ ConvergenceRequest(v) \/ ConvergenceStep(v)
      BY <1>1 DEF Next
    <2>2. OthersStay(v)
      BY <1>1, <2>1, RegistryMoves, ConvergenceObjects
    <2>3. CASE v # w
      BY <2>2, <2>3 DEF OthersStay
    <2>4. CASE v = w
      <3>1. ~RegistryRequest(w) /\ ~ConvergenceRequest(w)
        BY <1>1 DEF RegistryRequest, RegisterBegin, UpdateBegin, DeleteBegin, WalkBegin,
           ConvergenceRequest, UpsertBegin, SnapshotBegin, Start
      <3>2. ~ConvergenceStep(w)
        BY <1>1 DEF ConvergenceStep, UpsertCopy, UpsertSave, SnapshotObject, SnapshotEnd,
           SnapshotFails
      <3>3. WalkOn(w) \/ WalkReturn(w) \/ WalkEnd(w)
        BY <1>1, <2>1, <2>4, <3>1, <3>2
        DEF RegistryStep, CheckDependency, DependencyMissing, SaveObject, DeleteEnd, DeleteFails,
            WalkRoot
      <3>4. ~WalkEnd(w)
        BY <1>1 DEF WalkEnd, Finish, IInv, TypeOK
      <3> QED
        BY <1>1, <3>3, <3>4, WalkOnCloser, WalkReturnCloser
    <2> QED
      BY <2>3, <2>4
  <1>2. IInv /\ ObjectInv /\ [Next]_vars =>
          [\A w \in Workers : phase[w] = "walking" /\ phase'[w] = "walking" =>
             job'[w] = job[w] \/ Closer(job'[w], job[w])]_vars
    BY <1>1
  <1> QED
    BY <1>2, SpecIInv, SpecExact, PTL DEF Spec, WalksComeCloser
=============================================================================
