---------------------------- MODULE BCAESRegistry ----------------------------
(***************************************************************************)
(* bcaes_registry/store.py and graph.py behind the routes under /bcaes.     *)
(*                                                                          *)
(* Architectural objects are kept in memory, in dictionaries that the       *)
(* threads of the pool share without a lock.  Another thread may run        *)
(* between any two accesses:                                                *)
(*                                                                          *)
(*   register  look every dependency up -> add the object                   *)
(*   update    copy the object -> look the new dependencies up -> replace   *)
(*             the object by the changed copy                               *)
(*   delete    look the object up -> remove it                              *)
(*   walk      look up one object after the other, depth first              *)
(*                                                                          *)
(* An object is its set of dependencies and one detail, which stands for    *)
(* all other fields that a PATCH may name.  Nothing is persisted.           *)
(***************************************************************************)
EXTENDS Integers, Sequences, FiniteSets

CONSTANTS
  Workers,   \* threads of the pool
  Ids,       \* object ids, over all registry types
  Details,   \* values of the other fields
  Absent,    \* no object, no record
  Keep,      \* a field that a PATCH does not name
  NoJob,     \* an idle worker's job
  MaxRequests  \* bound: requests that may change something

ASSUME MaxRequestsAssumption == MaxRequests \in Nat
ASSUME IdsAssumption == IsFiniteSet(Ids)  \* uuids of twelve digits
ASSUME KeepAssumption == Keep \notin Details /\ \A S \in SUBSET Ids : S # Keep

VARIABLES
  objects,   \* id -> object or Absent
  phase,     \* worker -> how far its handler has come
  job,       \* worker -> what its handler holds in local variables
  requests,  \* requests begun that may change something
  deleted,   \* history: ids that were deleted
  promised,  \* history: id -> what mutations one after the other would give
  disturbed, \* history: ids with overlapping mutations
  changed    \* workers under whose loop over objects these have changed

registryVars == <<objects, phase, job, requests, deleted, promised, disturbed, changed>>

-----------------------------------------------------------------------------

Object == [deps : SUBSET Ids, detail : Details]
ASSUME AbsentAssumption == Absent \notin Object

Mutation == [id : Ids, deps : {Keep} \cup SUBSET Ids, detail : Details \cup {Keep},
             base : Object \cup {Absent}, todo : SUBSET Ids]
Frame == [id : Ids, rest : SUBSET Ids]
Walk == [id : Ids, found : SUBSET Ids, visited : SUBSET Ids, cycle : BOOLEAN,
         stack : Seq(Frame)]

Registered == {i \in Ids : objects[i] # Absent}

\* Mutant: what a PATCH does not name is reset.
PatchedAnew(base, deps, detail) ==
  [deps |-> IF deps = Keep THEN {} ELSE deps,
   detail |-> IF detail = Keep THEN base.detail ELSE detail]

\* What a PATCH makes of an object.
Patched(base, deps, detail) ==
  [deps |-> IF deps = Keep THEN base.deps ELSE deps,
   detail |-> IF detail = Keep THEN base.detail ELSE detail]

MutatorsOf(i) ==
  {w \in Workers : phase[w] \in {"checking", "checked", "deleting"} /\ job[w].id = i}

RegistryInit ==
  /\ objects = [i \in Ids |-> Absent]
  /\ phase = [w \in Workers |-> "idle"]
  /\ job = [w \in Workers |-> NoJob]
  /\ requests = 0
  /\ deleted = {}
  /\ promised = [i \in Ids |-> Absent]
  /\ disturbed = {}
  /\ changed = {}

\* The handler of w begins, and holds j.
Start(w, next, j) ==
  /\ phase[w] = "idle"
  /\ phase' = [phase EXCEPT ![w] = next]
  /\ job' = [job EXCEPT ![w] = j]

\* The handler of w ends.
Finish(w) ==
  /\ phase' = [phase EXCEPT ![w] = "idle"]
  /\ job' = [job EXCEPT ![w] = NoJob]

\* The mutation of w ends by putting x under id i.  A loop over a dictionary
\* only takes notice if the dictionary changes its size.
Put(w, i, x) ==
  /\ Finish(w)
  /\ objects' = [objects EXCEPT ![i] = x]
  /\ changed' = changed \cup {v \in Workers :
       \/ phase[v] \in {"entering", "walking"}
       \/ phase[v] = "counting" /\ (objects[i] = Absent) # (x = Absent)}

CountRequest == requests < MaxRequests /\ requests' = requests + 1

BeginMutation(i) ==
  /\ CountRequest
  /\ disturbed' = IF MutatorsOf(i) # {} THEN disturbed \cup {i} ELSE disturbed

-----------------------------------------------------------------------------
(* register() and update()                                                  *)

\* The id is a new uuid, which no client knows before the answer.
RegisterBegin(w, i, deps, detail) ==
  /\ objects[i] = Absent /\ i \notin deleted
  /\ \A v \in Workers : phase[v] # "idle" => job[v].id # i
  /\ Start(w, IF deps = {} THEN "checked" ELSE "checking",
           [id |-> i, deps |-> deps, detail |-> detail, base |-> Absent, todo |-> deps])
  /\ BeginMutation(i)
  /\ UNCHANGED <<objects, deleted, promised, changed>>

UpdateBegin(w, i, deps, detail) ==
  /\ objects[i] # Absent
  /\ Start(w, IF deps \in {Keep, {}} THEN "checked" ELSE "checking",
           [id |-> i, deps |-> deps, detail |-> detail, base |-> objects[i],
            todo |-> IF deps = Keep THEN {} ELSE deps])
  /\ BeginMutation(i)
  /\ UNCHANGED <<objects, deleted, promised, changed>>

\* Mutant: one dependency that is there vouches for all.
CheckOneDependency(w) ==
  /\ phase[w] = "checking"
  /\ \E d \in job[w].todo :
       /\ objects[d] # Absent
       /\ job' = [job EXCEPT ![w].todo = {}]
       /\ phase' = [phase EXCEPT ![w] = "checked"]
  /\ UNCHANGED <<objects, requests, deleted, promised, disturbed, changed>>

\* The next dependency, in any order, is there.
CheckDependency(w) ==
  /\ phase[w] = "checking"
  /\ \E d \in job[w].todo :
       /\ objects[d] # Absent
       /\ job' = [job EXCEPT ![w].todo = @ \ {d}]
       /\ phase' = [phase EXCEPT ![w] = IF job[w].todo = {d} THEN "checked" ELSE "checking"]
  /\ UNCHANGED <<objects, requests, deleted, promised, disturbed, changed>>

\* DependencyNotFoundError: 400, and nothing has changed.
DependencyMissing(w) ==
  /\ phase[w] = "checking"
  /\ \E d \in job[w].todo : objects[d] = Absent
  /\ Finish(w)
  /\ UNCHANGED <<objects, requests, deleted, promised, disturbed, changed>>

\* The changed copy takes the place of whatever is there by now.
SaveObject(w) ==
  LET j == job[w] IN
  /\ phase[w] = "checked"
  /\ Put(w, j.id, Patched(j.base, j.deps, j.detail))
  /\ promised' = [promised EXCEPT ![j.id] =
       IF j.base = Absent \/ @ # Absent
         THEN [deps |-> IF j.deps = Keep THEN @.deps ELSE j.deps,
               detail |-> IF j.detail = Keep THEN @.detail ELSE j.detail]
       ELSE @]
  /\ UNCHANGED <<requests, deleted, disturbed>>

-----------------------------------------------------------------------------
(* delete()                                                                 *)

DeleteBegin(w, i) ==
  /\ objects[i] # Absent
  /\ Start(w, "deleting", [id |-> i])
  /\ BeginMutation(i)
  /\ UNCHANGED <<objects, deleted, promised, changed>>

\* Consumers are not asked.
DeleteEnd(w) ==
  LET i == job[w].id IN
  /\ phase[w] = "deleting"
  /\ objects[i] # Absent
  /\ Put(w, i, Absent)
  /\ deleted' = deleted \cup {i}
  /\ promised' = [promised EXCEPT ![i] = Absent]
  /\ UNCHANGED <<requests, disturbed>>

\* Another handler has removed the object since: KeyError, 500.
DeleteFails(w) ==
  /\ phase[w] = "deleting"
  /\ objects[job[w].id] = Absent
  /\ Finish(w)
  /\ UNCHANGED <<objects, requests, deleted, promised, disturbed, changed>>

-----------------------------------------------------------------------------
(* transitive_dependencies()                                                *)

\* walk() has been called for d, neither on the path nor visited before, and
\* looks it up.
Entered(j, stack, d) ==
  [j EXCEPT !.visited = @ \cup {d},
            !.stack = IF objects[d] = Absent THEN stack
                      ELSE Append(stack, [id |-> d, rest |-> objects[d].deps])]

\* The object is there, or else 404.
WalkBegin(w, i) ==
  /\ objects[i] # Absent
  /\ Start(w, "entering",
           [id |-> i, found |-> {}, visited |-> {}, cycle |-> FALSE, stack |-> <<>>])
  /\ UNCHANGED <<objects, requests, deleted, promised, disturbed, changed>>

WalkRoot(w) ==
  /\ phase[w] = "entering"
  /\ job' = [job EXCEPT ![w] = Entered(job[w], <<>>, job[w].id)]
  /\ phase' = [phase EXCEPT ![w] = "walking"]
  /\ UNCHANGED <<objects, requests, deleted, promised, disturbed, changed>>

\* Mutant: an object that has been visited is left before the path is searched.
WalkOnSwapped(w) ==
  LET j == job[w]
      n == Len(j.stack)
  IN
  /\ phase[w] = "walking"
  /\ n > 0
  /\ \E d \in j.stack[n].rest :
       LET rest == [j.stack EXCEPT ![n].rest = @ \ {d}]
           seen == [j EXCEPT !.found = IF d = j.id THEN @ ELSE @ \cup {d}]
       IN
       job' = [job EXCEPT ![w] =
         IF d \in j.visited
           THEN [seen EXCEPT !.stack = rest]
         ELSE IF \E k \in 1..n : j.stack[k].id = d
           THEN [seen EXCEPT !.cycle = TRUE, !.stack = rest]
         ELSE Entered(seen, rest, d)]
  /\ UNCHANGED <<objects, phase, requests, deleted, promised, disturbed, changed>>

\* The next dependency of the object on top, in any order: it closes a cycle,
\* or has been visited, or is looked up.
WalkOn(w) ==
  LET j == job[w]
      n == Len(j.stack)
  IN
  /\ phase[w] = "walking"
  /\ n > 0
  /\ \E d \in j.stack[n].rest :
       LET rest == [j.stack EXCEPT ![n].rest = @ \ {d}]
           seen == [j EXCEPT !.found = IF d = j.id THEN @ ELSE @ \cup {d}]
       IN
       job' = [job EXCEPT ![w] =
         IF \E k \in 1..n : j.stack[k].id = d
           THEN [seen EXCEPT !.cycle = TRUE, !.stack = rest]
         ELSE IF d \in j.visited
           THEN [seen EXCEPT !.stack = rest]
         ELSE Entered(seen, rest, d)]
  /\ UNCHANGED <<objects, phase, requests, deleted, promised, disturbed, changed>>

\* All dependencies of the object on top are done, and it leaves the path.
WalkReturn(w) ==
  LET n == Len(job[w].stack) IN
  /\ phase[w] = "walking"
  /\ n > 0
  /\ job[w].stack[n].rest = {}
  /\ job' = [job EXCEPT ![w].stack = SubSeq(@, 1, n - 1)]
  /\ UNCHANGED <<objects, phase, requests, deleted, promised, disturbed, changed>>

WalkEnd(w) ==
  /\ phase[w] = "walking"
  /\ job[w].stack = <<>>
  /\ Finish(w)
  /\ changed' = changed \ {w}
  /\ UNCHANGED <<objects, requests, deleted, promised, disturbed>>

-----------------------------------------------------------------------------

RegistryRequest(w) ==
  \E i \in Ids :
    \/ \E deps \in SUBSET Ids, detail \in Details : RegisterBegin(w, i, deps, detail)
    \/ \E deps \in {Keep} \cup SUBSET Ids, detail \in Details \cup {Keep} :
         UpdateBegin(w, i, deps, detail)
    \/ DeleteBegin(w, i) \/ WalkBegin(w, i)

RegistryStep(w) ==
  \/ CheckDependency(w) \/ DependencyMissing(w) \/ SaveObject(w)
  \/ DeleteEnd(w) \/ DeleteFails(w)
  \/ WalkRoot(w) \/ WalkOn(w) \/ WalkReturn(w) \/ WalkEnd(w)

-----------------------------------------------------------------------------
(* Properties                                                               *)

RegistryTypeOK ==
  /\ objects \in [Ids -> Object \cup {Absent}]
  /\ job = [w \in Workers |-> job[w]]
  /\ \A w \in Workers :
       /\ phase[w] \in {"checking", "checked"} => job[w] \in Mutation
       /\ phase[w] = "deleting" => job[w] \in [id : Ids]
       /\ phase[w] \in {"entering", "walking"} => job[w] \in Walk
  /\ requests \in Nat
  /\ deleted \subseteq Ids
  /\ promised \in [Ids -> Object \cup {Absent}]
  /\ disturbed \subseteq Ids /\ changed \subseteq Workers

\* However handlers race, a dependency that does not resolve is one that was
\* deleted: none was ever declared on an object that had not been registered.
DanglingWasDeleted ==
  \A i \in Registered : \A d \in objects[i].deps : objects[d] = Absent => d \in deleted

\* An object whose mutations never overlapped is what they give one after the
\* other: a PATCH changes what it names and nothing else, and a deletion is
\* final.
UndisturbedIsExact == \A i \in Ids \ disturbed : objects[i] = promised[i]

\* What i depends on, directly or not: what is in every set that holds its
\* dependencies and theirs.
Reachable(i) ==
  LET Deps(k) == IF objects[k] = Absent THEN {} ELSE objects[k].deps
      Closed(S) == Deps(i) \subseteq S /\ \A k \in S : Deps(k) \subseteq S
  IN  {d \in Ids : \A S \in SUBSET Ids : Closed(S) => d \in S}

\* A walk during which no object changed returns what its object depends on,
\* and reports a cycle exactly if one can be reached.
WalkIsExact ==
  \A w \in Workers \ changed :
    phase[w] = "walking" /\ job[w].stack = <<>> =>
      LET below == Reachable(job[w].id) IN
      /\ job[w].found = below \ {job[w].id}
      /\ job[w].cycle <=> \E d \in below \cup {job[w].id} : d \in Reachable(d)
=============================================================================
