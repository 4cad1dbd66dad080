-------------------------- MODULE KnowledgeLineage --------------------------
(***************************************************************************)
(* services/knowledge_object_service.py behind the routes                   *)
(* /packages/{id}/knowledge-object and /packages/{id}/lineage of main.py.   *)
(*                                                                          *)
(* A knowledge object is stored twice: under its own id, and under the key  *)
(* by-package-<package>, the only one that is read again.  Registering an   *)
(* object under a parent adds the package to the parent's object, so that   *)
(* one request saves up to four files:                                      *)
(*                                                                          *)
(*    parent's object under its id,  under its package,                     *)
(*    the new object under its id,   under its package                      *)
(*                                                                          *)
(* Each save truncates and then writes.  Nothing is locked and the process  *)
(* may crash between any two of these steps.  A lineage request reads one   *)
(* file after the other while they change.                                  *)
(*                                                                          *)
(* under, soloAdopted, raced and cut are history variables.                 *)
(***************************************************************************)
EXTENDS ArtifactStore, FiniteSets, SequencesExt

CONSTANTS
  Workers,    \* threads of the pool
  Packages,   \* package ids; also the keys by-package-<package>
  Unknown,    \* those of them that the registry has no record of
  OldSchema,  \* those whose schema_version has another major number
  Parents,    \* packages that requests name as parents
  TextLens,   \* lengths of an object's text without its children
  NoParent,   \* parent_package is not given
  NoJob,      \* an idle worker's job
  MaxObjects, \* bound: objects built
  MaxCrashes  \* bound: crashes

ASSUME WorkersAssumption == IsFiniteSet(Workers)
ASSUME PackagesAssumption ==
  Packages \cap Nat = {} /\ NoParent \notin Packages /\ Parents \subseteq Packages
ASSUME TextLensAssumption == TextLens \subseteq Nat
ASSUME BoundsAssumption == MaxObjects \in Nat /\ MaxCrashes \in Nat

ObjectIds == 1..MaxObjects
Keys == ObjectIds \cup Packages

KnowledgeObject ==
  [id : ObjectIds, pkg : Packages, parent : Packages \cup {NoParent},
   children : SUBSET Packages, size : Nat]

\* What a handler has left to save, and how far it has climbed.
Save == [key : Keys, rec : KnowledgeObject]
SaveJob == [saves : Seq(Save) \ {<<>>}, solo : BOOLEAN]
Walk == [pkg : Packages, parent : Packages \cup {NoParent}, ancestors : Seq(Packages),
         calm : BOOLEAN]

ASSUME SentinelAssumption == NotAText \cap KnowledgeObject = {}

VARIABLES
  files,       \* key -> file of knowledge_object_store
  phase,       \* worker -> how far its handler has come
  job,         \* worker -> what its handler holds in local variables
  answer,      \* status of the last answer; "none" once work has begun again
  nextObject,  \* id of the next object
  crashes,     \* crashes so far
  under,       \* object id -> id of the parent's object its registration found
  soloAdopted, \* object id -> children added by handlers that overlapped no
               \* other handler about to save the same package's object
  raced,       \* packages whose object two handlers were about to save at once
  cut          \* packages whose save was interrupted by a crash

storeVars == <<files, nextObject, crashes>>
handlerVars == <<phase, job, answer>>
ghostVars == <<under, soloAdopted, raced, cut>>
vars == <<storeVars, handlerVars, ghostVars>>

Init ==
  /\ files = [k \in Keys |-> NoFile]
  /\ phase = [w \in Workers |-> "idle"]
  /\ job = [w \in Workers |-> NoJob]
  /\ answer = "none"
  /\ nextObject = 1
  /\ crashes = 0
  /\ under = [o \in ObjectIds |-> 0]
  /\ soloAdopted = [o \in ObjectIds |-> {}]
  /\ raced = {}
  /\ cut = {}

AnswerNow(status) ==
  /\ answer' = status
  /\ UNCHANGED <<storeVars, phase, job, ghostVars>>

-----------------------------------------------------------------------------
(* register_object()                                                        *)

Saving(w) == phase[w] \in {"saving", "opened"}

\* The packages whose objects are saved.
Targets(saves) == {saves[i].rec.pkg : i \in DOMAIN saves}

SaversOf(p) == {w \in Workers : Saving(w) /\ p \in Targets(job[w].saves)}

Busy(p) == SaversOf(p) # {}

\* Mutant: the key that is read again is written first.
SavesOfIndexFirst(object) ==
  <<[key |-> object.pkg, rec |-> object], [key |-> object.id, rec |-> object]>>

\* _save(): under the object's own id, then under its package.
SavesOf(object) ==
  <<[key |-> object.id, rec |-> object], [key |-> object.pkg, rec |-> object]>>

\* Mutant: the parent's object is made anew instead of extended.
WithChildOnly(object, p) == [object EXCEPT !.children = {p}, !.size = @ + 1]

\* parent_object.child_packages.append(package_id).
WithChild(object, p) == [object EXCEPT !.children = @ \cup {p}, !.size = @ + 1]

\* Mutant: the new object is saved before its parent's.
AllSavesChildFirst(parent, own) ==
  SavesOf(own) \o (IF parent # Absent /\ own.pkg \notin parent.children
                     THEN SavesOf(WithChild(parent, own.pkg)) ELSE <<>>)

\* What registering object own saves, given the parent's object, if any.
AllSaves(parent, own) ==
  (IF parent # Absent /\ own.pkg \notin parent.children
     THEN SavesOf(WithChild(parent, own.pkg)) ELSE <<>>) \o SavesOf(own)

\* _validate_version_compatibility(): the major numbers are equal.
Compatible(p, q) == p \in OldSchema <=> q \in OldSchema

\* parent_package is accepted: none, or one of the registry that has no
\* object yet or an object of a compatible version.
Acceptable(p, q) ==
  q # NoParent =>
    q \notin Unknown /\ (Exists(files[q]) => Parses(files[q]) /\ Compatible(p, q))

\* The parent's object, read by get_by_package().
FoundParent(q) == IF q = NoParent THEN Absent ELSE files[q].text

\* Every save changes what a walk under way may read.
Disturb(jobs) ==
  [v \in Workers |-> IF phase[v] = "walking" THEN [jobs[v] EXCEPT !.calm = FALSE]
                     ELSE jobs[v]]

RegisterBegin(w, p, q) ==
  /\ phase[w] = "idle"
  /\ nextObject <= MaxObjects
  /\ p \notin Unknown
  /\ Acceptable(p, q)
  /\ \E len \in TextLens :
       LET own == [id |-> nextObject, pkg |-> p, parent |-> q, children |-> {}, size |-> len]
           saves == AllSaves(FoundParent(q), own)
           overlapped == {x \in Targets(saves) : Busy(x)}
       IN  /\ phase' = [phase EXCEPT ![w] = "saving"]
           /\ job' = [v \in Workers |->
                        IF v = w THEN [saves |-> saves, solo |-> overlapped = {}]
                        ELSE IF Saving(v) /\ Targets(job[v].saves) \cap Targets(saves) # {}
                          THEN [job[v] EXCEPT !.solo = FALSE]
                        ELSE job[v]]
           /\ raced' = raced \cup overlapped
  /\ nextObject' = nextObject + 1
  /\ under' = [under EXCEPT ![nextObject] =
                 IF FoundParent(q) = Absent THEN 0 ELSE files[q].text.id]
  /\ answer' = "none"
  /\ UNCHANGED <<files, crashes, soloAdopted, cut>>

\* An unknown or incompatible parent (400), or a parent's object that does
\* not parse (500).
RegisterRefused(w, p, q) ==
  /\ phase[w] = "idle"
  /\ p \notin Unknown
  /\ ~Acceptable(p, q)
  /\ AnswerNow(IF q \in Unknown \/ Parses(files[q]) THEN "400" ELSE "500")

\* PackageNotFoundError in registry.get(), whoever called it.
NotFound(w, p) ==
  /\ phase[w] = "idle"
  /\ p \in Unknown
  /\ AnswerNow("404")

\* ArtifactStore.save(), first half.
Open(w) ==
  /\ phase[w] = "saving"
  /\ phase' = [phase EXCEPT ![w] = "opened"]
  /\ files' = [files EXCEPT ![Head(job[w].saves).key] = Truncated]
  /\ job' = Disturb(job)
  /\ answer' = "none"
  /\ UNCHANGED <<nextObject, crashes, ghostVars>>

\* ArtifactStore.save(), second half; after the last save the handler answers.
Flush(w) ==
  LET save == Head(job[w].saves)
      rest == Tail(job[w].saves)
  IN  /\ phase[w] = "opened"
      /\ files' = [files EXCEPT ![save.key] = Written(files[save.key], save.rec)]
      /\ phase' = [phase EXCEPT ![w] = IF rest = <<>> THEN "idle" ELSE "saving"]
      /\ job' = [Disturb(job) EXCEPT ![w] =
                   IF rest = <<>> THEN NoJob ELSE [job[w] EXCEPT !.saves = rest]]
      /\ answer' = IF rest = <<>> THEN "200" ELSE "none"
      /\ soloAdopted' = IF save.key \in Packages /\ job[w].solo
                          THEN [soloAdopted EXCEPT ![save.rec.id] = save.rec.children]
                          ELSE soloAdopted
      /\ UNCHANGED <<nextObject, crashes, under, raced, cut>>

-----------------------------------------------------------------------------
(* lineage()                                                                *)

\* The packages that the walk has visited.
Visited(walk) == {walk.pkg} \cup ToSet(walk.ancestors)

\* The parent named by the object of package q, if there is one.
ParentOf(q) == IF Exists(files[q]) THEN files[q].text.parent ELSE NoParent

\* The walk goes on: the object read last has a parent that was not visited.
GoesOn(walk) == walk.parent \notin {NoParent} \cup Visited(walk)

\* The object of the package itself; the route has found it in the registry.
LineageBegin(w, p) ==
  /\ phase[w] = "idle"
  /\ p \notin Unknown
  /\ Parses(files[p])
  /\ phase' = [phase EXCEPT ![w] = "walking"]
  /\ job' = [job EXCEPT ![w] =
               [pkg |-> p, parent |-> ParentOf(p), ancestors |-> <<>>, calm |-> TRUE]]
  /\ answer' = "none"
  /\ UNCHANGED <<storeVars, ghostVars>>

\* The package has no object, or one that does not parse.
LineageAtOnce(w, p) ==
  /\ phase[w] = "idle"
  /\ p \notin Unknown
  /\ ~Parses(files[p])
  /\ AnswerNow(IF Exists(files[p]) THEN "500" ELSE "200")

\* Mutant: only packages that have an object count as ancestors.
WalkClimbsOverObjects(w) ==
  LET q == job[w].parent IN
  /\ phase[w] = "walking"
  /\ GoesOn(job[w])
  /\ Exists(files[q]) => Parses(files[q])
  /\ job' = [job EXCEPT ![w].parent = ParentOf(q),
                       ![w].ancestors = IF Exists(files[q]) THEN Append(@, q) ELSE @]
  /\ answer' = "none"
  /\ UNCHANGED <<storeVars, phase, ghostVars>>

\* The parent becomes an ancestor, and its object, if there is one, is read.
WalkClimbs(w) ==
  LET q == job[w].parent IN
  /\ phase[w] = "walking"
  /\ GoesOn(job[w])
  /\ Exists(files[q]) => Parses(files[q])
  /\ job' = [job EXCEPT ![w].parent = ParentOf(q), ![w].ancestors = Append(@, q)]
  /\ answer' = "none"
  /\ UNCHANGED <<storeVars, phase, ghostVars>>

\* The end of the walk, or a parent's object that does not parse.
WalkAnswers(w) ==
  LET file == files[job[w].parent] IN
  /\ phase[w] = "walking"
  /\ GoesOn(job[w]) => Exists(file) /\ ~Parses(file)
  /\ phase' = [phase EXCEPT ![w] = "idle"]
  /\ job' = [job EXCEPT ![w] = NoJob]
  /\ answer' = IF GoesOn(job[w]) THEN "500" ELSE "200"
  /\ UNCHANGED <<storeVars, ghostVars>>

-----------------------------------------------------------------------------

\* The process dies and is started again: handlers are gone, files stay.
\* (Without a handler at work, that changes nothing.)
Crash ==
  /\ crashes < MaxCrashes
  /\ \E w \in Workers : Saving(w)
  /\ crashes' = crashes + 1
  /\ phase' = [w \in Workers |-> "idle"]
  /\ job' = [w \in Workers |-> NoJob]
  /\ answer' = "none"
  /\ cut' = cut \cup {p \in Packages : Busy(p)}
  /\ UNCHANGED <<files, nextObject, under, soloAdopted, raced>>

Step(w) == Open(w) \/ Flush(w) \/ WalkClimbs(w) \/ WalkAnswers(w)

Request(w) ==
  \E p \in Packages :
    \/ \E q \in Parents \cup {NoParent} : RegisterBegin(w, p, q) \/ RegisterRefused(w, p, q)
    \/ LineageBegin(w, p) \/ LineageAtOnce(w, p) \/ NotFound(w, p)

Next == (\E w \in Workers : Request(w) \/ Step(w)) \/ Crash

Spec == Init /\ [][Next]_vars

-----------------------------------------------------------------------------
(* Properties                                                               *)

\* The types of the variables.
TypeOK ==
  /\ files \in [Keys -> [text : KnowledgeObject \cup NotAText, extent : Nat]]
  /\ phase \in [Workers -> {"idle", "saving", "opened", "walking"}]
  /\ job = [w \in Workers |-> job[w]]
  /\ \A w \in Workers : /\ Saving(w) => job[w] \in SaveJob
                        /\ phase[w] = "walking" => job[w] \in Walk
  /\ nextObject \in Nat \ {0} /\ crashes \in Nat
  /\ under \in [ObjectIds -> ObjectIds \cup {0}]
  /\ soloAdopted \in [ObjectIds -> SUBSET Packages]
  /\ raced \subseteq Packages /\ cut \subseteq Packages

\* The two copies of an object: unless two handlers were about to save it at
\* once, the copy under the package names an object that is stored under its
\* own id too, and that one knows every child the copy knows, wherever the
\* process has died in between.  Without a crash the two are equal.
KeysAgree ==
  \A p \in Packages \ raced :
    Parses(files[p]) =>
      LET own == files[files[p].text.id] IN
      /\ Exists(own)
      /\ Parses(own) => files[p].text.children \subseteq own.text.children
      /\ p \notin cut /\ ~Busy(p) => own.text = files[p].text

\* A child whose handler overlapped no other save of its parent's object is
\* listed in every readable version of that object ever after, also when
\* later handlers race each other on it or the process dies.
SoloAdoptionsSurvive ==
  \A p \in Packages :
    Parses(files[p]) => soloAdopted[files[p].text.id] \subseteq files[p].text.children

\* Children and parents agree, although they are saved one after the other
\* and a crash may fall in between: an object whose registration found its
\* parent's object is stored only after that object lists it.
ChildIsListed ==
  \A p, q \in Packages :
    /\ Parses(files[p]) /\ Parses(files[q]) /\ q \notin raced
    /\ files[p].text.parent = q
    /\ under[files[p].text.id] = files[q].text.id
    => p \in files[q].text.children

\* s is the line of ancestors of p: parent after parent, nobody twice, up to
\* a package without a stored parent or to one that closes a cycle.
IsLineage(p, s) ==
  LET line == <<p>> \o s
      last == line[Len(line)]
  IN  /\ \A i \in 1..Len(s) : Parses(files[line[i]]) /\ files[line[i]].text.parent = s[i]
      /\ \A i, j \in DOMAIN line : line[i] = line[j] => i = j
      /\ Exists(files[last]) => files[last].text.parent \in {NoParent} \cup ToSet(line)

\* A lineage request during which no object is saved answers exactly the line
\* of ancestors, also over cycles, missing objects and the leavings of crashes.
WalkIsExact ==
  [][\A w \in Workers :
       phase[w] = "walking" /\ job[w].calm /\ phase'[w] = "idle" /\ answer' = "200"
         => IsLineage(job[w].pkg, job[w].ancestors)]_vars

\* A walk never comes back to a package it has visited, whatever parents are
\* registered under its feet, in cycles too: it climbs at most once to every
\* package, and ends.
WalkNeverReturns ==
  \A w \in Workers :
    phase[w] = "walking" =>
      LET line == <<job[w].pkg>> \o job[w].ancestors IN
      \A i, j \in DOMAIN line : line[i] = line[j] => i = j
=============================================================================
