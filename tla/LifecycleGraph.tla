--------------------------- MODULE LifecycleGraph ---------------------------
(***************************************************************************)
(* The lifecycle graph of models.py, the package record and its history,    *)
(* and the two checks PackageRegistryService runs on a stored record:       *)
(* replay() and audit_completeness().  Everything here is constant-level.   *)
(*                                                                          *)
(* A transition keeps the hop it records, whether its actor and reason are  *)
(* non-empty, and its id.  Ids are drawn in the order in which transitions  *)
(* are built, so that an id stands for the timestamp as well.               *)
(***************************************************************************)
EXTENDS Naturals, Sequences, FiniteSets

\* PACKAGE_LIFECYCLE_GRAPH: the statuses a package may move to next.
PACKAGE_LIFECYCLE_GRAPH ==
  [ REGISTERED      |-> {"INGESTED", "DEPRECATED"},
    INGESTED        |-> {"VALIDATED", "DEPRECATED"},
    VALIDATED       |-> {"VERIFIED", "DEPRECATED"},
    VERIFIED        |-> {"CERTIFIED", "DEPRECATED"},
    CERTIFIED       |-> {"RETRIEVAL_READY", "DEPRECATED"},
    RETRIEVAL_READY |-> {"DEPRECATED"},
    DEPRECATED      |-> {"ARCHIVED"},
    ARCHIVED        |-> {} ]

PackageStatus ==
  {"REGISTERED", "INGESTED", "VALIDATED", "VERIFIED", "CERTIFIED",
   "RETRIEVAL_READY", "DEPRECATED", "ARCHIVED"}

\* from_status of the root transition (None in the code).
NoStatus == "NONE"

PackageTransition ==
  [id : Nat, from : PackageStatus \cup {NoStatus}, to : PackageStatus,
   attributed : BOOLEAN]

\* size is the length of the record's JSON text (see ArtifactStore).
KnowledgePackage ==
  [status : PackageStatus, history : Seq(PackageTransition), size : Nat]

Transition(id, from, to, attributed) ==
  [id |-> id, from |-> from, to |-> to, attributed |-> attributed]

CanMove(pkg, to) == to \in PACKAGE_LIFECYCLE_GRAPH[pkg.status]

\* The record register() builds; len is the length of its JSON text.
Registered(id, attributed, len) ==
  [status  |-> "REGISTERED",
   history |-> <<Transition(id, NoStatus, "REGISTERED", attributed)>>,
   size    |-> len]

\* Mutant: promote() records the hop and forgets the status.
PromotedInHistoryOnly(pkg, id, to, attributed, len) ==
  [pkg EXCEPT !.history = Append(@, Transition(id, pkg.status, to, attributed)),
              !.size = @ + len]

\* The record promote() builds from the one it loaded.
Promoted(pkg, id, to, attributed, len) ==
  [status  |-> to,
   history |-> Append(pkg.history, Transition(id, pkg.status, to, attributed)),
   size    |-> pkg.size + len]

\* replay(): every hop of the history is legal and it ends in the stored status.
ReplayConsistent(pkg) ==
  LET h == pkg.history IN
  /\ h # <<>>
  /\ \A i \in 2..Len(h) : h[i].to \in PACKAGE_LIFECYCLE_GRAPH[h[i - 1].to]
  /\ h[Len(h)].to = pkg.status

\* audit_completeness(): one root transition, which comes first, and
\* timestamps that never go back ...
TrailInOrder(pkg) ==
  LET h == pkg.history IN
  /\ h # <<>>
  /\ h[1].from = NoStatus
  /\ \A i \in 2..Len(h) : h[i].from # NoStatus
  /\ \A i \in 2..Len(h) : h[i - 1].id <= h[i].id

\* ... and every transition with an actor and a reason.
Attributed(pkg) == \A i \in 1..Len(pkg.history) : pkg.history[i].attributed

\* "complete" in the report of audit_completeness().
AuditComplete(pkg) == TrailInOrder(pkg) /\ Attributed(pkg)

\* The transitions a record's history holds, and the last of them.
Recorded(pkg) == {pkg.history[i] : i \in 1..Len(pkg.history)}
Newest(pkg) == pkg.history[Len(pkg.history)]
-----------------------------------------------------------------------------
(* What a record ought to be                                                *)

\* A record that replay() and audit_completeness() have nothing to say
\* against, missing actors and reasons aside.
Sound(pkg) == ReplayConsistent(pkg) /\ TrailInOrder(pkg)

\* The gates between registration and retrieval, in their order.
Gates == <<"REGISTERED", "INGESTED", "VALIDATED", "VERIFIED", "CERTIFIED",
           "RETRIEVAL_READY">>

Withdrawn == {"DEPRECATED", "ARCHIVED"}

\* A package at a gate has been at every earlier one, once and in order.
PassedItsGates(pkg) ==
  pkg.status \notin Withdrawn =>
    /\ Len(pkg.history) \in DOMAIN Gates
    /\ \A i \in 1..Len(pkg.history) : pkg.history[i].to = Gates[i]
=============================================================================
