-------------------------- MODULE PackageLifecycle --------------------------
(***************************************************************************)
(* What PackageRegistryService promises its callers: a registry of packages *)
(* on which registration and promotion are atomic.  A promotion appends     *)
(* one transition to the record everybody sees, later than every transition *)
(* already there, and only along an edge of the lifecycle graph.            *)
(*                                                                          *)
(* The promise is to clients that mutate a package one at a time, on a      *)
(* process that does not die half-way through a save: a package may be      *)
(* disturbed at any time, and of a disturbed package this module says       *)
(* nothing more (PackageRegistry does).                                     *)
(***************************************************************************)
EXTENDS LifecycleGraph

CONSTANTS
  Packages,     \* package ids
  TxnIds,       \* transition ids
  TextLens,     \* lengths one transition's text may add to a record
  Attributions, \* whether actor and reason are given: a subset of BOOLEAN
  Unregistered, \* no package under this id
  Disturbed     \* a package of which nothing is promised

VARIABLE registry   \* package id -> KnowledgePackage, Unregistered or Disturbed

LifecycleInit == registry = [p \in Packages |-> Unregistered]

AtomicRegister(p) ==
  /\ registry[p] = Unregistered
  /\ \E id \in TxnIds, attributed \in Attributions, len \in TextLens :
       registry' = [registry EXCEPT ![p] = Registered(id, attributed, len)]

AtomicPromote(p) ==
  /\ registry[p] \notin {Unregistered, Disturbed}
  /\ \E to \in PACKAGE_LIFECYCLE_GRAPH[registry[p].status], id \in TxnIds,
        attributed \in Attributions, len \in TextLens :
       /\ Newest(registry[p]).id < id
       /\ registry' = [registry EXCEPT ![p] =
                         Promoted(registry[p], id, to, attributed, len)]

Disturb ==
  /\ registry' \in [Packages -> {registry'[p] : p \in Packages}]
  /\ \A p \in Packages : registry'[p] \in {registry[p], Disturbed}

LifecycleNext == Disturb \/ (\E p \in Packages : AtomicRegister(p) \/ AtomicPromote(p))

LifecycleSpec == LifecycleInit /\ [][LifecycleNext]_registry
=============================================================================
