# TLA+ models of the MASTERDB ingestion and certification service

The service is a FastAPI application over JSON files. It validates and
certifies datasets, keeps a registry of knowledge packages with a lifecycle,
objects and lineage for them, shared reference records, an in-memory BCAES
registry and a repository of canonical documents. This directory models it in
TLA+, checks the models with TLC and proves the most important theorems with
TLAPS.

Contents: [the system](#the-system), [modules](#modules),
[modelling decisions](#modelling-decisions), [runs](#runs-and-bounds),
[fairness](#fairness), [proofs](#proofs), [findings](#findings),
[the plan](#the-plan), [what is left out](#what-is-not-modelled).

## The system

Every route of `main.py` is a plain `def`. FastAPI runs such handlers on a
pool of threads, and no service takes a lock, so that handlers interleave
between any two accesses to files or to shared dictionaries. The services that
persist anything do so through `services/artifact_store.py`, whose `save` opens
a file for writing, which truncates it, and dumps the JSON into it; there is no
temporary file, no rename and no fsync.

| component | state | operations | interacts with |
|---|---|---|---|
| Artifact store | one JSON file per key | `save`, `load`, `list_all` | every persistent service |
| Package registry | a record per package: status, history of transitions | `register`, `promote`, `deprecate`, `get`, `history`, `replay`, `audit_completeness` | artifact store; read by readiness, discovery, TANTRA |
| Validation rules | none | seven validators, score, risk flags, recommendations, classification | called by validation and certification |
| Validation and certification | a report per dataset id: state, audit trail, reasons, decision | `validate`, `certify`, `get_report`, `get_status` | artifact store; the dataset file, which others own |
| Shared record stores (6) | a versioned record per id, with history | `register`, `update`, `deprecate`, reads, `replay`, dependency resolver | artifact store; the resolver reads two stores |
| Knowledge objects | an object per package, kept under two keys | `register_object`, `get_by_package`, `lineage` | artifact store, MDU adapter; parents list their children |
| Retrieval readiness | the latest evidence per package | `assess` | artifact store; packages and knowledge objects |
| Discovery, TANTRA lookups | none of their own | `discover`, `runtime_package_lookup` | packages, objects, readiness (which saves), reports |
| BCAES registry | objects in memory | `register`, `update`, `delete`, graph queries, snapshot | convergence records |
| BCAES convergence | a record per object, in memory | `upsert` | BCAES objects |
| Canonical repository | documents and hash-chained versions in memory | `register`, `publish_version`, `latest_version`, `verify_chain` | none |
| MDU adapter | cache of resolved ids | `fetch_schema_contract`, `fetch_provenance`, version negotiation | MDU, over HTTP |

What is hard in each, and what makes it correct:

- *Artifact store.* A reader may find a file truncated; two writers may
  garble it; a crash may leave it empty. A file must never parse as something
  that nobody saved.
- *Package registry.* `promote` loads, checks and saves with nothing that
  excludes another handler. What is stored must stay a legal, replayable walk
  of the lifecycle graph in time order, no race may let a package skip a gate,
  and transitions that nobody raced must survive.
- *Validation rules.* Percentages are rounded to two decimals before they
  meet thresholds, and seven scores are weighted, summed and rounded again. A
  repair must not cost points, the gates must be nested, and `CERTIFIED` must
  mean one plain criterion.
- *Certification.* `certify` of an unknown dataset is a validation and a
  certification; the dataset may be replaced at any time and is read twice
  when its id is its hash. Only the rules, applied to the content a report
  describes, may make a dataset eligible.
- *Shared records.* Duplicate registration, updates that race a deprecation,
  a resolver whose answer mixes two moments.
- *Knowledge objects.* Up to four saves for one registration (parent and object,
  each under two keys). Copies must agree, a child must not be there before its
  parent lists it, and the walk over links that others change must end and be
  exact when nobody does.
- *Readiness, discovery, TANTRA.* Evidence, bundles and listings put together
  from several reads. Evidence must rest on states that were, and not go back in
  time unless the package itself was taken back by promotions that overlapped; a
  listing must leave nothing out.
- *BCAES, canonical repository.* Check-then-act on dictionaries shared by
  threads; dangling dependencies; two versions with one number in a hash chain.
- *MDU adapter.* Two calls to a remote service per request, either of which may
  fail or never be answered; replies that are old when they arrive; a list of
  versions whose order nobody has confirmed; a shared cache from which nothing is
  dropped; a permissive placeholder. The placeholder must not stand in for an
  answer of MDU's, a verdict must rest on the list of the right dataset, and
  every request must end.

The `hazards` of `PROJECT.json` list these at their lines, with the properties
that would catch them.

## Modules

| module | models | role |
|---|---|---|
| `ArtifactStore` | `services/artifact_store.py` | a file, before, during and after `save` |
| `LifecycleGraph` | `models.py` (packages), the pure part of the registry | graph, records, what `replay` and `audit_completeness` compute |
| `PackageLifecycle` | what the registry promises | abstract: registration and promotion are atomic |
| `PackageRegistry` | `services/package_registry_service.py`, `/packages` routes | detailed: unlocked handlers, crash; implements `PackageLifecycle` |
| `MCPackageRegistry` | | instance for TLC |
| `PackageRegistryProofs` | | lemmas about records; theorems |
| `DatasetScoring` | `validators/`, `engines/`, `config/validation_rules.json` | pure: scores, flags, gates as functions of a dataset's counts |
| `DatasetRepair` | | a dataset of any size whose owner fixes one defect after another; what the rules should come to |
| `MCDatasetScoring` | | instance for TLC: the datasets of a bounded size |
| `ReportRules` | reports, `_transition`, `certify`'s decision | pure: what a report becomes |
| `ReportLedger` | what `/validate` and `/certify` promise | abstract: a ledger of reports; what validation and certification make of a report are parameters |
| `Certification` | `services/validation_service.py`, `certification_service.py`, `report_service.py` | detailed: unlocked handlers, dataset replaced, crash; implements `ReportLedger` |
| `MCCertification`, `CertificationProofs` | | instances: a clean dataset, one with a gap, one without provenance, one whose validation raises; theorems, also about the rules |
| `SharedRules` | shared records, `replay` | pure: what register, update and deprecate make of a record |
| `SharedRegistry` | what the shared stores promise | abstract: atomic cells, final once deprecated |
| `SharedRecords` | `services/shared_record_store.py`, `shared_dependency_resolver.py` | detailed: unlocked handlers, resolver over two stores, crash; implements `SharedRegistry` |
| `MCSharedRecords`, `SharedRecordsProofs` | | instances: an identity and a record that may point to it; theorems |
| `KnowledgeLineage` | `services/knowledge_object_service.py`, its routes | unlocked handlers over the two copies of each object, the walk over parents, crash |
| `MCKnowledgeLineage`, `KnowledgeLineageProofs` | | instance for TLC; theorems |
| `RetrievalReadiness` | `services/retrieval_readiness_service.py`, `runtime_discovery_service.py`, `tantra_interface_service.py` | assessment, lookup and listing as reads one after the other, over packages and objects that others load, check and save without a lock; crash |
| `MCRetrievalReadiness`, `RetrievalReadinessProofs` | | instance for TLC; theorems |
| `CanonicalRepository` | `canonical_repository/store.py`, `service.py`, `/canonical-repository` routes | unlocked handlers over three dictionaries, the hash chain |
| `MCCanonicalRepository` | | instance for TLC |
| `CanonicalRepositoryProofs` | | theorems about racing publications, and about undisturbed ones |
| `BCAESRegistry` | `bcaes_registry/store.py`, `graph.py`, `/bcaes` routes | unlocked handlers over the objects, the walk over dependencies |
| `BCAESConvergence` | `bcaes_registry/convergence_store.py`, `snapshot.py` | extends it with convergence records and snapshots; holds the specification of both |
| `MCBCAESConvergence`, `BCAESProofs` | | instance for TLC; theorems |
| `MDUAdapter` | `services/mdu_contract_adapter.py`, `mdu_client.py` | one adapter: handlers that call MDU, the cache they share, restart; MDU as environment |
| `MCMDUAdapter`, `MDUAdapterProofs` | | instance for TLC; theorems |

How actions correspond to code: one handler is cut where it touches the file
system or a shared dictionary, and only there, because its other steps change
local variables only.

| action | code |
|---|---|
| `RegisterBegin`, `PromoteBegin` | `load`, the checks and the new record of `register` and `promote`, up to `_save` |
| `PromoteRefused`, `NotFound`, `Unreadable` | the early returns: 400, 404, and the unhandled `JSONDecodeError` |
| `Open` | `open(path, "w")` in `save` |
| `Flush` | `json.dump`, the close of the file, the answer |
| `AuditBegin`, `AuditEnd` | the two reads of `audit_completeness` |
| `ValidateAs`, `HashDataset`, `LoadDataset` | the reads of the dataset in `validate`, once, or twice without an id |
| `LoadFails`, `NoReportBuilt` | `validate` raises: the dataset is missing, or a validator fails on its contents; 400 |
| `LoadReport`, `CertifyUnknown`, `CertifyNotFound` | `_resolve_report`'s three outcomes |
| `Register`, `Update`, `Deprecate` | the checks and the new record of the shared stores, up to `_save` |
| `ResolveBegin`, `ResolveEnd` | the two reads of `SharedDependencyResolver.resolve` |
| `RegisterCheck`, `RegisterDocument`, `RegisterVersions`, `RegisterIndex` | `register` of the canonical repository: the check of the category, and one step for each dictionary it fills |
| `PublishBegin`, `ReadNumber`, `AppendVersion`, `ReplaceDocument` | `publish_version`: the last hash, the last number, the append, the new document |
| `LatestBegin`, `LatestEnd` | `latest_version`: the document, then the search of its history |
| `RegisterBegin`, `UpdateBegin`, `CheckDependency`, `SaveObject` | `register` and `update` of the BCAES registry: the copy, the lookup of each dependency, the assignment |
| `DeleteBegin`, `DeleteEnd`, `DeleteFails` | `delete`: the lookup, the `del`, its `KeyError` |
| `WalkBegin`, `WalkRoot`, `WalkOn`, `WalkReturn`, `WalkEnd` | `transitive_dependencies`: one call of `walk`, or one return from it, at a time |
| `UpsertBegin`, `UpsertCopy`, `UpsertSave` | `upsert`: the lookup, the copy of the record, the merge |
| `SnapshotBegin`, `SnapshotObject`, `SnapshotEnd`, `SnapshotFails` | `generate_snapshot`: the records, one object after the other, the answer or a `RuntimeError` |
| `RegisterBegin`, `RegisterRefused` (of `KnowledgeLineage`) | `register_object`: the checks of the parent, the new object, the list of files to save |
| `LineageBegin`, `WalkClimbs`, `WalkAnswers` | `lineage`: the package's own object, then one object of an ancestor at a time |
| `AssessBegin`, `Judge` | `assess`: the read of the package, the read of its object and the rules |
| `LookupBegin`, `LookupLineage`, `LookupAssess`, `LookupAnswers` | the reads of `runtime_package_lookup`, with an assessment between them |
| `DiscoverBegin`, `DiscoverReads`, `DiscoverAnswers` | `list_all`: the names of the files, then one file at a time |
| `Begin`, `Cache` (of `MDUAdapter`) | `_resolve_mdu_id`: the look at the cache, the assignment to it |
| `MDUNames`, `MDUReports` | MDU makes its reply to the first and to the second call |
| `Judge` | the reply to the second call has arrived: `validate_schema_compatibility` and the two `fetch_` methods make their answer of it |
| `CallFails`, `CallBreaks` | a call ends otherwise: an HTTP error or timeout, no JSON |
| `RegisterBegin`, `PromoteBegin`, `ObjectBegin` (of `RetrievalReadiness`) | another handler's load and checks, up to its save |
| `OtherOpens`, `PackageWritten`, `ObjectWritten` | its save |
| `MDURegisters`, `MDURemoves`, `MDUChangesSchema` | MDU, which is external |
| `ReplaceDataset`, `Crash`, `Restart` | the environment |

## Modelling decisions

- *A file* is `[text, extent]`: `text` is what a reader parses, a record or one
  of `Absent`, `Blank` (truncated) and `Garbled`; `extent` is its length. A
  second writer past its own truncation writes from offset 0 over what is
  there: a longer or equal text replaces it, a shorter one leaves the old tail
  behind, which does not parse. Lengths are small numbers, one per transition,
  chosen from `TextLens`. A text reaches the file when the file is closed;
  one that fits the buffer of a text file does so in one write. Nothing enforces
  that records fit: a report with a long trail or long metadata is written in
  parts, and a reader or a crash between the parts finds a text that does not
  parse, as it does after the truncation.
- *Times* are the order of transition ids: a transition built later has the
  greater id. The registry compares time stamps only with each other.
- *Actor and reason* are one Boolean, whether both are non-empty. The pass run
  gives them; `audit_completeness` looks at nothing else of them.
- *New package ids* are uuids: `RegisterBegin` takes an unused package, and no
  request names a package before its registration has answered.
- *History variables* (`acked`, `soloAcked`, `disturbed`, `soloAdopted`, `raced`,
  `cut`, `reached`, `sourced`, `named`, `moved`, `listed`) say what clients were told, which
  keys had overlapping mutations or a save cut short by a crash, what was ever
  stored, and what MDU has said. No action reads them except to update them.
- *Datasets* are the counts the profiler makes: rows, columns, missing cells,
  duplicates and so on. The hash of a dataset is the dataset. A text among the ages
  cannot be compared with the bounds, and a list or an object in a cell, which a
  JSON file may hold, cannot be hashed by `duplicated()`: `validate` raises, and
  such a table (`Raises`) has no report and no verdict, but a 400.
- *Content hashes* of the canonical repository are SHA-256 of the previous hash
  and the content, taken to be free of collisions: the model's hash is the
  sequence of all contents that went into it. Documents live in memory only, so
  that a restart is a new behaviour and there is no crash to model.
- *BCAES objects* are their set of dependencies and one `detail`, which stands
  for every other field a PATCH may name; a convergence record is a status per
  dimension. `Keep` is a field that a request does not name. Dependencies are
  looked up, and walked, in any order, where the code takes the order of the
  list. The consumers that `register` and `update` derive after they have saved
  are a read, and left out, as are the registry counts and the architecture
  checks that a snapshot also contains.
- *Knowledge objects* are numbered in the order in which they are built, where
  the code takes a uuid; an object's keys are its number and its package. A
  package's `schema_version` counts by its major number only, which is all that
  `_validate_version_compatibility` compares: packages are of the old one or of
  the new one. The registry is read, never written: `Unknown` are the packages
  it has no record of.
- *Readiness.* The five fields of a package that the rules ask for are one
  Boolean, and so is an object's `source_reference`. The handlers that promote
  packages and register their objects load, check, open and write as those of
  `PackageRegistry` do, and as little excludes them: two promotions may load one
  record, and the later save may take the package back to a status it had left.
  A package for which that may have happened is `disturbed`, and what is said of
  the order of its statuses is said of the others only. A package may begin in any
  status of `Start`, as a record of an earlier run of the process. `lineage`, in
  the middle of a lookup, also reads files that this module does not have, and
  may therefore fail with a 500 at any time (`LookupLineage`).
- *MDU* may change its data at any time, answer, answer with an error or with
  something that is no JSON, or stay silent. It makes its reply at one moment and
  the handler acts on it at a later one; MDU may change in between. A schema is
  a list of versions, and the adapter takes the one at index 0 for the current
  one, which its comment calls pending confirmation. Nothing is assumed of the
  order: `Lists` are any sequences, so that whether a verdict is on the current
  version is for MDU to say, and no property claims it. A call that fails and one
  that the client gives up are the same outcome for the adapter
  (`httpx.HTTPError`). `main.py` makes two adapters, one for the `/mdu` routes and
  one for lineages, with a cache and a client each; they share nothing, and
  `MDUAdapter` is either of them, with requests of both kinds. A version is the pair of what precedes and what follows
  its first dot.
- *Rounding.* Scores are integers in hundredths; `round(x, 2)` is the nearest
  integer, ties to even.

The abstract modules say nothing of a package or key that is `Disturbed`; the
refinement mapping sends a package there as soon as two mutations of it overlap
or a crash cuts a save of it short. The refinement therefore says exactly when
the service behaves as if its operations were atomic, and the invariants of the
detailed modules say what is left when it does not.

## Runs and bounds

| run | question | bounds |
|---|---|---|
| `package_unlocked` | what survives when two unlocked handlers race one package, read it and crash; and that it is an atomic registry entry otherwise | 2 threads, 1 package, texts of 2 lengths, 4 transitions, 1 crash |
| `package_archived_resurrected` (violation) | is `ARCHIVED` terminal? | 2 threads, 1 package, 4 transitions |
| `scoring_small` | are the gates one plain criterion, nested, and monotone under repairs? | 0, 1, 3 or 40 rows; 0, 2 or 4 columns; 0, 1, 2 or 4 absent columns (a table with none lacks all 4); up to 3 null cells or duplicates, 2 mistyped columns, 1 blank column, 1 age out of range; a text among the ages or a nested cell, whose validation raises (339072 states) |
| `scoring_rounding` (violation) | is a certified dataset free of nulls? | 10000 rows, 4 columns |
| `certification_unlocked` | do races, crashes and a replaced dataset ever make a dataset eligible against the rules; is a key one cell of a ledger? | 2 threads, 1 chosen id and 4 derived ones, 4 contents of which 1 has no report, 3 saving requests, 1 replacement, 1 crash (617459 states) |
| `certification_reasons` (violation) | does a rejected report keep its reasons? | 1 thread, 3 requests |
| `shared_unlocked` | what survives races on shared records; what may the resolver call missing; are they atomic cells otherwise? | 2 threads, 1 identity, 1 dependent, payloads of 2 lengths, 3 transitions, 1 crash |
| `lineage_unlocked` | do the copies of an object agree, do parents list their children, is a walk exact, when handlers race and the process dies between two saves? | 2 threads, 4 packages of which 1 is unknown, 1 of another major version and 2 are parents, 3 objects, 1 crash |
| `readiness_unlocked` | does evidence rest on what was stored and, unless promotions overlapped, move forward; is a TANTRA bundle in order, a listing complete? | 2 threads, and 2 that promote and register, 2 packages of which 1 is assessed, first status `CERTIFIED` or `RETRIEVAL_READY`, 2 saves by others, 1 crash (2231198 states) |
| `canonical_unlocked` | what do racing publications leave of a version history; does the chain verify without a race; may a reader meet a document half registered? | 2 threads, 2 documents, 1 category, 2 contents, 3 publications |
| `bcaes_unlocked` | what do races leave of objects, their dependencies and convergence records; is a walk exact, whatever the graph; do snapshots add up? | 2 threads, 3 ids, 1 detail, 2 dimensions, 2 statuses, 4 requests that change something |
| `mdu_unlocked` | is the cache stale only by MDU's doing, a verdict on what MDU listed first, every request answered? | 2 threads, 2 datasets, 1 id named directly, 3 versions, lists in either order and an empty one, 2 ids, 1 change at MDU, 1 restart (504857 states) |

Why they are enough: services handle each package, key or record on its own
(handlers of different ones share no variable), so one package and two threads
show every race of a read-modify-write, and a third handler can only repeat
what the second does; the theorems below hold for any number. Four transitions
reach every gate with one race to spare; two text lengths give a shorter text
over a longer one. Documents of the canonical repository meet only in the index
of categories, hence two documents of one category; with three publications a
race is followed by a publication on top of it. Four requests and three BCAES
ids give every acyclic graph with one object updated or deleted after it was
built: shared parts, self-loops, cycles of two and of three, dangling ends; one detail and two
dimensions tell a field that was kept from one that was reset. Three knowledge
objects give a parent, its child and a third object that is a grandchild, a
second child, the parent registered again, or the parent as its own descendant;
the fourth package is one that the registry does not know. Two saves by others
put the package through two more hops, or its object and one hop, within one
assessment, lookup or listing, or let two promotions overlap; the second package
is what a listing may leave out. With two datasets and two ids of MDU's an id may be wrong, old or another
dataset's; one change falls before, between or after the two calls of either
handler, or while a reply is on its way. The bounds `MaxTxn`, `MaxRequests`, `MaxReplacements`,
`MaxPublications`, `MaxObjects`, `MaxMoves`, `MaxIds`, `MaxChanges`,
`MaxRestarts` and `MaxCrashes` are guards of the actions that count.

What the properties of the passing runs show:

- `StoredIsReplayable`: a readable record is a legal walk of the graph from one
  root, in time order, ending in the stored status. Races lose work or damage a
  file; they never combine two histories. (That it also shows every gate before
  the one it has reached, `NoGateSkipped`, is proved and not part of a run.)
- `SoloTransitionsSurvive`, `UndisturbedIsExact`: a transition is lost only if
  its own handler overlapped another; without overlap the record is exactly
  what clients were told.
- `DamagedIsNeverReplaced`, `UnreadableOnlyInPassing`: damage stays visible,
  and without a race or a crash there is none but while a save is under way.
- `AuditNeverAlarms`: the audit reads twice, and still never reports trouble.
- `ImplementsLifecycle`, `ImplementsLedger`: atomic until disturbed.
- `EligibleOnlyByRules`, `AuditTrailIsGapless`: a report's decision is the one
  the rules give on the content it describes, whoever raced, and its trail
  leads to its state.
- `StoredIsReplayable`, `SoloWritesSurvive` of `SharedRecords`: the same for
  versioned records; in particular a deprecation that nobody raced is final.
- `MissingWasNeverRegistered`: the resolver, which reads two stores, never
  calls an identity missing that a client was told of.
- `ImplementsRegistry`: shared records are atomic cells until disturbed.
- `NumbersWithoutGap`, `EveryVersionExtends`: a race of publications may give
  two versions one number and fork the chain, which `verify_chain` then reports
  for ever; it never skips a number nor detaches a version.
- `UndisturbedVerifies`: without such a race the chain verifies.
- `LatestIsFound`, `PublishedIsKept`, `IndexPointsHome`: readers that look in
  two dictionaries find in the second what the first promised.
- `DanglingWasDeleted`, `RecordsOfRegistered`: the registry looks up what it is
  about to refer to and saves later, and `delete` asks nobody; still, a
  reference that does not resolve always goes back to a deletion, so that
  nothing dangles in a registry in which nothing is deleted.
- `UndisturbedIsExact` (of `BCAESRegistry`), `UnracedRecordIsExact`: merge
  patches that do not overlap lose nothing.
- `WalkIsExact`: with cycles, shared parts and dangling ends, a walk under which
  nothing changed returns the least set closed under dependency, and reports a
  cycle exactly if there is one.
- `SnapshotAddsUp`: tracked and untracked objects are together the registered
  ones as long as nothing is deleted, because records are read first.
- `KeysAgree`: a knowledge object is stored under two keys, one save after the
  other. Unless two handlers were about to save one object at once, the copy that
  is read has its double, which lags behind in no child, wherever a crash fell.
- `SoloAdoptionsSurvive`, `ChildIsListed`: parents are read, extended and saved,
  and so are their parents; a child that was added without an overlap stays, and
  no object is there before its parent lists it.
- `WalkIsExact` (of `KnowledgeLineage`): a lineage during which nothing was saved
  is the line of ancestors, over cycles, gaps and the leavings of crashes.
- `EvidenceIsJustified`, `EvidenceMovesForward`: package and object are read
  apart, and the evidence is saved later; still it names a status that was
  stored and an object with a source that was registered. Unless two promotions
  of the package overlapped, evidence on a later status is replaced by evidence on
  an earlier one only if assessments overlap.
- `BundleIsOrdered`: the parts of a TANTRA bundle are of different moments, each
  of a state that was; unless two promotions of the package overlapped, in the
  order in which they were read.
- `DiscoveryIsComplete`: a listing fails or is complete; one file that does not
  parse fails it for all packages, and hides none. What it shows of a package was
  stored, and is no status it had left, unless two promotions of it overlapped.
- `CacheIsMDUs`, `VerdictIsExact`: an id in the shared cache is old only where MDU
  gave the dataset another one, and without that a verdict is the one on a version
  that MDU listed first for that dataset since it was called; the placeholder
  never hides an answer. Whether the first is the current one is not shown.
- `EveryRequestIsAnswered`: although MDU may be silent for ever.
- `CertifiedIffEligible`, `GatesAreNested`, `RepairNeverHurts`: the rules come to
  one plain criterion for tables of fewer than 20000 cells (`FewCells`, which all
  of the run have), the certification gate accepts nothing that the verification
  gate rejects, and repairs never cost points nor lose a report. A table whose
  validation raises is never certified.

Type correctness is proved rather than checked by a run (`TypeCorrect` in each
of the proof modules).

Every property of a passing run has a mutant in `PROJECT.json`: a change of one
definition, of the kind a plausible bug would be, that makes it fail.

## Fairness

`FairSpec` of `PackageRegistry` assumes weak fairness of `Step(w)` for each
thread: a handler that has begun goes on to its next file-system call. That is
what an operating system's scheduler gives a runnable thread, and no step of a
handler waits for another. Requests and crashes are not fair: clients may stop,
and the process need not die.

`FairSpec` of `MDUAdapter` assumes weak fairness of `Cache(w)` and `Judge(w)`, for
the same reason, and of `CallFails(w)`: `mdu_client.py` gives `httpx` a timeout of
ten seconds, after which it raises, so that a call that is never answered ends by
itself. The timeout is on each read and not on the whole call. So MDU need not
answer, nor answer well; but a reply that it has begun must come to its end, or
fall silent: one that arrives in ever new parts is not covered. Without the
timeout of the second call `EveryRequestIsAnswered` fails, which is its mutant.

No other module claims liveness. That walks end follows from safety properties
that are proved: a lineage walk climbs to each package at most once
(`WalkNeverReturns`), and every step of a dependency walk brings it closer to its
end (`WalksEnd`).

## Proofs

`PackageRegistryProofs` proves about `PackageRegistry`, for any sets of threads
and packages, any text lengths, any number of transitions and of crashes, from
the assumptions named in the modules (sentinels are no records, lengths are
naturals, `MaxTxn` is natural):

| theorem | statement |
|---|---|
| `TypeCorrect` | `Spec => []TypeOK` |
| `ReplayNeverFails` | `Spec => []StoredIsReplayable` |
| `NoGateIsSkipped` | `Spec => []NoGateSkipped` |
| `SoloSurvives` | `Spec => []SoloTransitionsSurvive` |
| `LifecycleImplemented` | `Spec => ImplementsLifecycle` |
| `UndisturbedExact` | `Spec => []UndisturbedIsExact` |
| `DamagedIsKept` | `Spec => DamagedIsNeverReplaced` |
| `NoFalseAlarm` | `FALSE \notin Attributions` implies `Spec => []AuditNeverAlarms` |
| `UnreadableIsSaved` | `Spec => []UnreadableIsBeingSaved` |
| `ArchivedIsFinal` | an undisturbed package promoted to `ARCHIVED` reads `ARCHIVED` for ever |

None of these is inductive as it stands: a handler holds a record that it will
save later, and what it holds must be as good as what is stored. `IInv` adds
that every record held by a handler satisfies `GoodRecord` (it is sound, has
passed its gates, and its newest transition is older than `nextTxn`), and so is
every record stored. `SoloInv` adds, for the survival of transitions, that a
handler that is still `solo` is the only one at work on its package, that a
record held by any handler of a package contains the transitions acknowledged
as solo, and that a file that does not exist has no acknowledged transitions.
The lemmas about records on which the steps rest come first:
what `Registered` and `Promoted` return is typed, sound, and keeps the
transitions and the gates of the record it extends (`RegisteredSound`,
`PromotedSound`, `PromotedGates`, `PromotedRecords`). `LifecycleImplemented` is a
refinement: every step of the detailed module is a step of the abstract one, or
a stutter, under the mapping described above. `RefInv` is what makes it so: a
handler whose package is undisturbed is alone on it, the file is what it loaded
until it opens it and `Truncated` from then on, and what it is about to save is
what the atomic operation makes of what it loaded (`Builds`). So the abstract
value is what was loaded until the save is complete, and `Flush` is the atomic
operation; two handlers that meet, or a crash, disturb the package. `ExactInv`,
for `UndisturbedExact`, rests on it: what is stored of such a package was
acknowledged, and what its one saver holds goes one transition further.
`ArchivedIsFinal` joins it with the soundness of records: no legal hop leads out
of `ARCHIVED`, so a history that passes through it ends there. It is the
counterpart of the finding below: only a disturbed package comes back to life.
`UnreadableIsSaved` is the safety half of `UnreadableOnlyInPassing`: a file that
does not parse, of an undisturbed package, has a handler about to write it, so
that fairness of that write is all the liveness property needs.

`CanonicalRepositoryProofs` proves every invariant that `canonical_unlocked`
checks, for any sets of threads, documents, categories and contents and any
number of publications:

| theorem | statement |
|---|---|
| `TypeCorrect` | `Spec => []TypeOK` |
| `NumbersHaveNoGap` | `Spec => []NumbersWithoutGap` |
| `VersionsExtend` | `Spec => []EveryVersionExtends` |
| `LatestFound` | `Spec => []LatestIsFound` |
| `PublishedKept` | `Spec => []PublishedIsKept` |
| `IndexIsSound` | `Spec => []IndexPointsHome` |
| `ChainVerifies` | `Spec => []UndisturbedVerifies` |

The properties speak of histories, a step appends what a handler carries. The
invariant therefore says what each handler knows (`JobInv`): the hash and the
number that a publisher carries come from versions in the history, the number a
reader carries is in the history, a registration works on a document of its own
(`ApartInv`), and a document shows a version that it has (`DocInv`). Histories
only grow (`Kept`), so that what a handler knows stays true while others move
(`OthersKnow`), and each action needs to be looked at for the handler that
takes it only. For the chain, `ChainInv` adds that a document whose publications
never overlapped has at most one publisher, and that what it carries is still
the end of the history (`Continues`).

`BCAESProofs` proves about `BCAESConvergence`, for any sets of threads, details,
dimensions and statuses, any finite set of ids and any number of requests:

| theorem | statement |
|---|---|
| `TypeCorrect` | `Spec => []TypeOK` |
| `DanglingIsDeleted` | `Spec => []DanglingWasDeleted` |
| `RecordsStayRegistered` | `Spec => []RecordsOfRegistered` |
| `SnapshotsAddUp` | `Spec => []SnapshotAddsUp` |
| `UndisturbedExact` | `Spec => []UndisturbedIsExact` |
| `UnracedExact` | `Spec => []UnracedRecordIsExact` |
| `WalksAreExact` | `Spec => []WalkIsExact` |
| `WalksEnd` | `Spec => WalksComeCloser` |

The argument is one notion: an id is `Resolved` if it is registered or has been
deleted, and that is for ever (`Lasting`). `JobInv` says that whatever a handler
has looked up is resolved: the dependencies of the copy it holds, those it has
checked, the object of the record it merges, the records a snapshot has read.
What handlers save is then resolved too. For snapshots it adds that, while
nothing is deleted, a tracked id has been seen or is still to be looked at.
`IdsAssumption`, that the ids are finite, is needed for the cardinalities only.
`UndisturbedExact` and `UnracedExact` rest on `ObjectInv` and `RecordInv`:
whoever mutates an undisturbed object, or upserts an unraced record, is alone
with it, and what it has copied is still what is stored, so that storing the
outcome loses nothing.
`WalksAreExact` is the correctness of the depth-first search, cut at every
lookup. Reachability is the least set closed under dependency, so that no
induction over the graph is needed: what a walk returns is shown to lie in the
reachable ids and to be closed itself. `WalkInv` holds while nothing was saved
under a walk (`changed`): the stack is a path (`PathInv`); whatever was visited
is reachable, and the dependencies of what is visited and off the stack, or
already handled on it, are visited (`FoundInv`); and unless a cycle was seen,
these dependencies have been left or lie further down the stack, and nothing
that has been left reaches itself (`CycleInv`), so that at the end nothing
visited does. One lemma for each way the walk moves (`MoveSeen`, `MovePush`,
`MoveLeaf`, `MoveReturn`, `MoveRoot`) keeps the three; the threads that do not
walk keep the graph, or spoil the walk for good.
`WalksEnd` needs no such care: whatever is saved meanwhile, every step of a walk
visits another id, or shortens the path, or leaves fewer dependencies at its end
(`Closer`), which can go on for finitely many steps only, because the ids are
finite.

`SharedRecordsProofs` proves about `SharedRecords`, for any sets of threads and
records, any payloads and any number of transitions and crashes, everything that
`shared_unlocked` checks:

| theorem | statement |
|---|---|
| `TypeCorrect` | `Spec => []TypeOK` |
| `StoredReplayable` | `Spec => []StoredIsReplayable` |
| `SoloSurvives` | `Spec => []SoloWritesSurvive` |
| `MissingNeverRegistered` | `Spec => MissingWasNeverRegistered` |
| `RegistryImplemented` | `Spec => ImplementsRegistry` |

`CertificationProofs` does the same for `Certification`, for any contents,
requests and replacements:

| theorem | statement |
|---|---|
| `TypeCorrect` | `Spec => []TypeOK` |
| `OnlyRulesDecide` | `Spec => []EligibleOnlyByRules` |
| `TrailHasNoGap` | `Spec => []AuditTrailIsGapless` |
| `LedgerImplemented` | `Spec => ImplementsLedger` |
| `CertifiedExactlyIfEligible` | `RepairSpec => []CertifiedIffEligible` |
| `GatesNest` | `RepairSpec => []GatesAreNested` |
| `RepairsNeverHurt` | `RepairSpec => RepairNeverHurts` |
| `CertifiedStaysCertified` | `RepairSpec => [][Verdict(dataset) = "CERTIFIED" => Verdict(dataset') = "CERTIFIED"]_dataset` |
| `EligibleMeansClean` | `Spec => []EligibleReportsAreClean` |

Those about `RepairSpec` are about the rules, for tables of any shape with any
number of defects. Everything rests on two facts about `Nearest`: it is within
half of the quotient (`NearestFact`) and keeps the order (`NearestInOrder`).
From the first follows that below 20000 cells one null cell costs at least a
hundredth (`FewAreCounted`; `scoring_rounding` shows the bound is needed), from the
second that no score falls when a defect goes (`NoScoreFalls`). That a certified
dataset is clean is read off the flags and the recommendations, one defect at a
time; that a clean one is certified needs the mean, of which the metadata
scores are the only parts that may be short of full.
A table whose validation raises has no report: it is `NO_REPORT`, hence not
certified, and the handlers build reports of `Reportable` contents only.
`EligibleMeansClean` joins the two halves: whatever requests, crashes and
replacements do, an eligible report is of a clean dataset, with the same bound.

For the handlers, `SharedRecordsProofs` and `CertificationProofs` go as
`PackageRegistryProofs` does: `IInv` says that what a handler holds is as good
as what is stored, `RefInv` is the invariant of the refinement. `AckInv` adds
that what was answered with 200 has a file and that a handler that resolves
holds a record that was read. The rules enter the proofs about handlers only as
predicates of a content.

`KnowledgeLineageProofs` proves about `KnowledgeLineage`, for any number of
threads, packages, objects and crashes:

| theorem | statement |
|---|---|
| `TypeCorrect` | `Spec => []TypeOK` |
| `WalksNeverReturn` | `Spec => []WalkNeverReturns` |
| `AdoptionsSurvive` | `Spec => []SoloAdoptionsSurvive` |
| `ChildrenAreListed` | `Spec => []ChildIsListed` |
| `CopiesAgree` | `Spec => []KeysAgree` |
| `WalksAreExact` | `Spec => WalkIsExact` |

What matters of an object are its versions: those stored and those handlers have
still to save (`Held`). `OrderInv` says in which order a handler saves them,
`HeldInv` that all versions of one object belong to one package and list what was
adopted alone, `SoloInv` that a handler alone on its objects shares none of them.
For `ChildIsListed` the invariant has to say what happens between the saves
(`ListInv`): a child that is stored is listed by every version of its parent's
object (`Lists`); one that is about to be stored is listed by what is stored
unless that is about to be replaced by the same handler first (`Yet`).
For `KeysAgree`, `KeyInv` follows the one saver of an object through its two saves:
the file it has truncated is as it left it, and what it writes under the package
is already stored under the object's id (`SaverInv`); while it is not in between
(`Settled`) and no crash has caught it there, the two copies are equal.
For `WalksAreExact`, `ClimbInv` says that what a calm walk has climbed so far is
the line of ancestors (`Climbed`), and that the parent it holds is the one stored
at its end; opening or writing any file ends the calm of every walk.

`MDUAdapterProofs` proves about `MDUAdapter`, for any number of threads, datasets,
changes and restarts:

| theorem | statement |
|---|---|
| `TypeCorrect` | `Spec => []TypeOK` |
| `CacheStaysTrue` | `Spec => []CacheIsMDUs` |
| `VerdictsAreExact` | `Spec => VerdictIsExact` |

An id is `Good` for a dataset if MDU has had it for that dataset, and has it still
if it never changed it. Good ids stay good, and whatever handlers and the cache
hold is good (`CacheOK`, `IdOK`); `NamesInv` says that MDU gives no id to two
datasets, and keeps a record under each that is in use. With a good id a handler
is sent the list of its own dataset, and what is first on it, at MDU or in the
reply on its way, is among the versions listed first since its call (`ListOK`). No
theorem says that the first version listed is the current one.

`RetrievalReadinessProofs` proves about `RetrievalReadiness`, for any number of
threads, packages, saves by others and crashes, everything that
`readiness_unlocked` checks:

| theorem | statement |
|---|---|
| `TypeCorrect` | `Spec => []TypeOK` |
| `EvidenceJustified` | `Spec => []EvidenceIsJustified` |
| `EvidenceForward` | `Spec => []EvidenceMovesForward` |
| `BundleOrdered` | `Spec => []BundleIsOrdered` |
| `DiscoveryComplete` | `Spec => DiscoveryIsComplete` |

What was true of a package may cease to be, when the save of a slow promotion
takes it back, so that the proof keeps what is true for good apart from what is
true in order. `At` is what is known of a package at a moment, the records that
handlers are about to save included, and `Later` how two moments of it compare:
what was reached stays reached, and its metadata stay complete or not, because all
these records agree (`Agrees`). Each action leads to a later moment of every
package. `InOrder` holds of packages that are not disturbed: one handler at most
is about to save the package, and what is stored, like what that handler holds,
has the latest status reached; a promotion goes on from there (`MovesOn`). `Knows`
and `Lists` say what a handler holds at each step of an assessment, a lookup or a
listing, the part about order under the condition that the package is not
disturbed, and both stay true later. `SoloInv` adds, for `EvidenceMovesForward`,
that an assessment that overlaps no other holds nothing older than the evidence
stored.

Every invariant and every action property that a passing run checks is proved.
Only model-checked is liveness (`UnreadableOnlyInPassing`,
`EveryRequestIsAnswered`): it rests on fairness, which TLAPS cannot reason about
here.

## Findings

Each is a run of its own, in which one property stated by a document, a comment
or a test of the repository is violated; `PROJECT.json` quotes the lines.

- A promotion that started before a deprecation and an archival revives the
  package (`package_archived_resurrected`).
- One null cell in 40000 is rounded away, and the table is certified as clean
  (`scoring_rounding`).
- Certifying a rejected report again erases its reasons
  (`certification_reasons`).

More weaknesses are visible in the models without a run of their own: certifying
a certified report again walks it from `CERTIFIED` back to `VERIFIED`, which the
state diagram of `ARCHITECTURE.md` does not have; two registrations of one shared
record, or of one canonical category, both succeed when they overlap; an object
registered before its parent has one is never added to the parent's children, and
a parent that is registered again forgets them (why `ChildIsListed`
speaks of the object that the registration found); the children of one parent
registered at once may lose one; a dataset that gets a new id at MDU is asked for
under its old one, and answered with the placeholder, until MASTERDB is
restarted; two
overlapping PATCHes of one convergence record, by the owners of two dimensions,
lose one of them (why `UnracedRecordIsExact` speaks of unraced records only,
where `BCAES_REGISTRY_ARCHITECTURE.md` has teams update "without clobbering each
other"); a PATCH that overlaps a deletion brings the object back; with
two overlapping promotions both are answered with 200 and one is lost (why
`SoloTransitionsSurvive` speaks of solo transitions only), and the package may go
back to a status it had left, whereupon evidence, bundles and listings show the
earlier status after the later one (why the properties of `RetrievalReadiness`
that are about order except `disturbed` packages); a table with a text among its
ages is answered with 400 and gets no report, where it might be told of the
violation; a comparison with MDU may rest on an old version if MDU does not list
the current one first; and with `FALSE` in
`Attributions`, an empty actor or reason, `audit_completeness` reports the
package incomplete for ever (why the run has `TRUE` only).

## The plan

All nine are done, in this order.

1. `ArtifactStore`, `LifecycleGraph`, `PackageLifecycle`, `PackageRegistry` and
   its proofs: the pattern every other persistent service repeats.
2. `DatasetScoring`: the rules.
3. `ReportRules`, `ReportLedger`, `Certification`.
4. `SharedRecords`: the six stores and the resolver; duplicate registration.
5. `CanonicalRepository` and its proofs: the in-memory pattern, and the chain.
6. `BCAESRegistry`, `BCAESConvergence` and their proofs: objects, dependencies,
   deletes, merge-patches, snapshots.
7. `KnowledgeLineage` and its proofs: `register_object` as its saves, parents and
   children, crashes between them; `lineage` as a walk that always ends.
8. `RetrievalReadiness` and its proofs: `assess`, `discover` and the TANTRA
   bundle as several reads over 1 and 7.
9. `MDUAdapter` and its proofs: cache, fallback, version negotiation, timeout.

## What is not modelled

- `bcaes_registry/validators.py`: read-only checks over all objects at once. The
  consumers derived after a save, listings, search and the maturity score: reads.
- The filter of a listing, `get_latest` of the readiness service, which no route
  calls, and the certification report at the end of a TANTRA bundle, of which
  only the outcome of the read is kept. Registration through TANTRA is that of
  the package registry.
- The children a lineage lists, which are a field of the package's own object.
- MDU's discovery endpoints and `known_gaps`: nothing calls the first, the
  second is a static list.
- Parsing of datasets and counting by pandas (`utils/`, `profiling/`): the
  counts are inputs. Logging, wording, summaries and timestamps as text.
- `services/shared_version_compatibility.py`: a comparison of two strings, with the
  policy that `MDUAdapter` models from the adapter's own code.
- How long the whole of a reply of MDU's takes, and what the order of its versions
  is.
- `services/ingestion_decision_service.py`: a conversion that nothing calls.
- `shared_data/` and `services/shared_data_registry_service.py`: a static table.
  `services/shared_platform_services.py` is static but for the six stores.
- Tests, scripts, notebooks, generated reports and review packets, which hold
  copies of the source.
- Path names: an id that names a file outside its directory is outside the
  models, which take ids as distinct keys.
