------------------------ MODULE MCRetrievalReadiness ------------------------
(***************************************************************************)
(* Instances of RetrievalReadiness for TLC.                                 *)
(***************************************************************************)
EXTENDS RetrievalReadiness, TLC

\* A package that is retrievable with an object, and one that is not for its
\* metadata.
TwoRecords == {[status |-> "CERTIFIED", complete |-> TRUE, size |-> 1],
               [status |-> "RETRIEVAL_READY", complete |-> FALSE, size |-> 1]}

\* Objects without a source are registered within the run.
SourcedObject == {object \in Object : object.sourced}

Interchangeable == Permutations(Workers) \cup Permutations(Others)
=============================================================================
