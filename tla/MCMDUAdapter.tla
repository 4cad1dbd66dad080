---------------------------- MODULE MCMDUAdapter ----------------------------
(***************************************************************************)
(* Instances of MDUAdapter for TLC.                                         *)
(***************************************************************************)
EXTENDS MDUAdapter

\* 1.0, 1.1 and 2.0.
SomeVersions == {<<1, 0>>, <<1, 1>>, <<2, 0>>}
Declared == {<<1, 0>>}

\* An empty list, and two versions in either order.
SomeLists == {<<>>, << <<1, 0>>, <<1, 1>> >>, << <<2, 0>>, <<1, 0>> >>}
DeclaredFirst == {<< <<1, 0>>, <<1, 1>> >>}
=============================================================================
