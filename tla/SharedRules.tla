----------------------------- MODULE SharedRules -----------------------------
(***************************************************************************)
(* Records of the shared stores, services/shared_record_store.py: what      *)
(* register, update and deprecate make of a record, and what replay()       *)
(* concludes from it.  Every change is a transition of the history, and     *)
(* every transition has the version it led to.                              *)
(*                                                                          *)
(* A payload is the record it points to (DEPENDENCY_FIELDS), if any, and    *)
(* the length of its text.                                                  *)
(***************************************************************************)
EXTENDS Integers, Sequences

CONSTANTS
  Identities,  \* ids in the identity store, which others point to
  Dependents,  \* ids in the stores whose payloads point to an identity
  NoRef,       \* no pointer
  TextLens     \* lengths of the text of a payload

ASSUME IdsAssumption == Identities \cap Dependents = {} /\ NoRef \notin Identities
ASSUME LensAssumption == TextLens \subseteq Nat

Records == Identities \cup Dependents

Payload == [ref : Identities \cup {NoRef}, len : TextLens]

\* What may be stored as the payload of r: identities point to nothing.
PayloadsOf(r) == {x \in Payload : r \in Identities => x.ref = NoRef}

SharedRecordTransition ==
  [id : Nat, version : Nat \ {0}, action : {"REGISTERED", "UPDATED", "DEPRECATED"}]

SharedRecord ==
  [payload : Payload, version : Nat \ {0}, deprecated : BOOLEAN,
   history : Seq(SharedRecordTransition), size : Nat]

\* What one more transition makes of a record.
Extended(rec, id, action) ==
  [rec EXCEPT !.version = @ + 1,
              !.history = Append(@, [id |-> id, version |-> rec.version + 1, action |-> action]),
              !.size = @ + 1]

Registered(id, payload) ==
  [payload |-> payload, version |-> 1, deprecated |-> FALSE,
   history |-> <<[id |-> id, version |-> 1, action |-> "REGISTERED"]>>,
   size |-> payload.len + 1]

\* The new payload takes the place of the old.
Updated(rec, id, payload) ==
  [Extended(rec, id, "UPDATED") EXCEPT !.payload = payload,
                                       !.size = @ - rec.payload.len + payload.len]

\* Mutant: a deprecation is not a version of its own.
DeprecatedInPlace(rec, id) ==
  [rec EXCEPT !.deprecated = TRUE,
              !.history = Append(@, [id |-> id, version |-> rec.version, action |-> "DEPRECATED"]),
              !.size = @ + 1]

DeprecatedOf(rec, id) == [Extended(rec, id, "DEPRECATED") EXCEPT !.deprecated = TRUE]

\* replay(): versions count up from 1 to the stored one, and the record is
\* deprecated if and only if the history says so.
ReplayConsistent(rec) ==
  /\ \A i \in 1..Len(rec.history) : rec.history[i].version = i
  /\ rec.version = Len(rec.history)
  /\ rec.deprecated = (\E i \in 1..Len(rec.history) : rec.history[i].action = "DEPRECATED")

Recorded(rec) == {rec.history[i] : i \in 1..Len(rec.history)}
Newest(rec) == rec.history[Len(rec.history)]

-----------------------------------------------------------------------------
(* What a record ought to be                                                *)

\* Registered once, first; deprecated at most once, last; built in order.
Sound(rec) ==
  /\ ReplayConsistent(rec)
  /\ rec.history # <<>>
  /\ \A i \in 1..Len(rec.history) :
       /\ rec.history[i].action = "REGISTERED" <=> i = 1
       /\ rec.history[i].action = "DEPRECATED" => i = Len(rec.history)
  /\ \A i \in 2..Len(rec.history) : rec.history[i - 1].id < rec.history[i].id
=============================================================================
