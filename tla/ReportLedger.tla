---------------------------- MODULE ReportLedger ----------------------------
(***************************************************************************)
(* What /validate and /certify promise: a ledger of reports on which both   *)
(* are atomic.  Certification decides on the report that is in the ledger;  *)
(* validation replaces it.  What each makes of a report is a parameter:     *)
(* the rules of ReportRules, or any others.                                 *)
(*                                                                          *)
(* The promise is for keys whose requests take turns, on a process that     *)
(* does not die half-way through a save: a key may be disturbed at any      *)
(* time, and of a disturbed key this module says nothing more.              *)
(***************************************************************************)
CONSTANTS
  Keys,      \* the keys reports are kept under
  Contents,  \* the contents datasets have
  TextLens,  \* lengths of the text of a validation report
  NoReport,  \* nothing under this key
  Disturbed, \* a key of which nothing is promised
  Validated(_, _), \* the report of a content, with a text of a length
  Certified(_)     \* the decided report made of a report

VARIABLE ledger   \* key -> Report, NoReport or Disturbed

LedgerInit == ledger = [k \in Keys |-> NoReport]

AtomicValidate(k) ==
  /\ ledger[k] # Disturbed
  /\ \E d \in Contents, len \in TextLens :
       ledger' = [ledger EXCEPT ![k] = Validated(d, len)]

AtomicCertify(k) ==
  /\ ledger[k] \notin {NoReport, Disturbed}
  /\ ledger' = [ledger EXCEPT ![k] = Certified(@)]

Disturb ==
  /\ ledger' \in [Keys -> {ledger'[k] : k \in Keys}]
  /\ \A k \in Keys : ledger'[k] \in {ledger[k], Disturbed}

LedgerNext == Disturb \/ (\E k \in Keys : AtomicValidate(k) \/ AtomicCertify(k))

LedgerSpec == LedgerInit /\ [][LedgerNext]_ledger
=============================================================================
