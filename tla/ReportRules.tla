----------------------------- MODULE ReportRules -----------------------------
(***************************************************************************)
(* The report validate() writes on a dataset and the report certify() makes *)
(* of it, and what a report ought to be.  Everything here is constant-level.*)
(***************************************************************************)
EXTENDS DatasetScoring, Sequences

CertificationState == {"NEW", "VALIDATED", "VERIFIED", "CERTIFIED", "REJECTED"}

\* TransitionRecord, without its rule and reason.
Hop(from, to) == [from |-> from, to |-> to]

\* content    the dataset the report was computed from
\* reasons    the number of rejection_reasons of the last decision
\* eligible   eligible_for_masterdb, "undecided" without an ingestion_decision
\* size       the length of its JSON text (see ArtifactStore)
Report ==
  [content : Dataset, state : CertificationState,
   audit : Seq([from : CertificationState, to : CertificationState]),
   reasons : Nat, eligible : {"yes", "no", "undecided"}, size : Nat]

\* The report of validate() on content d; len is the length of its text.
Validated(d, len) ==
  [content |-> d, state |-> "VALIDATED", audit |-> <<Hop("NEW", "VALIDATED")>>,
   reasons |-> 0, eligible |-> "undecided", size |-> len]

\* _transition(): nothing leaves REJECTED, and a gate that is not passed
\* rejects with one reason.
Transitioned(report, success, passed) ==
  IF report.state = "REJECTED" THEN report
  ELSE LET to == IF passed THEN success ELSE "REJECTED" IN
       [report EXCEPT !.state = to,
                      !.audit = Append(@, Hop(report.state, to)),
                      !.reasons = IF passed THEN @ ELSE @ + 1]

\* Mutant: a clean report is certified without a hop to VERIFIED.
CertifiedInOneHop(report) ==
  LET passed == PassesVerification(report.content) /\ PassesCertification(report.content)
  IN  [Transitioned([report EXCEPT !.reasons = 0], "CERTIFIED", passed)
         EXCEPT !.audit = IF passed THEN Append(report.audit, Hop("VERIFIED", "CERTIFIED")) ELSE @,
                !.eligible = IF passed THEN "yes" ELSE "no",
                !.size = @ + 1]

\* Mutant: a verified dataset is eligible.
CertifiedEligibleOnceVerified(report) ==
  LET verified == Transitioned([report EXCEPT !.reasons = 0], "VERIFIED",
                               PassesVerification(report.content))
      decided  == Transitioned(verified, "CERTIFIED",
                               PassesCertification(report.content))
  IN  [decided EXCEPT !.eligible = IF verified.state = "VERIFIED" THEN "yes" ELSE "no",
                      !.size = @ + 1]

\* certify(): two gates, and the decision.  Each call starts from an empty
\* list of rejection reasons.
Certified(report) ==
  LET verified == Transitioned([report EXCEPT !.reasons = 0], "VERIFIED",
                               PassesVerification(report.content))
      decided  == Transitioned(verified, "CERTIFIED",
                               PassesCertification(report.content))
  IN  [decided EXCEPT !.eligible = IF decided.state = "CERTIFIED" THEN "yes" ELSE "no",
                      !.size = @ + 1]

-----------------------------------------------------------------------------
(* What a report ought to be                                                *)

\* The audit trail leads from NEW to the stored state without a gap.
TrailExplainsState(report) ==
  LET a == report.audit IN
  /\ a # <<>>
  /\ a[1] = Hop("NEW", "VALIDATED")
  /\ \A i \in 2..Len(a) : a[i].from = a[i - 1].to
  /\ a[Len(a)].to = report.state

\* The decision is the one the rules give on the content, and the only thing
\* that makes a dataset eligible; the content is one that can be validated.
DecidedByRules(report) ==
  /\ ~Raises(report.content)
  /\ report.state \in {"VALIDATED", Verdict(report.content)}
  /\ report.eligible = CASE report.state = "VALIDATED" -> "undecided"
                         [] report.state = "CERTIFIED" -> "yes"
                         [] OTHER -> "no"
=============================================================================
