--------------------------- MODULE DatasetRepair ---------------------------
(***************************************************************************)
(* The verdict on a dataset while its owner fixes one defect after another, *)
(* until nothing is left to fix: what the rules of DatasetScoring come to.  *)
(***************************************************************************)
EXTENDS DatasetScoring

VARIABLE dataset

Smaller(n) == IF n = 0 THEN {} ELSE {n - 1}

\* One defect less, in a table of the same shape.
Repair ==
  /\ \/ \E m \in Smaller(dataset.missing) : dataset' = [dataset EXCEPT !.missing = m]
     \/ \E b \in Smaller(dataset.blank) : dataset' = [dataset EXCEPT !.blank = b]
     \/ \E n \in Smaller(dataset.duplicates) : dataset' = [dataset EXCEPT !.duplicates = n]
     \/ \E n \in Smaller(dataset.mistyped), t \in {FALSE, dataset.textAge} :
          dataset' = [dataset EXCEPT !.mistyped = n, !.textAge = t]
     \/ dataset.nested /\ dataset' = [dataset EXCEPT !.nested = FALSE]
     \/ \E n \in Smaller(dataset.absent) : dataset' = [dataset EXCEPT !.absent = n]
     \/ \E n \in Smaller(dataset.outOfRange) : dataset' = [dataset EXCEPT !.outOfRange = n]
     \/ \E f \in dataset.unknown : dataset' = [dataset EXCEPT !.unknown = @ \ {f}]
  /\ Possible(dataset')

\* Any dataset that can exist, of any size.
RepairSpec == dataset \in Dataset /\ Possible(dataset) /\ [][Repair]_dataset

-----------------------------------------------------------------------------
(* Properties                                                               *)

\* What makes a dataset eligible, without a score: cells, none of them null, a
\* list or an object, ages without a text, no repeated and no out-of-range row,
\* at most one mistyped and no absent column, and at most one required metadata
\* field unknown.
Eligible(d) ==
  /\ ~Raises(d)
  /\ d.rows * d.cols > 0
  /\ d.missing = 0 /\ d.duplicates = 0 /\ d.outOfRange = 0
  /\ d.absent = 0 /\ d.mistyped <= 1
  /\ Cardinality(d.unknown) <= 1

\* With 20000 cells, one null cell is rounded away.
FewCells(d) == d.rows * d.cols < 20000

\* The weights and thresholds of the rules file never decide on their own: a
\* dataset with fewer than 20000 cells is certified exactly if it is Eligible.
\* ("Dataset is trusted, clean, and eligible", certification_service.py:55.)
CertifiedIffEligible ==
  FewCells(dataset) => (Verdict(dataset) = "CERTIFIED" <=> Eligible(dataset))

\* A flagged dataset never passes for Trusted with a clean bill: what the
\* certification gate accepts, the verification gate accepts too.
GatesAreNested ==
  ~Raises(dataset) /\ PassesCertification(dataset) => PassesVerification(dataset)

\* Fixing a defect of a dataset that has a report never costs points, raises a
\* risk flag, adds a recommendation or loses the report, whatever is rounded on
\* the way.
RepairNeverHurts ==
  [][~Raises(dataset) =>
       /\ ~Raises(dataset')
       /\ OverallScore(dataset') >= OverallScore(dataset)
       /\ RiskFlags(dataset') \subseteq RiskFlags(dataset)
       /\ Recommendations(dataset') \subseteq Recommendations(dataset)]_dataset

\* certification_service.py:55 of a certified dataset: it is clean.
CertifiedIsClean ==
  Verdict(dataset) = "CERTIFIED" => dataset.missing = 0 /\ dataset.duplicates = 0
=============================================================================
