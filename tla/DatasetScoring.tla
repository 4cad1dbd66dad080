--------------------------- MODULE DatasetScoring ---------------------------
(***************************************************************************)
(* From a dataset to the verdict certify() gives on it: the validators, the *)
(* engines, config/validation_rules.json and the two certification gates.   *)
(* Everything here is constant-level.                                       *)
(*                                                                          *)
(* A dataset is reduced to the counts the validators take from it.  Scores  *)
(* and percentages carry two decimals in the code (round(x, 2)); here they  *)
(* are integers, in hundredths of a point.                                  *)
(***************************************************************************)
EXTENDS Integers, FiniteSets

\* validation_rules.json: required_metadata, and the fields ProvenanceValidator asks for.
RequiredMetadata ==
  {"dataset_name", "owner", "source", "license", "version", "lineage",
   "transformation_log"}
ProvenanceFields == RequiredMetadata \ {"dataset_name"}

\* rows, cols     the shape of the table
\* missing        null cells
\* duplicates     rows that repeat an earlier one
\* absent         columns of schema.json it lacks
\* mistyped       columns of schema.json with another type
\* blank          columns with nulls only
\* outOfRange     rows whose age is a number outside 0..120
\* unknown        required metadata fields without a value
\* textAge        some age is a text
\* nested         some cell is a list or an object, which a JSON file may hold
Dataset ==
  [rows : Nat, cols : Nat, missing : Nat, duplicates : Nat, absent : 0..4,
   mistyped : 0..4, blank : Nat, outOfRange : Nat, unknown : SUBSET RequiredMetadata,
   textAge : BOOLEAN, nested : BOOLEAN]

\* The counts of a table that can exist: blank columns are blank in every
\* row, the first of a group of equal rows is no duplicate, null ages are not
\* compared with the bounds, and a column with texts is not of type int64.
Possible(d) ==
  /\ d.missing <= d.rows * d.cols
  /\ d.blank <= d.cols
  /\ d.blank * d.rows <= d.missing
  /\ d.rows = 0 => d.blank = d.cols
  /\ d.duplicates = 0 \/ d.duplicates < d.rows
  /\ d.absent + d.mistyped <= 4
  /\ 4 - d.absent <= d.cols
  /\ d.outOfRange <= d.rows
  /\ d.outOfRange > 0 => d.absent < 4
  /\ d.textAge => d.absent < 4 /\ d.mistyped > 0 /\ d.outOfRange < d.rows
  /\ d.textAge \/ d.nested => d.missing < d.rows * d.cols

\* A text is not compared with a number, and duplicated(), which the profiler
\* calls first, cannot hash a list or an object: validate() raises a TypeError,
\* and the table has no report.
Raises(d) == d.textAge \/ d.nested

\* a / b, to the nearest integer and on a tie to the even one.
Nearest(a, b) ==
  LET q == a \div b
      r == 2 * (a % b)
  IN  IF r > b \/ (r = b /\ q % 2 = 1) THEN q + 1 ELSE q

\* round(100 * part / whole, 2).
Percentage(part, whole) == Nearest(10000 * part, whole)

AtLeastZero(score) == IF score < 0 THEN 0 ELSE score

\* Mutant: blank columns are left out of the count.
CompletenessScoreOfFilled(d) ==
  LET cells == d.rows * (d.cols - d.blank) IN
  IF cells = 0 THEN 0 ELSE Percentage(cells - (d.missing - d.blank * d.rows), cells)

CompletenessScore(d) ==
  LET cells == d.rows * d.cols IN
  IF cells = 0 THEN 0 ELSE Percentage(cells - d.missing, cells)

DuplicatePercentage(d) == IF d.rows = 0 THEN 0 ELSE Percentage(d.duplicates, d.rows)

DuplicateScore(d) == AtLeastZero(10000 - DuplicatePercentage(d))

ConsistencyScore(d) == AtLeastZero(10000 - 1000 * d.blank)

SchemaScore(d) == AtLeastZero(10000 - 2000 * d.absent - 1000 * d.mistyped)

FieldScore(fields, unknown) ==
  Percentage(Cardinality(fields \ unknown), Cardinality(fields))

MetadataScore(d) == FieldScore(RequiredMetadata, d.unknown)

ProvenanceScore(d) == FieldScore(ProvenanceFields, d.unknown)

\* At most one column has bounds, so at most one violation is counted.
Violations(d) == IF d.outOfRange > 0 THEN 1 ELSE 0

IntegrityScore(d) == AtLeastZero(10000 - 2000 * Violations(d))

\* ScoringEngine: the weighted mean of the seven scores.
OverallScore(d) ==
  LET total == 20 * SchemaScore(d) + 20 * CompletenessScore(d)
                 + 10 * DuplicateScore(d) + 15 * ConsistencyScore(d)
                 + 10 * MetadataScore(d) + 15 * ProvenanceScore(d)
                 + 10 * IntegrityScore(d)
  IN  Nearest(total, 100)

\* Mutant: no flag for a gap in the metadata.
RiskFlagsWithoutMetadata(d) ==
  {flag \in {"LOW_COMPLETENESS", "HIGH_DUPLICATION", "SCHEMA_VIOLATION",
             "PROVENANCE_GAP", "INTEGRITY_BOUNDARY_VIOLATION"} :
     \/ flag = "LOW_COMPLETENESS" /\ CompletenessScore(d) < 9000
     \/ flag = "HIGH_DUPLICATION" /\ DuplicatePercentage(d) > 500
     \/ flag = "SCHEMA_VIOLATION" /\ SchemaScore(d) < 9000
     \/ flag = "PROVENANCE_GAP" /\ ProvenanceScore(d) < 8000
     \/ flag = "INTEGRITY_BOUNDARY_VIOLATION" /\ Violations(d) > 0}

\* RiskEngine.
RiskFlags(d) ==
  {flag \in {"LOW_COMPLETENESS", "HIGH_DUPLICATION", "SCHEMA_VIOLATION",
             "PROVENANCE_GAP", "METADATA_GAP", "INTEGRITY_BOUNDARY_VIOLATION"} :
     \/ flag = "LOW_COMPLETENESS" /\ CompletenessScore(d) < 9000
     \/ flag = "HIGH_DUPLICATION" /\ DuplicatePercentage(d) > 500
     \/ flag = "SCHEMA_VIOLATION" /\ SchemaScore(d) < 9000
     \/ flag = "PROVENANCE_GAP" /\ ProvenanceScore(d) < 8000
     \/ flag = "METADATA_GAP" /\ MetadataScore(d) < 8000
     \/ flag = "INTEGRITY_BOUNDARY_VIOLATION" /\ Violations(d) > 0}

\* Mutant: duplicates are recommended away only when they are a risk.
RecommendationsOnRisk(d) ==
  {rec \in {"REMOVE_DUPLICATES", "FIX_VIOLATIONS", "HANDLE_MISSING_VALUES"} :
     \/ rec = "REMOVE_DUPLICATES" /\ DuplicatePercentage(d) > 500
     \/ rec = "FIX_VIOLATIONS" /\ Violations(d) > 0
     \/ rec = "HANDLE_MISSING_VALUES" /\ CompletenessScore(d) < 10000}

\* RecommendationEngine.
Recommendations(d) ==
  {rec \in {"REMOVE_DUPLICATES", "FIX_VIOLATIONS", "HANDLE_MISSING_VALUES"} :
     \/ rec = "REMOVE_DUPLICATES" /\ d.duplicates > 0
     \/ rec = "FIX_VIOLATIONS" /\ Violations(d) > 0
     \/ rec = "HANDLE_MISSING_VALUES" /\ CompletenessScore(d) < 10000}

\* ClassificationEngine.
Classification(d) ==
  CASE OverallScore(d) >= 9000 -> "Trusted"
    [] OverallScore(d) \in 7500..8999 -> "Reliable"
    [] OverallScore(d) \in 6000..7499 -> "Review Required"
    [] OTHER -> "High Risk"

\* VALIDATION_SCORE_AND_RISK_GATE.
PassesVerification(d) ==
  /\ OverallScore(d) >= 7500
  /\ RiskFlags(d) = {}
  /\ MetadataScore(d) >= 8000
  /\ ProvenanceScore(d) >= 8000
  /\ IntegrityScore(d) >= 8000

\* The condition of MASTERDB_CERTIFICATION_GATE on the report.
PassesCertification(d) ==
  /\ Classification(d) = "Trusted"
  /\ OverallScore(d) >= 9000
  /\ RiskFlags(d) = {}
  /\ Recommendations(d) = {}

\* Both gates: what a first certify() of a report on d comes to, if d has one.
Verdict(d) ==
  IF Raises(d) THEN "NO_REPORT"
  ELSE IF PassesVerification(d) /\ PassesCertification(d) THEN "CERTIFIED"
  ELSE "REJECTED"
=============================================================================
