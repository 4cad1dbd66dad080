------------------------- MODULE CertificationProofs -------------------------
(***************************************************************************)
(* Theorems about Certification, for any number of workers, ids, contents,  *)
(* requests, replacements and crashes, and about the rules it certifies by, *)
(* for datasets of any size.                                                *)
(*                                                                          *)
(* First the rules on a dataset: which datasets they certify, and what a    *)
(* repair does to the scores.  Then what validate() and certify() make of a *)
(* report: the rules enter only through PassesVerification and              *)
(* PassesCertification, and no score is computed any more.  Then the files: *)
(* what a handler holds may be stored at any later time, so it has to be as *)
(* good as what is stored.                                                  *)
(***************************************************************************)
EXTENDS Certification, DatasetRepair, FiniteSetTheorems, TLAPS

-----------------------------------------------------------------------------
(* The rules on a dataset                                                   *)

\* Nearest is within half of the quotient, ...
LEMMA NearestFact ==
  ASSUME NEW a \in Int, NEW b \in Nat \ {0}
  PROVE  /\ Nearest(a, b) \in Int
         /\ 2 * (b * Nearest(a, b)) <= 2 * a + b
         /\ 2 * a - b <= 2 * (b * Nearest(a, b))
  <1> DEFINE q == a \div b
             r == a % b
  <1>1. q \in Int /\ r \in 0..(b - 1) /\ a = b * q + r
    OBVIOUS
  <1> HIDE DEF q, r
  <1>2. b * (q + 1) = b * q + b /\ b * q \in Int
    BY <1>1
  <1>3. Nearest(a, b) = IF 2 * r > b \/ (2 * r = b /\ q % 2 = 1) THEN q + 1 ELSE q
    BY DEF Nearest, q, r
  <1>4. CASE Nearest(a, b) = q + 1 /\ 2 * r >= b
    BY <1>1, <1>2, <1>4
  <1>5. CASE Nearest(a, b) = q /\ 2 * r <= b
    BY <1>1, <1>2, <1>5
  <1> QED
    BY <1>1, <1>3, <1>4, <1>5

\* ... and rounding keeps the order.
LEMMA NearestInOrder ==
  ASSUME NEW a \in Int, NEW c \in Int, a <= c, NEW b \in Nat \ {0}
  PROVE  Nearest(a, b) <= Nearest(c, b)
  <1> DEFINE m == Nearest(a, b)
             n == Nearest(c, b)
  <1>1. /\ m \in Int /\ n \in Int
        /\ 2 * (b * m) <= 2 * a + b /\ 2 * c - b <= 2 * (b * n)
    BY NearestFact
  <1>2. CASE a = c
    BY <1>1, <1>2
  <1>3. CASE a < c
    <2> HIDE DEF m, n
    <2> SUFFICES ASSUME m >= n + 1 PROVE FALSE
      BY <1>1 DEF m, n
    <2>1. b * m >= b * (n + 1) /\ b * (n + 1) = b * n + b
      BY <1>1
    <2>2. b * m \in Int /\ b * n \in Int
      BY <1>1
    <2> QED
      BY <1>1, <1>3, <2>1, <2>2
  <1> QED
    BY <1>2, <1>3

\* More of the whole is no smaller percentage.
LEMMA PercentageInOrder ==
  ASSUME NEW whole \in Nat \ {0}, NEW part \in Int, NEW more \in Int, part <= more
  PROVE  Percentage(part, whole) <= Percentage(more, whole)
  <1>1. 10000 * part \in Int /\ 10000 * more \in Int /\ 10000 * part <= 10000 * more
    OBVIOUS
  <1> QED
    BY <1>1, NearestInOrder DEF Percentage

\* A percentage of the whole is full, and of nothing it is nil.
LEMMA PercentageFact ==
  ASSUME NEW whole \in Nat \ {0}
  PROVE  /\ \A part \in Int : Percentage(part, whole) \in Int
         /\ Percentage(whole, whole) = 10000 /\ Percentage(0, whole) = 0
  <1>1. ASSUME NEW part \in Int PROVE Percentage(part, whole) \in Int
    BY NearestFact DEF Percentage
  <1>2. Percentage(whole, whole) = 10000
    <2>1. (10000 * whole) \div whole = 10000 /\ (10000 * whole) % whole = 0
      <3> DEFINE q == (10000 * whole) \div whole
                 r == (10000 * whole) % whole
      <3>1. q \in Int /\ r \in 0..(whole - 1) /\ 10000 * whole = whole * q + r
        OBVIOUS
      <3> HIDE DEF q, r
      <3>2. whole * (10000 - q) = 10000 * whole - whole * q
        BY <3>1
      <3>3. whole * (10000 - q) = r
        BY <3>1, <3>2
      <3>4. CASE 10000 - q >= 1
        <4>1. whole * (10000 - q) >= whole
          BY <3>1, <3>4
        <4> QED
          BY <3>1, <3>3, <4>1
      <3>5. CASE 10000 - q <= -1
        <4>1. whole * (10000 - q) <= -whole
          BY <3>1, <3>5
        <4> QED
          BY <3>1, <3>3, <4>1
      <3>6. CASE 10000 - q = 0
        BY <3>1, <3>3, <3>6 DEF q, r
      <3> QED
        BY <3>1, <3>4, <3>5, <3>6
    <2> QED
      BY <2>1 DEF Percentage, Nearest
  <1>3. Percentage(0, whole) = 0
    <2>1. 0 \div whole = 0 /\ 0 % whole = 0
      OBVIOUS
    <2> QED
      BY <2>1 DEF Percentage, Nearest
  <1> QED
    BY <1>1, <1>2, <1>3

\* Below 20000 cells no null cell is rounded away.
LEMMA FewAreCounted ==
  ASSUME NEW whole \in Nat \ {0}, whole < 20000, NEW part \in Int, part < whole
  PROVE  Percentage(part, whole) < 10000
  <1> DEFINE p == Percentage(part, whole)
  <1>1. 10000 * part \in Int
    OBVIOUS
  <1>2. p \in Int /\ 2 * (whole * p) <= 2 * (10000 * part) + whole
    BY <1>1, NearestFact DEF Percentage
  <1> HIDE DEF p
  <1> SUFFICES ASSUME p >= 10000 PROVE FALSE
    BY <1>2 DEF p
  <1>3. whole * p >= whole * 10000
    BY <1>2
  <1>4. whole * p \in Int /\ whole * 10000 \in Int
    BY <1>2
  <1> QED
    BY <1>2, <1>3, <1>4

\* There are seven required fields; six of them are asked for as provenance.
LEMMA FieldsFact ==
  /\ IsFiniteSet(RequiredMetadata) /\ Cardinality(RequiredMetadata) = 7
  /\ IsFiniteSet(ProvenanceFields) /\ Cardinality(ProvenanceFields) = 6
  /\ ProvenanceFields \subseteq RequiredMetadata
  <1> DEFINE A == {"owner"}
             B == A \cup {"source"}
             C == B \cup {"license"}
             D == C \cup {"version"}
             E == D \cup {"lineage"}
             F == E \cup {"transformation_log"}
             G == F \cup {"dataset_name"}
  <1>1. IsFiniteSet(A) /\ Cardinality(A) = 1
    BY FS_Singleton
  <1>2. IsFiniteSet(B) /\ Cardinality(B) = 2
    BY <1>1, FS_AddElement
  <1> HIDE DEF B
  <1>3. "license" \notin B
    BY DEF B
  <1>4. IsFiniteSet(C) /\ Cardinality(C) = 3
    BY <1>2, <1>3, FS_AddElement
  <1> HIDE DEF C
  <1>5. "version" \notin C
    BY DEF B, C
  <1>6. IsFiniteSet(D) /\ Cardinality(D) = 4
    BY <1>4, <1>5, FS_AddElement
  <1> HIDE DEF D
  <1>7. "lineage" \notin D
    BY DEF B, C, D
  <1>8. IsFiniteSet(E) /\ Cardinality(E) = 5
    BY <1>6, <1>7, FS_AddElement
  <1> HIDE DEF E
  <1>9. "transformation_log" \notin E
    BY DEF B, C, D, E
  <1>10. IsFiniteSet(F) /\ Cardinality(F) = 6
    BY <1>8, <1>9, FS_AddElement
  <1> HIDE DEF F
  <1>11. "dataset_name" \notin F
    BY DEF B, C, D, E, F
  <1>12. IsFiniteSet(G) /\ Cardinality(G) = 7
    BY <1>10, <1>11, FS_AddElement
  <1>13. G = RequiredMetadata
    BY DEF B, C, D, E, F, RequiredMetadata
  <1>14. F = ProvenanceFields
    BY <1>11, <1>13 DEF ProvenanceFields
  <1> QED
    BY <1>10, <1>12, <1>13, <1>14

\* How many of the fields are known.
LEMMA KnownFact ==
  ASSUME NEW fields, IsFiniteSet(fields), NEW unknown
  PROVE  /\ Cardinality(fields \ unknown) \in 0..Cardinality(fields)
         /\ Cardinality(fields) \in Nat
         /\ \A less \in SUBSET unknown :
              Cardinality(fields \ unknown) <= Cardinality(fields \ less)
  <1>1. fields \ unknown \in SUBSET fields
    OBVIOUS
  <1>2. /\ Cardinality(fields \ unknown) <= Cardinality(fields)
        /\ Cardinality(fields \ unknown) \in Nat /\ Cardinality(fields) \in Nat
    BY <1>1, FS_Subset, FS_CardinalityType
  <1>3. ASSUME NEW less \in SUBSET unknown
        PROVE  Cardinality(fields \ unknown) <= Cardinality(fields \ less)
    <2>1. IsFiniteSet(fields \ less) /\ fields \ unknown \in SUBSET (fields \ less)
      BY FS_Difference
    <2> QED
      BY <2>1, FS_Subset
  <1> QED
    BY <1>2, <1>3

LEMMA FieldScoreFact ==
  ASSUME NEW fields, IsFiniteSet(fields), Cardinality(fields) # 0, NEW unknown
  PROVE  /\ FieldScore(fields, unknown) \in Int
         /\ \A less \in SUBSET unknown :
              FieldScore(fields, unknown) <= FieldScore(fields, less)
  <1>1. Cardinality(fields) \in Nat \ {0}
    BY FS_CardinalityType
  <1>2. ASSUME NEW u PROVE Cardinality(fields \ u) \in Int
    <2>1. fields \ u \in SUBSET fields
      OBVIOUS
    <2>2. IsFiniteSet(fields \ u)
      BY <2>1, FS_Subset
    <2> QED
      BY <2>2, FS_CardinalityType
  <1>3. FieldScore(fields, unknown) \in Int
    <2> DEFINE k == Cardinality(fields \ unknown)
               n == Cardinality(fields)
    <2>1. k \in Int /\ n \in Nat \ {0} /\ FieldScore(fields, unknown) = Percentage(k, n)
      BY <1>1, <1>2 DEF FieldScore
    <2> HIDE DEF k, n
    <2> QED
      BY <2>1, PercentageFact
  <1>4. ASSUME NEW less \in SUBSET unknown
        PROVE  FieldScore(fields, unknown) <= FieldScore(fields, less)
    <2> DEFINE k == Cardinality(fields \ unknown)
               m == Cardinality(fields \ less)
               n == Cardinality(fields)
    <2>1. k \in Int /\ m \in Int /\ n \in Nat \ {0}
      BY <1>1, <1>2
    <2>2. k <= m
      BY <1>4, KnownFact
    <2>3. /\ FieldScore(fields, unknown) = Percentage(k, n)
          /\ FieldScore(fields, less) = Percentage(m, n)
      BY DEF FieldScore
    <2> HIDE DEF k, m, n
    <2> QED
      BY <2>1, <2>2, <2>3, PercentageInOrder
  <1> QED
    BY <1>3, <1>4

\* The scores are numbers.
LEMMA ScoresFact ==
  ASSUME NEW d \in Dataset
  PROVE  /\ CompletenessScore(d) \in Int /\ DuplicatePercentage(d) \in Int
         /\ DuplicateScore(d) \in Int /\ ConsistencyScore(d) \in Int /\ SchemaScore(d) \in Int
         /\ MetadataScore(d) \in Int /\ ProvenanceScore(d) \in Int
         /\ Violations(d) \in {0, 1} /\ IntegrityScore(d) \in Int
         /\ OverallScore(d) \in Int
  <1>1. /\ d.rows \in Nat /\ d.cols \in Nat /\ d.missing \in Nat /\ d.duplicates \in Nat
        /\ d.absent \in Nat /\ d.mistyped \in Nat /\ d.blank \in Nat /\ d.outOfRange \in Nat
    BY DEF Dataset
  <1>2. d.rows * d.cols \in Nat
    BY <1>1
  <1>3. CompletenessScore(d) \in Int
    <2>1. d.rows * d.cols - d.missing \in Int
      BY <1>1, <1>2
    <2> QED
      BY <1>2, <2>1, PercentageFact DEF CompletenessScore
  <1>4. DuplicatePercentage(d) \in Int
    BY <1>1, PercentageFact DEF DuplicatePercentage
  <1>5. DuplicateScore(d) \in Int /\ ConsistencyScore(d) \in Int /\ SchemaScore(d) \in Int
    BY <1>1, <1>4 DEF DuplicateScore, ConsistencyScore, SchemaScore, AtLeastZero
  <1>6. MetadataScore(d) \in Int /\ ProvenanceScore(d) \in Int
    BY FieldsFact, FieldScoreFact DEF MetadataScore, ProvenanceScore
  <1>7. Violations(d) \in {0, 1} /\ IntegrityScore(d) \in Int
    BY DEF Violations, IntegrityScore, AtLeastZero
  <1>8. OverallScore(d) \in Int
    <2> DEFINE total == 20 * SchemaScore(d) + 20 * CompletenessScore(d)
                          + 10 * DuplicateScore(d) + 15 * ConsistencyScore(d)
                          + 10 * MetadataScore(d) + 15 * ProvenanceScore(d)
                          + 10 * IntegrityScore(d)
    <2>1. total \in Int
      BY <1>3, <1>5, <1>6, <1>7
    <2>2. OverallScore(d) = Nearest(total, 100)
      BY DEF OverallScore
    <2> HIDE DEF total
    <2> QED
      BY <2>1, <2>2, NearestFact
  <1> QED
    BY <1>3, <1>4, <1>5, <1>6, <1>7, <1>8

\* The flags and the recommendations, one by one.
LEMMA WhatIsFlagged ==
  ASSUME NEW d
  PROVE  /\ RiskFlags(d) \subseteq {"LOW_COMPLETENESS", "HIGH_DUPLICATION", "SCHEMA_VIOLATION",
                                   "PROVENANCE_GAP", "METADATA_GAP",
                                   "INTEGRITY_BOUNDARY_VIOLATION"}
         /\ "LOW_COMPLETENESS" \in RiskFlags(d) <=> CompletenessScore(d) < 9000
         /\ "HIGH_DUPLICATION" \in RiskFlags(d) <=> DuplicatePercentage(d) > 500
         /\ "SCHEMA_VIOLATION" \in RiskFlags(d) <=> SchemaScore(d) < 9000
         /\ "PROVENANCE_GAP" \in RiskFlags(d) <=> ProvenanceScore(d) < 8000
         /\ "METADATA_GAP" \in RiskFlags(d) <=> MetadataScore(d) < 8000
         /\ "INTEGRITY_BOUNDARY_VIOLATION" \in RiskFlags(d) <=> Violations(d) > 0
  BY DEF RiskFlags

LEMMA WhatIsRecommended ==
  ASSUME NEW d
  PROVE  /\ Recommendations(d) \subseteq {"REMOVE_DUPLICATES", "FIX_VIOLATIONS",
                                         "HANDLE_MISSING_VALUES"}
         /\ "REMOVE_DUPLICATES" \in Recommendations(d) <=> d.duplicates > 0
         /\ "FIX_VIOLATIONS" \in Recommendations(d) <=> Violations(d) > 0
         /\ "HANDLE_MISSING_VALUES" \in Recommendations(d) <=> CompletenessScore(d) < 10000
  BY DEF Recommendations

\* What the certification gate accepts, the verification gate accepts.
LEMMA NestedFact ==
  ASSUME NEW d \in Dataset, PassesCertification(d)
  PROVE  PassesVerification(d)
  <1>1. RiskFlags(d) = {} /\ OverallScore(d) >= 9000
    BY DEF PassesCertification
  <1>2. /\ OverallScore(d) \in Int /\ MetadataScore(d) \in Int /\ ProvenanceScore(d) \in Int
        /\ Violations(d) \in {0, 1}
    BY ScoresFact
  <1>3. /\ ~(ProvenanceScore(d) < 8000) /\ ~(MetadataScore(d) < 8000) /\ Violations(d) = 0
    BY <1>1, <1>2, WhatIsFlagged
  <1>4. IntegrityScore(d) = 10000
    BY <1>3 DEF IntegrityScore, AtLeastZero
  <1> QED
    BY <1>1, <1>2, <1>3, <1>4 DEF PassesVerification

\* What is certified is clean.
LEMMA CertifiedIsEligible ==
  ASSUME NEW d \in Dataset, FewCells(d), Verdict(d) = "CERTIFIED"
  PROVE  Eligible(d)
  <1> DEFINE cells == d.rows * d.cols
  <1>1. PassesCertification(d) /\ ~Raises(d)
    BY DEF Verdict
  <1>2. RiskFlags(d) = {} /\ Recommendations(d) = {}
    BY <1>1 DEF PassesCertification
  <1>3. /\ d.rows \in Nat /\ d.cols \in Nat /\ d.missing \in Nat /\ d.duplicates \in Nat
        /\ d.absent \in Nat /\ d.mistyped \in Nat /\ d.outOfRange \in Nat
        /\ d.unknown \subseteq RequiredMetadata
    BY DEF Dataset
  <1>4. cells \in Nat /\ cells < 20000
    BY <1>3 DEF FewCells
  <1>5. /\ CompletenessScore(d) \in Int /\ SchemaScore(d) \in Int /\ MetadataScore(d) \in Int
        /\ Violations(d) \in {0, 1}
    BY ScoresFact
  <1>6. d.duplicates = 0 /\ Violations(d) = 0 /\ CompletenessScore(d) >= 10000
    BY <1>2, <1>3, <1>5, WhatIsRecommended
  <1>7. SchemaScore(d) >= 9000 /\ MetadataScore(d) >= 8000
    BY <1>2, <1>5, WhatIsFlagged
  <1>8. d.outOfRange = 0
    BY <1>3, <1>6 DEF Violations
  <1>9. d.absent = 0 /\ d.mistyped <= 1
    BY <1>3, <1>7 DEF SchemaScore, AtLeastZero
  <1>10. cells > 0
    BY <1>4, <1>6 DEF CompletenessScore
  <1>11. d.missing = 0
    <2>1. CompletenessScore(d) = Percentage(cells - d.missing, cells)
      BY <1>4, <1>10 DEF CompletenessScore
    <2> HIDE DEF cells
    <2> SUFFICES ASSUME d.missing > 0 PROVE FALSE
      BY <1>3
    <2>2. cells - d.missing \in Int /\ cells - d.missing < cells
      BY <1>3, <1>4
    <2>3. Percentage(cells - d.missing, cells) < 10000
      BY <1>4, <1>10, <2>2, FewAreCounted
    <2> QED
      BY <1>5, <1>6, <2>1, <2>3
  <1>12. Cardinality(d.unknown) <= 1
    <2> DEFINE n == Cardinality(d.unknown)
    <2>1. IsFiniteSet(d.unknown) /\ n \in Nat /\ n <= 7
      BY <1>3, FieldsFact, FS_Subset, FS_CardinalityType
    <2>2. RequiredMetadata \cap d.unknown = d.unknown
      BY <1>3
    <2>3. Cardinality(RequiredMetadata \ d.unknown) = 7 - n
      BY <2>2, FieldsFact, FS_Difference
    <2>4. MetadataScore(d) = Percentage(7 - n, 7)
      BY <2>3, FieldsFact DEF MetadataScore, FieldScore
    <2> HIDE DEF n
    <2> SUFFICES ASSUME n >= 2 PROVE FALSE
      BY <2>1 DEF n
    <2>5. Percentage(7 - n, 7) <= Percentage(5, 7)
      <3>1. 7 - n \in Int /\ 7 - n <= 5
        BY <2>1
      <3> QED
        BY <3>1, PercentageInOrder
    <2>6. Percentage(5, 7) = 7143
      BY DEF Percentage, Nearest
    <2> QED
      BY <1>5, <1>7, <2>4, <2>5, <2>6
  <1> QED
    BY <1>1, <1>6, <1>8, <1>9, <1>10, <1>11, <1>12 DEF Eligible

\* What is clean is certified.
LEMMA EligibleIsCertified ==
  ASSUME NEW d \in Dataset, Possible(d), Eligible(d)
  PROVE  Verdict(d) = "CERTIFIED"
  <1> DEFINE cells == d.rows * d.cols
  <1>1. /\ d.rows \in Nat /\ d.cols \in Nat /\ d.mistyped \in Nat /\ d.blank \in Nat
        /\ d.unknown \subseteq RequiredMetadata
    BY DEF Dataset
  <1>2. /\ cells \in Nat /\ cells > 0 /\ d.missing = 0 /\ d.duplicates = 0 /\ d.outOfRange = 0
        /\ d.absent = 0 /\ d.mistyped <= 1 /\ Cardinality(d.unknown) <= 1
        /\ ~Raises(d)
    BY <1>1 DEF Eligible
  <1>3. d.rows # 0 /\ d.rows \in Nat \ {0}
    BY <1>1, <1>2
  <1>4. d.blank = 0
    <2>1. d.blank * d.rows <= 0
      BY <1>2 DEF Possible
    <2> QED
      BY <1>1, <1>3, <2>1
  <1>5. CompletenessScore(d) = 10000
    <2>1. CompletenessScore(d) = Percentage(cells, cells)
      BY <1>2 DEF CompletenessScore
    <2> HIDE DEF cells
    <2> QED
      BY <1>2, <2>1, PercentageFact
  <1>6. DuplicatePercentage(d) = 0 /\ DuplicateScore(d) = 10000
    BY <1>2, <1>3, PercentageFact DEF DuplicatePercentage, DuplicateScore, AtLeastZero
  <1>7. ConsistencyScore(d) = 10000 /\ SchemaScore(d) \in Int /\ SchemaScore(d) >= 9000
    BY <1>1, <1>2, <1>4 DEF ConsistencyScore, SchemaScore, AtLeastZero
  <1>8. Violations(d) = 0 /\ IntegrityScore(d) = 10000
    BY <1>2 DEF Violations, IntegrityScore, AtLeastZero
  <1>9. IsFiniteSet(d.unknown)
    BY <1>1, FieldsFact, FS_Subset
  <1>10. MetadataScore(d) \in Int /\ MetadataScore(d) >= 8571
    <2> DEFINE k == Cardinality(RequiredMetadata \ d.unknown)
    <2>1. RequiredMetadata \cap d.unknown = d.unknown
      BY <1>1
    <2>2. k = 7 - Cardinality(d.unknown) /\ Cardinality(d.unknown) \in Nat
      <3>1. k = Cardinality(RequiredMetadata) - Cardinality(RequiredMetadata \cap d.unknown)
        BY FieldsFact, FS_Difference
      <3>2. Cardinality(d.unknown) \in Nat
        BY <1>9, FS_CardinalityType
      <3> QED
        BY <2>1, <3>1, <3>2, FieldsFact
    <2>3. k \in Int /\ 6 <= k /\ MetadataScore(d) = Percentage(k, 7)
      BY <1>2, <2>2, FieldsFact DEF MetadataScore, FieldScore
    <2>4. Percentage(6, 7) = 8571
      BY DEF Percentage, Nearest
    <2> HIDE DEF k
    <2> QED
      BY <2>3, <2>4, PercentageInOrder, ScoresFact
  <1>11. ProvenanceScore(d) \in Int /\ ProvenanceScore(d) >= 8333
    <2> DEFINE k == Cardinality(ProvenanceFields \ d.unknown)
               u == ProvenanceFields \cap d.unknown
    <2>1. Cardinality(u) <= Cardinality(d.unknown) /\ Cardinality(u) \in Nat
          /\ Cardinality(d.unknown) \in Nat
      BY <1>9, FS_Subset, FS_CardinalityType
    <2>2. k = 6 - Cardinality(u)
      BY FieldsFact, FS_Difference
    <2>3. k \in Int /\ 5 <= k /\ ProvenanceScore(d) = Percentage(k, 6)
      BY <1>2, <2>1, <2>2, FieldsFact DEF ProvenanceScore, FieldScore
    <2>4. Percentage(5, 6) = 8333
      BY DEF Percentage, Nearest
    <2> HIDE DEF k
    <2> QED
      BY <2>3, <2>4, PercentageInOrder, ScoresFact
  <1>12. OverallScore(d) \in Int /\ OverallScore(d) >= 9000
    <2> DEFINE total == 20 * SchemaScore(d) + 20 * CompletenessScore(d)
                          + 10 * DuplicateScore(d) + 15 * ConsistencyScore(d)
                          + 10 * MetadataScore(d) + 15 * ProvenanceScore(d)
                          + 10 * IntegrityScore(d)
    <2>1. total \in Int /\ total >= 900000
      BY <1>5, <1>6, <1>7, <1>8, <1>10, <1>11
    <2>2. OverallScore(d) = Nearest(total, 100)
      BY DEF OverallScore
    <2> HIDE DEF total
    <2>3. Nearest(900000, 100) = 9000
      BY DEF Nearest
    <2> QED
      BY <2>1, <2>2, <2>3, NearestInOrder, NearestFact
  <1>13. RiskFlags(d) = {}
    BY <1>5, <1>6, <1>7, <1>8, <1>10, <1>11, WhatIsFlagged
  <1>14. Recommendations(d) = {}
    BY <1>2, <1>5, <1>8, WhatIsRecommended
  <1>15. Classification(d) = "Trusted"
    BY <1>12 DEF Classification
  <1>16. PassesCertification(d)
    BY <1>12, <1>13, <1>14, <1>15 DEF PassesCertification
  <1> QED
    BY <1>2, <1>16, NestedFact DEF Verdict

\* A table of the same shape that has no defect more.
NoWorse(d, e) ==
  /\ e.rows = d.rows /\ e.cols = d.cols
  /\ e.missing <= d.missing /\ e.blank <= d.blank /\ e.duplicates <= d.duplicates
  /\ e.absent <= d.absent /\ e.mistyped <= d.mistyped /\ e.outOfRange <= d.outOfRange
  /\ e.unknown \subseteq d.unknown
  /\ Raises(e) => Raises(d)

\* It has no score below, ...
LEMMA NoScoreFalls ==
  ASSUME NEW d \in Dataset, NEW e \in Dataset, NoWorse(d, e)
  PROVE  /\ CompletenessScore(d) <= CompletenessScore(e)
         /\ DuplicatePercentage(e) <= DuplicatePercentage(d)
         /\ SchemaScore(d) <= SchemaScore(e)
         /\ MetadataScore(d) <= MetadataScore(e) /\ ProvenanceScore(d) <= ProvenanceScore(e)
         /\ Violations(e) <= Violations(d)
         /\ OverallScore(d) <= OverallScore(e)
  <1>1. /\ d.rows \in Nat /\ d.cols \in Nat /\ d.missing \in Nat /\ d.duplicates \in Nat
        /\ d.absent \in Nat /\ d.mistyped \in Nat /\ d.blank \in Nat /\ d.outOfRange \in Nat
    BY DEF Dataset
  <1>2. /\ e.missing \in Nat /\ e.duplicates \in Nat /\ e.absent \in Nat /\ e.mistyped \in Nat
        /\ e.blank \in Nat /\ e.outOfRange \in Nat
    BY DEF Dataset
  <1>3. /\ e.rows = d.rows /\ e.cols = d.cols
        /\ e.missing <= d.missing /\ e.blank <= d.blank /\ e.duplicates <= d.duplicates
        /\ e.absent <= d.absent /\ e.mistyped <= d.mistyped /\ e.outOfRange <= d.outOfRange
        /\ e.unknown \subseteq d.unknown
    BY DEF NoWorse
  <1>4. CompletenessScore(d) <= CompletenessScore(e)
    <2> DEFINE cells == d.rows * d.cols
    <2>1. cells \in Nat
      BY <1>1
    <2>2. /\ CompletenessScore(d) = IF cells = 0 THEN 0 ELSE Percentage(cells - d.missing, cells)
          /\ CompletenessScore(e) = IF cells = 0 THEN 0 ELSE Percentage(cells - e.missing, cells)
      BY <1>3 DEF CompletenessScore
    <2> HIDE DEF cells
    <2>3. /\ cells - d.missing \in Int /\ cells - e.missing \in Int
          /\ cells - d.missing <= cells - e.missing
      BY <1>1, <1>2, <1>3, <2>1
    <2>4. CASE cells = 0
      BY <2>2, <2>4
    <2>5. CASE cells # 0
      BY <2>1, <2>2, <2>3, <2>5, PercentageInOrder
    <2> QED
      BY <2>4, <2>5
  <1>5. DuplicatePercentage(e) <= DuplicatePercentage(d)
    <2>1. CASE d.rows = 0
      BY <1>3, <2>1 DEF DuplicatePercentage
    <2>2. CASE d.rows # 0
      BY <1>1, <1>2, <1>3, <2>2, PercentageInOrder DEF DuplicatePercentage
    <2> QED
      BY <2>1, <2>2
  <1>6. DuplicateScore(d) <= DuplicateScore(e)
    BY <1>5, ScoresFact DEF DuplicateScore, AtLeastZero
  <1>7. ConsistencyScore(d) <= ConsistencyScore(e) /\ SchemaScore(d) <= SchemaScore(e)
    BY <1>1, <1>2, <1>3 DEF ConsistencyScore, SchemaScore, AtLeastZero
  <1>8. MetadataScore(d) <= MetadataScore(e) /\ ProvenanceScore(d) <= ProvenanceScore(e)
    BY <1>3, FieldsFact, FieldScoreFact DEF MetadataScore, ProvenanceScore
  <1>9. Violations(e) <= Violations(d) /\ IntegrityScore(d) <= IntegrityScore(e)
    BY <1>1, <1>2, <1>3 DEF Violations, IntegrityScore, AtLeastZero
  <1>10. OverallScore(d) <= OverallScore(e)
    <2> DEFINE total(x) == 20 * SchemaScore(x) + 20 * CompletenessScore(x)
                             + 10 * DuplicateScore(x) + 15 * ConsistencyScore(x)
                             + 10 * MetadataScore(x) + 15 * ProvenanceScore(x)
                             + 10 * IntegrityScore(x)
    <2>1. /\ CompletenessScore(d) \in Int /\ DuplicateScore(d) \in Int
          /\ ConsistencyScore(d) \in Int /\ SchemaScore(d) \in Int /\ MetadataScore(d) \in Int
          /\ ProvenanceScore(d) \in Int /\ IntegrityScore(d) \in Int
      BY ScoresFact
    <2>2. /\ CompletenessScore(e) \in Int /\ DuplicateScore(e) \in Int
          /\ ConsistencyScore(e) \in Int /\ SchemaScore(e) \in Int /\ MetadataScore(e) \in Int
          /\ ProvenanceScore(e) \in Int /\ IntegrityScore(e) \in Int
      BY ScoresFact
    <2>3. total(d) \in Int /\ total(e) \in Int /\ total(d) <= total(e)
      BY <1>4, <1>6, <1>7, <1>8, <1>9, <2>1, <2>2
    <2>4. OverallScore(d) = Nearest(total(d), 100) /\ OverallScore(e) = Nearest(total(e), 100)
      BY DEF OverallScore
    <2> HIDE DEF total
    <2> QED
      BY <2>3, <2>4, NearestInOrder
  <1> QED
    BY <1>4, <1>5, <1>7, <1>8, <1>9, <1>10

\* ... no flag and no recommendation more.
LEMMA NothingIsAdded ==
  ASSUME NEW d \in Dataset, NEW e \in Dataset, NoWorse(d, e)
  PROVE  /\ RiskFlags(e) \subseteq RiskFlags(d)
         /\ Recommendations(e) \subseteq Recommendations(d)
  <1>1. /\ CompletenessScore(d) \in Int /\ DuplicatePercentage(d) \in Int
        /\ SchemaScore(d) \in Int /\ MetadataScore(d) \in Int /\ ProvenanceScore(d) \in Int
        /\ Violations(d) \in Int /\ d.duplicates \in Int
    BY ScoresFact DEF Dataset
  <1>2. /\ CompletenessScore(e) \in Int /\ DuplicatePercentage(e) \in Int
        /\ SchemaScore(e) \in Int /\ MetadataScore(e) \in Int /\ ProvenanceScore(e) \in Int
        /\ Violations(e) \in Int /\ e.duplicates \in Int
    BY ScoresFact DEF Dataset
  <1>3. /\ CompletenessScore(d) <= CompletenessScore(e)
        /\ DuplicatePercentage(e) <= DuplicatePercentage(d)
        /\ SchemaScore(d) <= SchemaScore(e) /\ MetadataScore(d) <= MetadataScore(e)
        /\ ProvenanceScore(d) <= ProvenanceScore(e) /\ Violations(e) <= Violations(d)
        /\ e.duplicates <= d.duplicates
    BY NoScoreFalls DEF NoWorse
  <1>4. RiskFlags(e) \subseteq RiskFlags(d)
    BY <1>1, <1>2, <1>3 DEF RiskFlags
  <1>5. Recommendations(e) \subseteq Recommendations(d)
    BY <1>1, <1>2, <1>3 DEF Recommendations
  <1> QED
    BY <1>4, <1>5

\* A fix leaves a dataset that can exist, and no worse.
LEMMA RepairIsNoWorse ==
  ASSUME dataset \in Dataset, Repair
  PROVE  dataset' \in Dataset /\ Possible(dataset') /\ NoWorse(dataset, dataset')
  <1>1. /\ dataset.rows \in Nat /\ dataset.cols \in Nat /\ dataset.missing \in Nat
        /\ dataset.duplicates \in Nat /\ dataset.absent \in 0..4 /\ dataset.mistyped \in 0..4
        /\ dataset.blank \in Nat /\ dataset.outOfRange \in Nat
        /\ dataset.unknown \subseteq RequiredMetadata
        /\ dataset.textAge \in BOOLEAN /\ dataset.nested \in BOOLEAN
    BY DEF Dataset
  <1>2. ASSUME NEW n \in Nat, NEW m \in Smaller(n) PROVE m \in Nat /\ m <= n
    BY <1>2 DEF Smaller
  <1>3. ASSUME NEW m \in Smaller(dataset.missing), dataset' = [dataset EXCEPT !.missing = m]
        PROVE  dataset' \in Dataset /\ NoWorse(dataset, dataset')
    <2>1. m \in Nat /\ m <= dataset.missing
      BY <1>1, <1>2
    <2> QED
      BY <1>1, <1>3, <2>1 DEF Dataset, NoWorse, Raises
  <1>4. ASSUME NEW m \in Smaller(dataset.blank), dataset' = [dataset EXCEPT !.blank = m]
        PROVE  dataset' \in Dataset /\ NoWorse(dataset, dataset')
    <2>1. m \in Nat /\ m <= dataset.blank
      BY <1>1, <1>2
    <2> QED
      BY <1>1, <1>4, <2>1 DEF Dataset, NoWorse, Raises
  <1>5. ASSUME NEW m \in Smaller(dataset.duplicates), dataset' = [dataset EXCEPT !.duplicates = m]
        PROVE  dataset' \in Dataset /\ NoWorse(dataset, dataset')
    <2>1. m \in Nat /\ m <= dataset.duplicates
      BY <1>1, <1>2
    <2> QED
      BY <1>1, <1>5, <2>1 DEF Dataset, NoWorse, Raises
  <1>6. ASSUME NEW m \in Smaller(dataset.mistyped), NEW t \in {FALSE, dataset.textAge},
               dataset' = [dataset EXCEPT !.mistyped = m, !.textAge = t]
        PROVE  dataset' \in Dataset /\ NoWorse(dataset, dataset')
    <2>1. m \in 0..4 /\ m <= dataset.mistyped
      BY <1>1, <1>2
    <2>2. t \in BOOLEAN /\ (t => dataset.textAge)
      BY <1>1
    <2>3. dataset' \in Dataset
      BY <1>6, <2>1, <2>2 DEF Dataset
    <2>4. Raises(dataset') => Raises(dataset)
      BY <1>6, <2>2 DEF Raises, Dataset
    <2> QED
      BY <1>1, <1>6, <2>1, <2>3, <2>4 DEF Dataset, NoWorse, Raises
  <1>7. ASSUME NEW m \in Smaller(dataset.absent), dataset' = [dataset EXCEPT !.absent = m]
        PROVE  dataset' \in Dataset /\ NoWorse(dataset, dataset')
    <2>1. m \in Nat /\ m <= dataset.absent
      BY <1>1, <1>2
    <2> QED
      BY <1>1, <1>7, <2>1 DEF Dataset, NoWorse, Raises
  <1>8. ASSUME NEW m \in Smaller(dataset.outOfRange), dataset' = [dataset EXCEPT !.outOfRange = m]
        PROVE  dataset' \in Dataset /\ NoWorse(dataset, dataset')
    <2>1. m \in Nat /\ m <= dataset.outOfRange
      BY <1>1, <1>2
    <2> QED
      BY <1>1, <1>8, <2>1 DEF Dataset, NoWorse, Raises
  <1>9. ASSUME NEW f \in dataset.unknown, dataset' = [dataset EXCEPT !.unknown = @ \ {f}]
        PROVE  dataset' \in Dataset /\ NoWorse(dataset, dataset')
    BY <1>1, <1>9 DEF Dataset, NoWorse, Raises
  <1>10. ASSUME dataset.nested, dataset' = [dataset EXCEPT !.nested = FALSE]
         PROVE  dataset' \in Dataset /\ NoWorse(dataset, dataset')
    <2>1. dataset' \in Dataset
      BY <1>1, <1>10 DEF Dataset
    <2>2. Raises(dataset)
      BY <1>10 DEF Raises
    <2>3. /\ dataset'.rows = dataset.rows /\ dataset'.cols = dataset.cols
          /\ dataset'.missing = dataset.missing /\ dataset'.blank = dataset.blank
          /\ dataset'.duplicates = dataset.duplicates /\ dataset'.absent = dataset.absent
          /\ dataset'.mistyped = dataset.mistyped
          /\ dataset'.outOfRange = dataset.outOfRange
          /\ dataset'.unknown = dataset.unknown
      BY <1>10 DEF Dataset
    <2> QED
      BY <1>1, <2>1, <2>2, <2>3 DEF NoWorse
  <1>11. Possible(dataset')
    BY DEF Repair
  <1>12. dataset' \in Dataset /\ NoWorse(dataset, dataset')
    BY <1>3, <1>4, <1>5, <1>6, <1>7, <1>8, <1>9, <1>10 DEF Repair
  <1> QED
    BY <1>11, <1>12

\* The invariant of the repairs: a dataset that can exist.
CanExist == dataset \in Dataset /\ Possible(dataset)

LEMMA DatasetCanExist == RepairSpec => []CanExist
  <1>1. RepairSpec => CanExist
    BY DEF RepairSpec, CanExist
  <1>2. CanExist /\ [Repair]_dataset => CanExist'
    <2> SUFFICES ASSUME CanExist, [Repair]_dataset PROVE CanExist'
      OBVIOUS
    <2>1. CASE Repair
      BY <2>1, RepairIsNoWorse DEF CanExist
    <2>2. CASE dataset' = dataset
      BY <2>2 DEF CanExist, Possible
    <2> QED
      BY <2>1, <2>2
  <1> QED
    BY <1>1, <1>2, PTL DEF RepairSpec

\* No dataset of fewer than 20000 cells is certified by a lucky mean or a
\* rounded score, and none that is clean is refused: the weights, thresholds,
\* flags and recommendations of config/validation_rules.json and the two gates
\* (certification_service.py) come to Eligible.  A dataset whose validation
\* raises has no report to certify, and is not Eligible.
THEOREM CertifiedExactlyIfEligible == RepairSpec => []CertifiedIffEligible
  <1>1. CanExist => CertifiedIffEligible
    BY CertifiedIsEligible, EligibleIsCertified DEF CertifiedIffEligible, CanExist
  <1> QED
    BY <1>1, DatasetCanExist, PTL

\* On a dataset of any size, a report that MASTERDB_CERTIFICATION_GATE would
\* accept has also passed VALIDATION_SCORE_AND_RISK_GATE.
THEOREM GatesNest == RepairSpec => []GatesAreNested
  <1>1. CanExist => GatesAreNested
    BY NestedFact DEF GatesAreNested, CanExist
  <1> QED
    BY <1>1, DatasetCanExist, PTL

\* On a dataset of any size that has a report, fixing a defect costs no point
\* (ScoringEngine), raises no flag (RiskEngine), adds no recommendation
\* (RecommendationEngine) and leaves a dataset that has one.
THEOREM RepairsNeverHurt == RepairSpec => RepairNeverHurts
  <1>1. ASSUME dataset \in Dataset, Repair, ~Raises(dataset)
        PROVE  /\ ~Raises(dataset')
               /\ OverallScore(dataset') >= OverallScore(dataset)
               /\ RiskFlags(dataset') \subseteq RiskFlags(dataset)
               /\ Recommendations(dataset') \subseteq Recommendations(dataset)
    <2>1. dataset' \in Dataset /\ NoWorse(dataset, dataset')
      BY <1>1, RepairIsNoWorse
    <2>2. ~Raises(dataset')
      BY <1>1, <2>1 DEF NoWorse
    <2> QED
      BY <1>1, <2>1, <2>2, NoScoreFalls, NothingIsAdded, ScoresFact
  <1>2. CanExist /\ [Repair]_dataset
          => [~Raises(dataset) =>
                /\ ~Raises(dataset')
                /\ OverallScore(dataset') >= OverallScore(dataset)
                /\ RiskFlags(dataset') \subseteq RiskFlags(dataset)
                /\ Recommendations(dataset') \subseteq Recommendations(dataset)]_dataset
    BY <1>1 DEF CanExist
  <1> QED
    BY <1>2, DatasetCanExist, PTL DEF RepairSpec, RepairNeverHurts

\* Whatever else is fixed in it, a certified dataset stays certified: no gate
\* (certification_service.py) is passed on account of a defect.
THEOREM CertifiedStaysCertified ==
  RepairSpec =>
    [][Verdict(dataset) = "CERTIFIED" => Verdict(dataset') = "CERTIFIED"]_dataset
  <1>1. ASSUME dataset \in Dataset, Repair, Verdict(dataset) = "CERTIFIED"
        PROVE  Verdict(dataset') = "CERTIFIED"
    <2>1. dataset' \in Dataset /\ NoWorse(dataset, dataset')
      BY <1>1, RepairIsNoWorse
    <2>2. PassesCertification(dataset) /\ ~Raises(dataset)
      BY <1>1 DEF Verdict
    <2>3. OverallScore(dataset) \in Int /\ OverallScore(dataset') \in Int
      BY <1>1, <2>1, ScoresFact
    <2>4. OverallScore(dataset') >= 9000
      BY <1>1, <2>1, <2>2, <2>3, NoScoreFalls DEF PassesCertification
    <2>5. RiskFlags(dataset') = {} /\ Recommendations(dataset') = {}
      BY <1>1, <2>1, <2>2, NothingIsAdded DEF PassesCertification
    <2>6. Classification(dataset') = "Trusted"
      BY <2>3, <2>4 DEF Classification
    <2>7. PassesCertification(dataset')
      BY <2>4, <2>5, <2>6 DEF PassesCertification
    <2>8. PassesVerification(dataset')
      BY <2>1, <2>7, NestedFact
    <2>9. ~Raises(dataset')
      BY <2>1, <2>2 DEF NoWorse
    <2> QED
      BY <2>7, <2>8, <2>9 DEF Verdict
  <1>2. CanExist /\ [Repair]_dataset
          => [Verdict(dataset) = "CERTIFIED" => Verdict(dataset') = "CERTIFIED"]_dataset
    BY <1>1 DEF CanExist
  <1> QED
    BY <1>2, DatasetCanExist, PTL DEF RepairSpec

-----------------------------------------------------------------------------
(* Reports                                                                  *)

\* A report is explained by its trail and decided by the rules.
GoodReport(report) ==
  report \in Report /\ DecidedByRules(report) /\ TrailExplainsState(report)

\* validate() writes a good report, if it does not raise.
LEMMA ValidatedFact ==
  ASSUME NEW d \in Dataset, ~Raises(d), NEW len \in Nat
  PROVE  GoodReport(Validated(d, len))
  <1> DEFINE t == Hop("NEW", "VALIDATED")
             new == Validated(d, len)
  <1>1. t \in [from : CertificationState, to : CertificationState] /\ t.to = "VALIDATED"
    BY DEF Hop, CertificationState
  <1> HIDE DEF t
  <1>2. <<t>> \in Seq([from : CertificationState, to : CertificationState])
    BY <1>1
  <1>3. Len(<<t>>) = 1 /\ <<t>>[1] = t /\ <<t>> # <<>>
    OBVIOUS
  <1>4. new = [content |-> d, state |-> "VALIDATED", audit |-> <<t>>,
               reasons |-> 0, eligible |-> "undecided", size |-> len]
    BY DEF Validated, t
  <1> HIDE DEF new
  <1>5. new \in Report
    BY <1>2, <1>4 DEF Report, CertificationState
  <1>6. DecidedByRules(new)
    BY <1>4 DEF DecidedByRules
  <1>7. TrailExplainsState(new)
    BY <1>1, <1>3, <1>4 DEF TrailExplainsState, t
  <1> QED
    BY <1>5, <1>6, <1>7 DEF GoodReport, new

\* One gate: a rejected report is left alone, any other one moves on, and
\* its trail with it.
LEMMA TransitionedFact ==
  ASSUME NEW report \in Report, NEW success \in CertificationState, NEW passed \in BOOLEAN,
         TrailExplainsState(report), NEW new, new = Transitioned(report, success, passed)
  PROVE  /\ new \in Report
         /\ TrailExplainsState(new)
         /\ new.content = report.content
         /\ new.state = IF report.state # "REJECTED" /\ passed THEN success ELSE "REJECTED"
  <1>1. CASE report.state = "REJECTED"
    <2>1. new = report
      BY <1>1 DEF Transitioned
    <2> QED
      BY <1>1, <2>1
  <1>2. CASE report.state # "REJECTED"
    <2> DEFINE to == IF passed THEN success ELSE "REJECTED"
               a == report.audit
               t == Hop(report.state, to)
               g == Append(a, t)
               n == Len(a)
               reasons == IF passed THEN report.reasons ELSE report.reasons + 1
    <2>1. to \in CertificationState /\ report.state \in CertificationState
      BY DEF CertificationState, Report
    <2>2. reasons \in Nat
      BY DEF Report
    <2>3. new = [report EXCEPT !.state = to, !.audit = g, !.reasons = reasons]
      BY <1>2 DEF Transitioned
    <2> HIDE DEF to, reasons
    <2>4. t \in [from : CertificationState, to : CertificationState]
      BY <2>1 DEF Hop
    <2>5. t.from = report.state /\ t.to = to
      BY DEF Hop
    <2>6. a \in Seq([from : CertificationState, to : CertificationState])
      BY DEF Report
    <2> HIDE DEF t
    <2>7. g \in Seq([from : CertificationState, to : CertificationState])
      BY <2>4, <2>6
    <2>8. n \in Nat /\ n # 0 /\ Len(g) = n + 1 /\ g[n + 1] = t /\ g # <<>>
      BY <2>4, <2>6 DEF TrailExplainsState
    <2>9. \A i \in 1..n : g[i] = a[i]
      BY <2>4, <2>6
    <2>10. /\ a[1] = Hop("NEW", "VALIDATED") /\ a[n].to = report.state
           /\ \A i \in 2..n : a[i].from = a[i - 1].to
      BY DEF TrailExplainsState
    <2> HIDE DEF a, g, n
    <2>11. new \in Report
      BY <2>1, <2>2, <2>3, <2>7 DEF Report
    <2>12. /\ new.content = report.content /\ new.state = to /\ new.audit = g
      BY <2>3 DEF Report
    <2>13. ASSUME NEW i \in 2..(n + 1) PROVE g[i].from = g[i - 1].to
      <3>1. CASE i = n + 1
        BY <2>5, <2>8, <2>9, <2>10, <3>1
      <3>2. CASE i # n + 1
        <4>1. i \in 2..n /\ i \in 1..n /\ i - 1 \in 1..n
          BY <2>8, <3>2
        <4> QED
          BY <2>9, <2>10, <4>1
      <3> QED
        BY <3>1, <3>2
    <2>14. g[1] = Hop("NEW", "VALIDATED") /\ g[Len(g)].to = to
      BY <2>5, <2>8, <2>9, <2>10
    <2>15. TrailExplainsState(new)
      BY <2>8, <2>12, <2>13, <2>14 DEF TrailExplainsState
    <2> QED
      BY <1>2, <2>11, <2>12, <2>15 DEF to
  <1> QED
    BY <1>1, <1>2

\* certify() writes a good report if it started from one.
LEMMA CertifiedFact ==
  ASSUME NEW report, GoodReport(report)
  PROVE  GoodReport(Certified(report))
  <1> DEFINE start == [report EXCEPT !.reasons = 0]
             v == PassesVerification(report.content)
             c == PassesCertification(report.content)
             verified == Transitioned(start, "VERIFIED", v)
             decided == Transitioned(verified, "CERTIFIED", c)
             eligible == IF decided.state = "CERTIFIED" THEN "yes" ELSE "no"
             new == Certified(report)
  <1>1. v \in BOOLEAN /\ c \in BOOLEAN
    BY DEF PassesVerification, PassesCertification
  <1>2. report \in Report /\ TrailExplainsState(report)
    BY DEF GoodReport
  <1>3. new = [decided EXCEPT !.eligible = eligible, !.size = decided.size + 1]
    BY DEF Certified
  <1>4. /\ report.state \in {"VALIDATED", Verdict(report.content)}
        /\ ~Raises(report.content)
    BY DEF GoodReport, DecidedByRules
  <1>5. Verdict(report.content) = IF v /\ c THEN "CERTIFIED" ELSE "REJECTED"
    BY <1>4 DEF Verdict
  <1>6. eligible \in {"yes", "no"} /\ (eligible = "yes" <=> decided.state = "CERTIFIED")
    OBVIOUS
  <1> HIDE DEF v, c, eligible, new
  <1>7. /\ start \in Report
        /\ start.state = report.state /\ start.audit = report.audit
        /\ start.content = report.content
    BY <1>2 DEF Report
  <1> HIDE DEF start
  <1>8. TrailExplainsState(start)
    BY <1>2, <1>7 DEF TrailExplainsState
  <1>9. /\ verified \in Report /\ TrailExplainsState(verified)
        /\ verified.content = report.content
        /\ verified.state = IF report.state # "REJECTED" /\ v THEN "VERIFIED" ELSE "REJECTED"
    <2>1. "VERIFIED" \in CertificationState
      BY DEF CertificationState
    <2> QED
      BY <1>1, <1>7, <1>8, <2>1, TransitionedFact
  <1> HIDE DEF verified
  <1>10. /\ decided \in Report /\ TrailExplainsState(decided)
         /\ decided.content = report.content
         /\ decided.state = IF verified.state # "REJECTED" /\ c THEN "CERTIFIED" ELSE "REJECTED"
    <2>1. "CERTIFIED" \in CertificationState
      BY DEF CertificationState
    <2> QED
      BY <1>1, <1>9, <2>1, TransitionedFact
  <1> HIDE DEF decided
  <1>11. decided.state = Verdict(report.content)
    BY <1>4, <1>5, <1>9, <1>10
  <1>12. decided.size + 1 \in Nat
    BY <1>10 DEF Report
  <1>13. new \in Report
    BY <1>3, <1>6, <1>10, <1>12 DEF Report
  <1>14. /\ new.state = decided.state /\ new.audit = decided.audit
         /\ new.content = report.content /\ new.eligible = eligible
    BY <1>3, <1>10 DEF Report
  <1>15. TrailExplainsState(new)
    BY <1>10, <1>14 DEF TrailExplainsState
  <1>16. DecidedByRules(new)
    <2>1. new.state \in {"CERTIFIED", "REJECTED"} /\ new.state = Verdict(new.content)
      BY <1>5, <1>11, <1>14
    <2>2. new.eligible = IF new.state = "CERTIFIED" THEN "yes" ELSE "no"
      BY <1>6, <1>14
    <2>3. ~Raises(new.content)
      BY <1>4, <1>14
    <2> QED
      BY <2>1, <2>2, <2>3 DEF DecidedByRules
  <1> QED
    BY <1>13, <1>15, <1>16 DEF GoodReport, new

-----------------------------------------------------------------------------
(* Types                                                                    *)

Texts == Report \cup NotAText

\* Saving puts a report, or garbage, where a file was.
LEMMA WrittenType ==
  ASSUME NEW file \in [text : Texts, extent : Nat], NEW rec \in Report
  PROVE  /\ Written(file, rec) \in [text : Texts, extent : Nat]
         /\ Parses(Written(file, rec)) => Written(file, rec).text = rec
  <1>1. rec.size \in Nat
    BY DEF Report
  <1>2. CASE rec.size >= file.extent
    <2>1. Written(file, rec) = [text |-> rec, extent |-> rec.size]
      BY <1>2 DEF Written
    <2> QED
      BY <1>1, <2>1 DEF Texts
  <1>3. CASE ~(rec.size >= file.extent)
    <2>1. Written(file, rec) = [text |-> Garbled, extent |-> file.extent]
      BY <1>3 DEF Written, Texts
    <2> QED
      BY <2>1 DEF Parses, NotAText, Texts
  <1> QED
    BY <1>2, <1>3

-----------------------------------------------------------------------------
(* The inductive invariant: every stored report and every report a handler  *)
(* is about to save is good.                                                *)

IInv ==
  /\ TypeOK
  /\ \A k \in Keys : Parses(files[k]) => GoodReport(files[k].text)
  /\ \A w \in Workers : phase[w] \in {"loaded", "opened"} => GoodReport(job[w].rec)

LEMMA InitIInv == Init => IInv
  <1> SUFFICES ASSUME Init PROVE IInv
    OBVIOUS
  <1>1. NoFile \in [text : Report \cup NotAText, extent : Nat]
    BY DEF NoFile, NotAText
  <1>2. TypeOK
    BY <1>1 DEF Init, TypeOK
  <1>3. \A k \in Keys : ~Parses(files[k])
    BY DEF Init, Parses, NoFile, NotAText
  <1> QED
    BY <1>2, <1>3 DEF Init, IInv

\* A handler begins, with a good report or before it has one.
LEMMA BeginIInv ==
  ASSUME IInv, NEW w \in Workers, NEW k \in Keys, NEW next \in {"hashed", "loaded"},
         NEW rec \in Report \cup {Absent}, NEW then \in {"answer", "certify"},
         next = "loaded" => GoodReport(rec),
         Begin(w, k, next, rec, then)
  PROVE  IInv'
  <1> USE DEF IInv, Begin
  <1> DEFINE new == [key |-> k, base |-> files[k].text, rec |-> rec, then |-> then]
  <1>1. new \in Job /\ new.rec = rec
    BY DEF TypeOK, Job
  <1>2. next = "loaded" => rec \in Report
    BY DEF GoodReport
  <1>3. /\ phase'[w] = next /\ job'[w] = new
        /\ \A v \in Workers : v # w => phase'[v] = phase[v] /\ job'[v] = job[v]
    BY DEF TypeOK
  <1>4. job' \in [Workers -> Job \cup {NoJob}]
    BY <1>1 DEF TypeOK
  <1> HIDE DEF new
  <1>5. TypeOK'
    <2>1. phase' \in [Workers -> {"idle", "hashed", "loaded", "opened"}]
      BY DEF TypeOK
    <2>2. disturbed' \subseteq Keys
      BY DEF TypeOK
    <2>3. \A v \in Workers : phase'[v] # "idle" => job'[v] \in Job
      BY <1>1, <1>3 DEF TypeOK
    <2>4. \A v \in Workers : phase'[v] \in {"loaded", "opened"} => job'[v].rec \in Report
      BY <1>1, <1>2, <1>3 DEF TypeOK
    <2> QED
      BY <1>4, <2>1, <2>2, <2>3, <2>4 DEF TypeOK
  <1>6. \A v \in Workers : phase'[v] \in {"loaded", "opened"} => GoodReport(job'[v].rec)
    BY <1>1, <1>3
  <1> QED
    BY <1>5, <1>6

\* Answers that save nothing.
LEMMA AnswerIInv ==
  ASSUME IInv, NEW w \in Workers, NEW status \in {"200", "400", "404", "500"},
         AnswerNow(w, status)
  PROVE  IInv'
  BY DEF AnswerNow, IInv, TypeOK, Parses, counters

\* validate() and certify() begin.
LEMMA ValidateAsIInv ==
  ASSUME IInv, NEW w \in Workers, NEW id \in Ids, NEW then \in {"answer", "certify"},
         ValidateAs(w, id, then)
  PROVE  IInv'
  <1>1. PICK len \in TextLens : Begin(w, id, "loaded", Validated(onDisk, len), then)
    BY DEF ValidateAs
  <1>2. onDisk \in Dataset /\ ~Raises(onDisk) /\ len \in Nat /\ id \in Keys
    BY ContentsAssumption, LensAssumption DEF ValidateAs, Reportable, IInv, TypeOK, Keys
  <1>3. GoodReport(Validated(onDisk, len)) /\ Validated(onDisk, len) \in Report
    BY <1>2, ValidatedFact DEF GoodReport
  <1> QED
    BY <1>1, <1>2, <1>3, BeginIInv

LEMMA HashIInv ==
  ASSUME IInv, NEW w \in Workers, NEW then \in {"answer", "certify"}, HashDataset(w, then)
  PROVE  IInv'
  <1>1. onDisk \in Keys
    BY DEF HashDataset, IInv, TypeOK, Keys
  <1> QED
    BY <1>1, BeginIInv DEF HashDataset

LEMMA LoadReportIInv ==
  ASSUME IInv, NEW w \in Workers, NEW k \in Keys, LoadReport(w, k)
  PROVE  IInv'
  <1>1. GoodReport(Certified(files[k].text))
    BY CertifiedFact DEF LoadReport, IInv
  <1>2. Certified(files[k].text) \in Report
    BY <1>1 DEF GoodReport
  <1> QED
    BY <1>1, <1>2, BeginIInv DEF LoadReport

\* The dataset is read for the second time.
LEMMA LoadDatasetIInv ==
  ASSUME IInv, NEW w \in Workers, LoadDataset(w)
  PROVE  IInv'
  <1> USE DEF IInv, LoadDataset, counters
  <1>1. PICK len \in TextLens : job' = [job EXCEPT ![w].rec = Validated(onDisk, len)]
    OBVIOUS
  <1>2. onDisk \in Dataset /\ ~Raises(onDisk) /\ len \in Nat
    BY ContentsAssumption, LensAssumption DEF Reportable, TypeOK
  <1>3. GoodReport(Validated(onDisk, len)) /\ Validated(onDisk, len) \in Report
    BY <1>2, ValidatedFact DEF GoodReport
  <1>4. job[w] \in Job
    BY DEF TypeOK
  <1>5. job'[w] \in Job /\ job'[w].rec = Validated(onDisk, len)
    BY <1>1, <1>3, <1>4 DEF TypeOK, Job
  <1>6. \A v \in Workers : v # w => phase'[v] = phase[v] /\ job'[v] = job[v]
    BY <1>1 DEF TypeOK
  <1>7. job' \in [Workers -> Job \cup {NoJob}] /\ phase'[w] = "loaded"
    BY <1>1, <1>5 DEF TypeOK
  <1>8. TypeOK'
    BY <1>3, <1>5, <1>6, <1>7 DEF TypeOK
  <1>9. \A v \in Workers : phase'[v] \in {"loaded", "opened"} => GoodReport(job'[v].rec)
    BY <1>3, <1>5, <1>6
  <1> QED
    BY <1>8, <1>9

LEMMA OpenIInv ==
  ASSUME IInv, NEW w \in Workers, Open(w)
  PROVE  IInv'
  <1> USE DEF IInv, Open, counters
  <1>1. job[w].key \in Keys
    BY DEF TypeOK, Job
  <1>2. Truncated \in [text : Report \cup NotAText, extent : Nat]
    BY DEF Truncated, NotAText
  <1>3. TypeOK'
    BY <1>1, <1>2 DEF TypeOK
  <1>4. ASSUME NEW k \in Keys, Parses(files[k])' PROVE GoodReport(files[k].text)'
    <2>1. k # job[w].key /\ files'[k] = files[k]
      BY <1>1, <1>4 DEF TypeOK, Truncated, Parses, NotAText
    <2> QED
      BY <1>4, <2>1 DEF Parses
  <1>5. \A v \in Workers : phase'[v] \in {"loaded", "opened"} => GoodReport(job'[v].rec)
    BY DEF TypeOK
  <1> QED
    BY <1>3, <1>4, <1>5

LEMMA FlushIInv ==
  ASSUME IInv, NEW w \in Workers, Flush(w)
  PROVE  IInv'
  <1>1. PICK k \in Keys, rec \in Report : k = job[w].key /\ rec = job[w].rec
    BY DEF Flush, IInv, TypeOK, Job
  <1>2. GoodReport(rec) /\ job[w] \in Job
    BY <1>1 DEF Flush, IInv, TypeOK
  <1>3. files \in [Keys -> [text : Texts, extent : Nat]]
    BY DEF IInv, TypeOK, Texts
  <1>4. files' = [files EXCEPT ![k] = Written(files[k], rec)]
    BY <1>1 DEF Flush
  <1>5. files' \in [Keys -> [text : Texts, extent : Nat]]
    BY <1>3, <1>4, WrittenType
  <1>6. ASSUME NEW j \in Keys, Parses(files'[j]) PROVE GoodReport(files'[j].text)
    <2>1. CASE j = k
      <3>1. files'[j] = Written(files[k], rec)
        BY <1>3, <1>4, <2>1
      <3>2. files'[j].text = rec
        BY <1>3, <1>6, <3>1, WrittenType
      <3> QED
        BY <1>2, <3>2
    <2>2. CASE j # k
      <3>1. files'[j] = files[j]
        BY <1>3, <1>4, <2>2
      <3> QED
        BY <1>6, <3>1 DEF IInv
    <2> QED
      BY <2>1, <2>2
  <1>7. CASE job[w].then = "certify"
    <2>1. /\ phase' = [phase EXCEPT ![w] = "loaded"]
          /\ job' = [job EXCEPT ![w].base = rec, ![w].then = "answer",
                                ![w].rec = Certified(rec)]
          /\ answer' = answer
      BY <1>1, <1>7 DEF Flush
    <2>2. GoodReport(Certified(rec)) /\ Certified(rec) \in Report
      BY <1>2, CertifiedFact DEF GoodReport
    <2>3. job'[w] = [job[w] EXCEPT !.base = rec, !.then = "answer", !.rec = Certified(rec)]
      BY <2>1 DEF IInv, TypeOK
    <2>4. job'[w] \in Job /\ job'[w].rec = Certified(rec)
      BY <1>2, <2>2, <2>3 DEF Job
    <2>5. \A v \in Workers : v # w => phase'[v] = phase[v] /\ job'[v] = job[v]
      BY <2>1 DEF IInv, TypeOK
    <2>6. job' \in [Workers -> Job \cup {NoJob}] /\ phase'[w] = "loaded"
      BY <2>1, <2>4 DEF IInv, TypeOK
    <2>7. TypeOK'
      <3>1. /\ phase' \in [Workers -> {"idle", "hashed", "loaded", "opened"}]
            /\ \A v \in Workers : phase'[v] # "idle" => job'[v] \in Job
            /\ \A v \in Workers : phase'[v] \in {"loaded", "opened"} => job'[v].rec \in Report
        BY <2>1, <2>2, <2>4, <2>5 DEF IInv, TypeOK
      <3> QED
        BY <1>5, <2>1, <2>6, <3>1 DEF IInv, TypeOK, Flush, Texts
    <2>8. \A v \in Workers : phase'[v] \in {"loaded", "opened"} => GoodReport(job'[v].rec)
      BY <2>2, <2>4, <2>5 DEF IInv
    <2> QED
      BY <1>6, <2>7, <2>8 DEF IInv, Parses
  <1>8. CASE job[w].then = "answer"
    <2>1. /\ phase' = [phase EXCEPT ![w] = "idle"]
          /\ job' = [job EXCEPT ![w] = NoJob]
          /\ answer' = "200"
      BY <1>8 DEF Flush
    <2>2. \A v \in Workers : v # w => phase'[v] = phase[v] /\ job'[v] = job[v]
      BY <2>1 DEF IInv, TypeOK
    <2>3. phase'[w] = "idle"
      BY <2>1 DEF IInv, TypeOK
    <2>4. TypeOK'
      <3>1. /\ phase' \in [Workers -> {"idle", "hashed", "loaded", "opened"}]
            /\ job' \in [Workers -> Job \cup {NoJob}]
            /\ \A v \in Workers : phase'[v] # "idle" => job'[v] \in Job
            /\ \A v \in Workers : phase'[v] \in {"loaded", "opened"} => job'[v].rec \in Report
        BY <2>1, <2>2, <2>3 DEF IInv, TypeOK
      <3> QED
        BY <1>5, <2>1, <3>1 DEF IInv, TypeOK, Flush, Texts
    <2>5. \A v \in Workers : phase'[v] \in {"loaded", "opened"} => GoodReport(job'[v].rec)
      BY <2>2, <2>3 DEF IInv
    <2> QED
      BY <1>6, <2>4, <2>5 DEF IInv, Parses
  <1> QED
    BY <1>2, <1>7, <1>8 DEF Job

\* A handler gives up, the dataset is replaced, the process dies: no report
\* is built or stored.
LEMMA NothingSavedIInv ==
  ASSUME IInv,
         \/ \E w \in Workers : LoadFails(w)
         \/ ReplaceDataset
         \/ Crash
         \/ UNCHANGED vars
  PROVE  IInv'
  <1>1. ASSUME NEW w \in Workers, LoadFails(w) PROVE IInv'
    BY <1>1 DEF LoadFails, IInv, TypeOK, Parses, counters
  <1>2. CASE ReplaceDataset
    BY <1>2 DEF ReplaceDataset, IInv, TypeOK, Parses
  <1>3. CASE Crash
    <2>1. disturbed' \subseteq Keys
      BY <1>3 DEF Crash, IInv, TypeOK, Job
    <2> QED
      BY <1>3, <2>1 DEF Crash, IInv, TypeOK, Parses
  <1>4. CASE UNCHANGED vars
    BY <1>4 DEF vars, counters, IInv, TypeOK, Parses
  <1> QED
    BY <1>1, <1>2, <1>3, <1>4

LEMMA NextIInv == IInv /\ [Next]_vars => IInv'
  <1> SUFFICES ASSUME IInv, [Next]_vars PROVE IInv'
    OBVIOUS
  <1>1. ASSUME NEW w \in Workers, Validate(w) PROVE IInv'
    BY <1>1, ValidateAsIInv, HashIInv, AnswerIInv DEF Validate, NoReportBuilt
  <1>2. ASSUME NEW w \in Workers, Certify(w) PROVE IInv'
    BY <1>2, LoadReportIInv, ValidateAsIInv, HashIInv, AnswerIInv
    DEF Certify, CertifyNotFound, CertifyUnknown, NoReportBuilt
  <1>3. ASSUME NEW w \in Workers, Step(w) PROVE IInv'
    BY <1>3, LoadDatasetIInv, NothingSavedIInv, OpenIInv, FlushIInv DEF Step
  <1>4. ASSUME NEW w \in Workers, NEW k \in Keys, Status(w, k) PROVE IInv'
    BY <1>4, AnswerIInv DEF Status
  <1> QED
    BY <1>1, <1>2, <1>3, <1>4, NothingSavedIInv DEF Next

\* The invariant holds, whatever races, replacements and crashes there are.
THEOREM InvariantHolds == Spec => []IInv
  BY InitIInv, NextIInv, PTL DEF Spec

\* Every variable keeps its type, and a handler that is about to save holds
\* a report.
THEOREM TypeCorrect == Spec => []TypeOK
  <1>1. IInv => TypeOK
    BY DEF IInv
  <1> QED
    BY <1>1, InvariantHolds, PTL

\* A readable report that says eligible is one the rules certify on the very
\* content it describes, however validate() and certify() race and whatever
\* is done to the dataset meanwhile.
THEOREM OnlyRulesDecide == Spec => []EligibleOnlyByRules
  <1>1. IInv => EligibleOnlyByRules
    BY DEF IInv, EligibleOnlyByRules, GoodReport
  <1> QED
    BY <1>1, InvariantHolds, PTL

\* The audit trail of a readable report leads without a gap to its state.
THEOREM TrailHasNoGap == Spec => []AuditTrailIsGapless
  <1>1. IInv => AuditTrailIsGapless
    BY DEF IInv, AuditTrailIsGapless, GoodReport
  <1> QED
    BY <1>1, InvariantHolds, PTL

\* A readable report that says its dataset is eligible describes one that is
\* clean, as far as fewer than 20000 cells are concerned.
EligibleReportsAreClean ==
  \A k \in Keys :
    LET report == files[k].text IN
      Parses(files[k]) /\ report.eligible = "yes" /\ FewCells(report.content)
        => Eligible(report.content)

\* From the request to the rules: however validate() and certify() race, crash
\* and repeat, and whatever replaces the dataset meanwhile, no report under
\* reports/ ever says eligible_for_masterdb of a dataset of fewer than 20000
\* cells that has a null cell, a list or an object in a cell, a text for an
\* age, a repeated or an out-of-range row, an absent or a second mistyped
\* column, or a second unknown field of required metadata.
THEOREM EligibleMeansClean == Spec => []EligibleReportsAreClean
  <1>1. IInv => EligibleReportsAreClean
    <2> SUFFICES ASSUME IInv, NEW k \in Keys,
                        Parses(files[k]), files[k].text.eligible = "yes",
                        FewCells(files[k].text.content)
                 PROVE  Eligible(files[k].text.content)
      BY DEF EligibleReportsAreClean
    <2> DEFINE report == files[k].text
    <2>1. report \in Report /\ DecidedByRules(report)
      BY DEF IInv, TypeOK, Parses, GoodReport
    <2> HIDE DEF report
    <2>2. report.content \in Dataset /\ report.state \in CertificationState
      BY <2>1 DEF Report
    <2>3. Verdict(report.content) = "CERTIFIED"
      BY <2>1 DEF report, DecidedByRules, Verdict
    <2> QED
      BY <2>2, <2>3, CertifiedIsEligible DEF report
  <1> QED
    BY <1>1, InvariantHolds, PTL

-----------------------------------------------------------------------------
(* The refinement.  A handler on an undisturbed key is alone there; what it *)
(* found is what clients see until its save is complete, and what it saves  *)
(* is one atomic request on that.                                           *)

\* rec is what one request to the ledger makes of base.
Builds(base, rec) ==
  \/ \E d \in Reportable, len \in TextLens : rec = Validated(d, len)
  \/ base \in Report /\ rec = Certified(base)

RefInv ==
  /\ \A u, v \in Workers :
       phase[u] # "idle" /\ phase[v] # "idle" /\ job[u].key = job[v].key
         /\ job[u].key \notin disturbed => u = v
  /\ \A w \in Workers : phase[w] # "idle" /\ job[w].key \notin disturbed =>
       /\ phase[w] \in {"hashed", "loaded"} => files[job[w].key].text = job[w].base
       /\ phase[w] = "opened" => files[job[w].key] = Truncated
       /\ phase[w] \in {"loaded", "opened"} => Builds(job[w].base, job[w].rec)

\* Steps that change no file, and handlers only by ending them.
LEMMA QuietRef ==
  ASSUME RefInv, files' = files, disturbed \subseteq disturbed',
         \A v \in Workers : phase'[v] # "idle" =>
           phase[v] # "idle" /\ phase'[v] = phase[v] /\ job'[v] = job[v]
  PROVE  RefInv'
  BY DEF RefInv, Builds

\* A handler begins with what it found.
LEMMA BeginRef ==
  ASSUME IInv, RefInv, NEW w \in Workers, NEW k \in Keys, NEW next \in {"hashed", "loaded"},
         NEW rec, NEW then, next = "loaded" => Builds(files[k].text, rec),
         Begin(w, k, next, rec, then)
  PROVE  RefInv'
  <1> DEFINE base == files[k].text
  <1>1. /\ job'[w] = [key |-> k, base |-> base, rec |-> rec, then |-> then]
        /\ phase[w] = "idle" /\ phase'[w] = next
        /\ \A v \in Workers : v # w => phase'[v] = phase[v] /\ job'[v] = job[v]
    BY DEF Begin, IInv, TypeOK
  <1>2. /\ files' = files /\ disturbed \subseteq disturbed'
        /\ Busy(k) => k \in disturbed'
    BY DEF Begin
  <1>3. job'[w].key = k /\ job'[w].base = base /\ job'[w].rec = rec
    BY <1>1
  <1>4. ASSUME NEW v \in Workers, v # w, phase[v] # "idle", job[v].key = k PROVE Busy(k)
    BY <1>4 DEF Busy, WorkersAt
  <1>5. next = "loaded" => Builds(base, rec)
    OBVIOUS
  <1>6. base = files[k].text
    OBVIOUS
  <1> HIDE DEF base
  <1>7. ASSUME NEW u \in Workers, NEW v \in Workers, phase'[u] # "idle", phase'[v] # "idle",
               job'[u].key = job'[v].key, job'[u].key \notin disturbed'
        PROVE  u = v
    <2>1. CASE u # w /\ v # w
      BY <1>1, <1>2, <1>7, <2>1 DEF RefInv
    <2>2. CASE u = w \/ v = w
      BY <1>1, <1>2, <1>3, <1>4, <1>7, <2>2
    <2> QED
      BY <2>1, <2>2
  <1>8. ASSUME NEW v \in Workers, phase'[v] # "idle", job'[v].key \notin disturbed'
        PROVE  /\ phase'[v] \in {"hashed", "loaded"} => files'[job'[v].key].text = job'[v].base
               /\ phase'[v] = "opened" => files'[job'[v].key] = Truncated
               /\ phase'[v] \in {"loaded", "opened"} => Builds(job'[v].base, job'[v].rec)
    <2>1. CASE v = w
      BY <1>1, <1>2, <1>3, <1>5, <1>6, <2>1
    <2>2. CASE v # w
      BY <1>1, <1>2, <1>8, <2>2 DEF RefInv
    <2> QED
      BY <2>1, <2>2
  <1> QED
    BY <1>7, <1>8 DEF RefInv, Builds

\* The requests that begin a handler.
Begins(w) ==
  \/ \E id \in Ids, then \in {"answer", "certify"} : ValidateAs(w, id, then)
  \/ \E then \in {"answer", "certify"} : HashDataset(w, then)
  \/ \E k \in Keys : LoadReport(w, k)

LEMMA BeginsRef ==
  ASSUME IInv, RefInv, NEW w \in Workers, Begins(w)
  PROVE  RefInv'
  <1>1. ASSUME NEW id \in Ids, NEW then, ValidateAs(w, id, then) PROVE RefInv'
    <2>1. PICK len \in TextLens : Begin(w, id, "loaded", Validated(onDisk, len), then)
      BY <1>1 DEF ValidateAs
    <2>2. id \in Keys /\ onDisk \in Reportable
      BY <1>1 DEF ValidateAs, IInv, TypeOK, Keys
    <2>3. Builds(files[id].text, Validated(onDisk, len))
      BY <2>2 DEF Builds
    <2> QED
      BY <2>1, <2>2, <2>3, BeginRef
  <1>2. ASSUME NEW then, HashDataset(w, then) PROVE RefInv'
    <2>1. onDisk \in Keys
      BY <1>2 DEF HashDataset, IInv, TypeOK, Keys
    <2> QED
      BY <1>2, <2>1, BeginRef DEF HashDataset
  <1>3. ASSUME NEW k \in Keys, LoadReport(w, k) PROVE RefInv'
    <2>1. files[k].text \in Report
      BY <1>3 DEF LoadReport, IInv, GoodReport
    <2>2. Builds(files[k].text, Certified(files[k].text))
      BY <2>1 DEF Builds
    <2> QED
      BY <1>3, <2>2, BeginRef DEF LoadReport
  <1> QED
    BY <1>1, <1>2, <1>3 DEF Begins

\* The next step of one handler, seen by the others.
LEMMA OwnStep ==
  ASSUME IInv, RefInv, NEW w \in Workers, phase[w] # "idle",
         disturbed' = disturbed,
         \A v \in Workers : v # w => phase'[v] = phase[v] /\ job'[v] = job[v],
         phase'[w] # "idle" => job'[w].key = job[w].key,
         \A k \in Keys : k # job[w].key => files'[k] = files[k],
         phase'[w] # "idle" /\ job[w].key \notin disturbed =>
           /\ phase'[w] \in {"hashed", "loaded"} => files'[job[w].key].text = job'[w].base
           /\ phase'[w] = "opened" => files'[job[w].key] = Truncated
           /\ phase'[w] \in {"loaded", "opened"} => Builds(job'[w].base, job'[w].rec)
  PROVE  RefInv'
  <1>1. ASSUME NEW u \in Workers, NEW v \in Workers, phase'[u] # "idle", phase'[v] # "idle",
               job'[u].key = job'[v].key, job'[u].key \notin disturbed'
        PROVE  u = v
    <2>1. /\ phase[u] # "idle" /\ phase[v] # "idle"
          /\ job[u].key = job'[u].key /\ job[v].key = job'[v].key
      BY <1>1
    <2> QED
      BY <1>1, <2>1 DEF RefInv
  <1>2. ASSUME NEW v \in Workers, phase'[v] # "idle", job'[v].key \notin disturbed'
        PROVE  /\ phase'[v] \in {"hashed", "loaded"} => files'[job'[v].key].text = job'[v].base
               /\ phase'[v] = "opened" => files'[job'[v].key] = Truncated
               /\ phase'[v] \in {"loaded", "opened"} => Builds(job'[v].base, job'[v].rec)
    <2>1. CASE v = w
      BY <1>2, <2>1
    <2>2. CASE v # w
      <3>1. /\ phase[v] # "idle" /\ phase'[v] = phase[v] /\ job'[v] = job[v]
            /\ job[v].key \notin disturbed /\ job[v].key \in Keys
        BY <1>2, <2>2 DEF IInv, TypeOK, Job
      <3>2. files'[job[v].key] = files[job[v].key]
        BY <2>2, <3>1 DEF RefInv
      <3> QED
        BY <3>1, <3>2 DEF RefInv
    <2> QED
      BY <2>1, <2>2
  <1> QED
    BY <1>1, <1>2 DEF RefInv, Builds

LEMMA LoadDatasetRef ==
  ASSUME IInv, RefInv, NEW w \in Workers, LoadDataset(w)
  PROVE  RefInv'
  <1>1. PICK len \in TextLens : job' = [job EXCEPT ![w].rec = Validated(onDisk, len)]
    BY DEF LoadDataset
  <1>2. onDisk \in Reportable /\ job[w] \in Job /\ phase[w] = "hashed"
    BY DEF LoadDataset, IInv, TypeOK
  <1>3. /\ job'[w].key = job[w].key /\ job'[w].base = job[w].base
        /\ job'[w].rec = Validated(onDisk, len) /\ phase'[w] = "loaded"
        /\ \A v \in Workers : v # w => phase'[v] = phase[v] /\ job'[v] = job[v]
        /\ files' = files /\ disturbed' = disturbed
    BY <1>1, <1>2 DEF LoadDataset, IInv, TypeOK, Job
  <1>4. Builds(job'[w].base, job'[w].rec)
    BY <1>2, <1>3 DEF Builds
  <1>5. job[w].key \notin disturbed => files[job[w].key].text = job[w].base
    BY <1>2 DEF RefInv
  <1> QED
    BY <1>2, <1>3, <1>4, <1>5, OwnStep

LEMMA OpenRef ==
  ASSUME IInv, RefInv, NEW w \in Workers, Open(w)
  PROVE  RefInv'
  <1>1. job[w] \in Job /\ job[w].key \in Keys /\ phase[w] = "loaded"
    BY DEF Open, IInv, TypeOK, Job
  <1>2. /\ job' = job /\ disturbed' = disturbed /\ phase'[w] = "opened"
        /\ \A v \in Workers : v # w => phase'[v] = phase[v]
        /\ files'[job[w].key] = Truncated
        /\ \A k \in Keys : k # job[w].key => files'[k] = files[k]
    BY <1>1 DEF Open, IInv, TypeOK
  <1>3. job[w].key \notin disturbed => Builds(job[w].base, job[w].rec)
    BY <1>1 DEF RefInv
  <1> QED
    BY <1>1, <1>2, <1>3, OwnStep

\* What a save of an undisturbed key leaves in the file.
LEMMA FlushFact ==
  ASSUME IInv, RefInv, NEW w \in Workers, Flush(w)
  PROVE  /\ phase[w] = "opened" /\ job[w].key \in Keys /\ job[w].rec \in Report
         /\ disturbed' = disturbed
         /\ \A v \in Workers : v # w => phase'[v] = phase[v] /\ job'[v] = job[v]
         /\ \A k \in Keys : k # job[w].key => files'[k] = files[k]
         /\ job[w].key \notin disturbed => files'[job[w].key].text = job[w].rec
         /\ phase'[w] = "idle"
              \/ /\ phase'[w] = "loaded" /\ job'[w].key = job[w].key
                 /\ job'[w].base = job[w].rec /\ job'[w].rec = Certified(job[w].rec)
  <1>1. /\ phase[w] = "opened" /\ job[w] \in Job /\ job[w].key \in Keys
        /\ job[w].rec \in Report
    BY DEF Flush, IInv, TypeOK, Job
  <1>2. /\ disturbed' = disturbed
        /\ \A v \in Workers : v # w => phase'[v] = phase[v] /\ job'[v] = job[v]
        /\ \A k \in Keys : k # job[w].key => files'[k] = files[k]
        /\ files'[job[w].key] = Written(files[job[w].key], job[w].rec)
    BY <1>1 DEF Flush, IInv, TypeOK
  <1>3. ASSUME job[w].key \notin disturbed PROVE files'[job[w].key].text = job[w].rec
    <2>1. files[job[w].key] = Truncated
      BY <1>1, <1>3 DEF RefInv
    <2>2. job[w].rec.size \in Nat
      BY <1>1 DEF Report
    <2>3. job[w].rec.size >= Truncated.extent
      BY <2>2 DEF Truncated
    <2> QED
      BY <1>2, <2>1, <2>3 DEF Written
  <1>4. CASE job[w].then = "answer"
    <2>1. phase'[w] = "idle"
      BY <1>4 DEF Flush, IInv, TypeOK
    <2> QED
      BY <1>1, <1>2, <1>3, <2>1
  <1>5. CASE job[w].then = "certify"
    <2>1. /\ phase'[w] = "loaded"
          /\ job'[w] = [job[w] EXCEPT !.base = job[w].rec, !.then = "answer",
                                      !.rec = Certified(job[w].rec)]
      BY <1>5 DEF Flush, IInv, TypeOK
    <2>2. /\ job'[w].key = job[w].key /\ job'[w].base = job[w].rec
          /\ job'[w].rec = Certified(job[w].rec)
      BY <1>1, <2>1 DEF Job
    <2> QED
      BY <1>1, <1>2, <1>3, <2>1, <2>2
  <1> QED
    BY <1>1, <1>4, <1>5 DEF Job

LEMMA FlushRef ==
  ASSUME IInv, RefInv, NEW w \in Workers, Flush(w)
  PROVE  RefInv'
  <1>1. phase'[w] # "idle" => Builds(job'[w].base, job'[w].rec)
    BY FlushFact DEF Builds
  <1> QED
    BY <1>1, FlushFact, OwnStep

LEMMA NextRef == IInv /\ RefInv /\ [Next]_vars => RefInv'
  <1> SUFFICES ASSUME IInv, RefInv, [Next]_vars PROVE RefInv'
    OBVIOUS
  <1>1. ASSUME NEW w \in Workers, NEW status, AnswerNow(w, status) PROVE RefInv'
    BY <1>1, QuietRef DEF AnswerNow
  <1>2. ASSUME NEW w \in Workers, Validate(w) PROVE RefInv'
    BY <1>1, <1>2, BeginsRef DEF Validate, NoReportBuilt, Begins
  <1>3. ASSUME NEW w \in Workers, Certify(w) PROVE RefInv'
    BY <1>1, <1>3, BeginsRef DEF Certify, CertifyNotFound, CertifyUnknown, NoReportBuilt, Begins
  <1>4. ASSUME NEW w \in Workers, LoadFails(w) PROVE RefInv'
    BY <1>4, QuietRef DEF LoadFails, IInv, TypeOK
  <1>5. ASSUME NEW w \in Workers, Step(w) PROVE RefInv'
    BY <1>4, <1>5, LoadDatasetRef, OpenRef, FlushRef DEF Step
  <1>6. ASSUME NEW w \in Workers, NEW k \in Keys, Status(w, k) PROVE RefInv'
    BY <1>1, <1>6 DEF Status
  <1>7. CASE ReplaceDataset
    BY <1>7, QuietRef DEF ReplaceDataset
  <1>8. CASE Crash
    BY <1>8, QuietRef DEF Crash
  <1>9. CASE UNCHANGED vars
    BY <1>9, QuietRef DEF vars
  <1> QED
    BY <1>2, <1>3, <1>5, <1>6, <1>7, <1>8, <1>9 DEF Next

\* Visible, as a function of the state, so that one lemma speaks of the
\* state before a step and of the one after it.
See(f, ph, jb, ds, k) ==
  IF k \in ds THEN NoJob
  ELSE LET here == {v \in Workers : ph[v] # "idle" /\ jb[v].key = k}
       IN  IF \E w \in here : ph[w] = "opened"
             THEN jb[CHOOSE w \in here : ph[w] = "opened"].base
             ELSE f[k].text

\* An undisturbed key is what its one saver started from, or its file.
LEMMA SeeFact ==
  ASSUME NEW f, NEW ph, NEW jb, NEW ds, NEW k, k \notin ds,
         \A u, v \in Workers :
           ph[u] = "opened" /\ ph[v] = "opened" /\ jb[u].key = k /\ jb[v].key = k => u = v
  PROVE  /\ \A w \in Workers : ph[w] = "opened" /\ jb[w].key = k =>
              See(f, ph, jb, ds, k) = jb[w].base
         /\ (\A w \in Workers : ~(ph[w] = "opened" /\ jb[w].key = k)) =>
              See(f, ph, jb, ds, k) = f[k].text
  <1> DEFINE here == {v \in Workers : ph[v] # "idle" /\ jb[v].key = k}
             chosen == CHOOSE w \in here : ph[w] = "opened"
  <1>1. See(f, ph, jb, ds, k) =
          IF \E w \in here : ph[w] = "opened" THEN jb[chosen].base ELSE f[k].text
    BY DEF See
  <1>2. (\E w \in here : ph[w] = "opened") => chosen \in here /\ ph[chosen] = "opened"
    OBVIOUS
  <1>3. \A w : w \in here /\ ph[w] = "opened" <=>
               w \in Workers /\ ph[w] = "opened" /\ jb[w].key = k
    OBVIOUS
  <1> HIDE DEF here, chosen
  <1>4. ASSUME NEW w \in Workers, ph[w] = "opened", jb[w].key = k
        PROVE  See(f, ph, jb, ds, k) = jb[w].base
    <2>1. \E v \in here : ph[v] = "opened"
      BY <1>3, <1>4
    <2>2. chosen = w
      BY <1>2, <1>3, <1>4, <2>1
    <2> QED
      BY <1>1, <2>1, <2>2
  <1>5. ASSUME \A w \in Workers : ~(ph[w] = "opened" /\ jb[w].key = k)
        PROVE  See(f, ph, jb, ds, k) = f[k].text
    <2>1. ~(\E v \in here : ph[v] = "opened")
      BY <1>3, <1>5
    <2> QED
      BY <1>1, <2>1
  <1> QED
    BY <1>4, <1>5

LEMMA VisibleIsSee ==
  ASSUME NEW k \in Keys
  PROVE  /\ Visible(k) = See(files, phase, job, disturbed, k)
         /\ Visible(k)' = See(files', phase', job', disturbed', k)
  BY DEF Visible, See, WorkersAt

\* What is visible of a key, before and after a step.
LEMMA VisibleBefore ==
  ASSUME RefInv, NEW k \in Keys
  PROVE  /\ k \in disturbed => Visible(k) = NoJob
         /\ k \notin disturbed =>
              /\ \A w \in Workers : phase[w] = "opened" /\ job[w].key = k =>
                   Visible(k) = job[w].base
              /\ (\A w \in Workers : ~(phase[w] = "opened" /\ job[w].key = k)) =>
                   Visible(k) = files[k].text
  <1>1. k \notin disturbed =>
          \A u, v \in Workers :
            phase[u] = "opened" /\ phase[v] = "opened" /\ job[u].key = k /\ job[v].key = k
              => u = v
    BY DEF RefInv
  <1>2. k \in disturbed => See(files, phase, job, disturbed, k) = NoJob
    BY DEF See
  <1> QED
    BY <1>1, <1>2, SeeFact, VisibleIsSee

LEMMA VisibleAfter ==
  ASSUME RefInv', NEW k \in Keys
  PROVE  /\ k \in disturbed' => Visible(k)' = NoJob
         /\ k \notin disturbed' =>
              /\ \A w \in Workers : phase'[w] = "opened" /\ job'[w].key = k =>
                   Visible(k)' = job'[w].base
              /\ (\A w \in Workers : ~(phase'[w] = "opened" /\ job'[w].key = k)) =>
                   Visible(k)' = files'[k].text
  <1>1. k \notin disturbed' =>
          \A u, v \in Workers :
            phase'[u] = "opened" /\ phase'[v] = "opened" /\ job'[u].key = k /\ job'[v].key = k
              => u = v
    BY DEF RefInv
  <1>2. k \in disturbed' => See(files', phase', job', disturbed', k) = NoJob
    BY DEF See
  <1> QED
    BY <1>1, <1>2, SeeFact, VisibleIsSee

\* A key on which no save begins or ends looks the same, unless it is
\* disturbed.
LEMMA SameView ==
  ASSUME RefInv, RefInv', NEW k \in Keys, disturbed \subseteq disturbed',
         k \notin disturbed' => files'[k] = files[k],
         k \notin disturbed' => \A v \in Workers :
           (/\ phase'[v] = "opened" /\ job'[v].key = k
              <=> phase[v] = "opened" /\ job[v].key = k)
           /\ (phase[v] = "opened" /\ job[v].key = k => job'[v].base = job[v].base)
  PROVE  Visible(k)' = Visible(k) \/ Visible(k)' = NoJob
  <1>1. CASE k \in disturbed'
    BY <1>1, VisibleAfter
  <1>2. CASE k \notin disturbed'
    <2>1. CASE \E w \in Workers : phase[w] = "opened" /\ job[w].key = k
      <3>1. PICK w \in Workers : phase[w] = "opened" /\ job[w].key = k
        BY <2>1
      <3>2. phase'[w] = "opened" /\ job'[w].key = k /\ job'[w].base = job[w].base
        BY <1>2, <3>1
      <3> QED
        BY <1>2, <3>1, <3>2, VisibleBefore, VisibleAfter
    <2>2. CASE \A w \in Workers : ~(phase[w] = "opened" /\ job[w].key = k)
      <3>1. \A w \in Workers : ~(phase'[w] = "opened" /\ job'[w].key = k)
        BY <1>2, <2>2
      <3> QED
        BY <1>2, <2>2, <3>1, VisibleBefore, VisibleAfter
    <2> QED
      BY <2>1, <2>2
  <1> QED
    BY <1>1, <1>2

-----------------------------------------------------------------------------

\* No key changes but for becoming disturbed.
LEMMA QuietStep ==
  ASSUME \A k \in Keys : Visible(k)' = Visible(k) \/ Visible(k)' = NoJob
  PROVE  Ledger!LedgerNext
  BY DEF Ledger!Disturb, Ledger!LedgerNext

\* One key changes, by a request on what clients see of it.
LEMMA RequestStep ==
  ASSUME NEW k \in Keys, Visible(k) \in Report \cup NotAText,
         Builds(Visible(k), Visible(k)'),
         \A j \in Keys : j # k => Visible(j)' = Visible(j)
  PROVE  Ledger!LedgerNext
  <1> DEFINE ledger == [j \in Keys |-> Visible(j)]
             base == Visible(k)
             rec == Visible(k)'
  <1>1. ledger' = [ledger EXCEPT ![k] = rec] /\ ledger[k] = base
    OBVIOUS
  <1>2. /\ base # NoJob
        /\ base \in Report => base # Absent
    BY ReportSentinels DEF NotAText
  <1>3. Builds(base, rec)
    OBVIOUS
  <1> HIDE DEF base, rec
  <1>4. CASE \E d \in Reportable, len \in TextLens : rec = Validated(d, len)
    <2>1. Ledger!AtomicValidate(k)
      BY <1>1, <1>2, <1>4 DEF Ledger!AtomicValidate
    <2> QED
      BY <2>1 DEF Ledger!LedgerNext
  <1>5. CASE base \in Report /\ rec = Certified(base)
    <2>1. Ledger!AtomicCertify(k)
      BY <1>1, <1>2, <1>5 DEF Ledger!AtomicCertify
    <2> QED
      BY <2>1 DEF Ledger!LedgerNext
  <1> QED
    BY <1>3, <1>4, <1>5 DEF Builds

\* A handler that has begun, or read the dataset again, changes nothing
\* visible yet; nor does the truncation of the file, which shows what the
\* handler started from.
LEMMA BeginUnseen ==
  ASSUME IInv, RefInv, RefInv', NEW w \in Workers, NEW k \in Keys, NEW next, NEW rec, NEW then,
         next \in {"hashed", "loaded"}, Begin(w, k, next, rec, then)
  PROVE  Ledger!LedgerNext
  <1>1. /\ phase[w] = "idle" /\ phase'[w] # "opened"
        /\ \A v \in Workers : v # w => phase'[v] = phase[v] /\ job'[v] = job[v]
        /\ files' = files /\ disturbed \subseteq disturbed'
    BY DEF Begin, IInv, TypeOK
  <1>2. \A j \in Keys : Visible(j)' = Visible(j) \/ Visible(j)' = NoJob
    BY <1>1, SameView
  <1> QED
    BY <1>2, QuietStep

LEMMA BeginsUnseen ==
  ASSUME IInv, RefInv, RefInv', NEW w \in Workers, Begins(w)
  PROVE  Ledger!LedgerNext
  <1>1. ASSUME NEW id \in Ids, NEW then, ValidateAs(w, id, then) PROVE Ledger!LedgerNext
    BY <1>1, BeginUnseen DEF ValidateAs, Keys
  <1>2. ASSUME NEW then, HashDataset(w, then) PROVE Ledger!LedgerNext
    BY <1>2, BeginUnseen DEF HashDataset, IInv, TypeOK, Keys
  <1>3. ASSUME NEW k \in Keys, LoadReport(w, k) PROVE Ledger!LedgerNext
    BY <1>3, BeginUnseen DEF LoadReport
  <1> QED
    BY <1>1, <1>2, <1>3 DEF Begins

LEMMA OpenUnseen ==
  ASSUME IInv, RefInv, RefInv', NEW w \in Workers, Open(w)
  PROVE  Ledger!LedgerNext
  <1>1. /\ job[w].key \in Keys /\ phase[w] = "loaded" /\ phase'[w] = "opened"
        /\ job' = job /\ disturbed' = disturbed
        /\ \A v \in Workers : v # w => phase'[v] = phase[v]
        /\ \A k \in Keys : k # job[w].key => files'[k] = files[k]
    BY DEF IInv, TypeOK, Open, Job
  <1>2. ASSUME NEW k \in Keys PROVE Visible(k)' = Visible(k) \/ Visible(k)' = NoJob
    <2>1. CASE k = job[w].key /\ k \notin disturbed
      <3>1. Visible(k)' = job[w].base
        BY <1>1, <2>1, VisibleAfter
      <3>2. files[k].text = job[w].base
        BY <1>1, <2>1 DEF RefInv
      <3>3. \A v \in Workers : ~(phase[v] = "opened" /\ job[v].key = k)
        BY <1>1, <2>1 DEF RefInv
      <3>4. Visible(k) = files[k].text
        BY <2>1, <3>3, VisibleBefore
      <3> QED
        BY <3>1, <3>2, <3>4
    <2>2. CASE k # job[w].key \/ k \in disturbed
      BY <1>1, <2>2, SameView
    <2> QED
      BY <2>1, <2>2
  <1> QED
    BY <1>2, QuietStep

\* The end of a save is the request.
LEMMA FlushSeen ==
  ASSUME IInv, RefInv, RefInv', NEW w \in Workers, Flush(w)
  PROVE  Ledger!LedgerNext
  <1>1. PICK k \in Keys : k = job[w].key
    BY FlushFact
  <1>2. /\ phase[w] = "opened" /\ phase'[w] # "opened" /\ disturbed' = disturbed
        /\ \A v \in Workers : v # w => phase'[v] = phase[v] /\ job'[v] = job[v]
        /\ \A j \in Keys : j # k => files'[j] = files[j]
        /\ k \notin disturbed => files'[k].text = job[w].rec
    BY <1>1, FlushFact
  <1>3. ASSUME NEW j \in Keys, j # k
        PROVE  Visible(j)' = Visible(j) \/ Visible(j)' = NoJob
    BY <1>1, <1>2, <1>3, SameView
  <1>4. CASE k \in disturbed
    <2>1. Visible(k)' = NoJob
      BY <1>2, <1>4, VisibleAfter
    <2> QED
      BY <1>3, <2>1, QuietStep
  <1>5. CASE k \notin disturbed
    <2>1. Visible(k) = job[w].base /\ Builds(job[w].base, job[w].rec)
      BY <1>1, <1>2, <1>5, VisibleBefore DEF RefInv
    <2>2. \A v \in Workers : ~(phase'[v] = "opened" /\ job'[v].key = k)
      BY <1>1, <1>2, <1>5 DEF RefInv
    <2>3. Visible(k)' = job[w].rec
      BY <1>2, <1>5, <2>2, VisibleAfter
    <2>4. job[w].base \in Report \cup NotAText
      BY <1>2 DEF IInv, TypeOK, Job
    <2>5. ASSUME NEW j \in Keys, j # k PROVE Visible(j)' = Visible(j)
      <3>1. CASE j \in disturbed
        BY <1>2, <3>1, VisibleBefore, VisibleAfter
      <3>2. CASE j \notin disturbed
        <4>1. CASE \E v \in Workers : phase[v] = "opened" /\ job[v].key = j
          <5>1. PICK v \in Workers : phase[v] = "opened" /\ job[v].key = j
            BY <4>1
          <5>2. phase'[v] = "opened" /\ job'[v] = job[v]
            BY <1>1, <1>2, <2>5, <5>1
          <5> QED
            BY <1>2, <3>2, <5>1, <5>2, VisibleBefore, VisibleAfter
        <4>2. CASE \A v \in Workers : ~(phase[v] = "opened" /\ job[v].key = j)
          <5>1. \A v \in Workers : ~(phase'[v] = "opened" /\ job'[v].key = j)
            BY <1>2, <4>2
          <5> QED
            BY <1>2, <2>5, <3>2, <4>2, <5>1, VisibleBefore, VisibleAfter
        <4> QED
          BY <4>1, <4>2
      <3> QED
        BY <3>1, <3>2
    <2> QED
      BY <2>1, <2>3, <2>4, <2>5, RequestStep
  <1> QED
    BY <1>4, <1>5

LEMMA StepRefines ==
  IInv /\ RefInv /\ RefInv' /\ [Next]_vars =>
    [Ledger!LedgerNext]_([k \in Keys |-> Visible(k)])
  <1> SUFFICES ASSUME IInv, RefInv, RefInv', [Next]_vars
               PROVE  Ledger!LedgerNext
    OBVIOUS
  <1>1. ASSUME files' = files, disturbed \subseteq disturbed',
               \A v \in Workers :
                 \/ phase[v] # "opened" /\ phase'[v] # "opened"
                 \/ phase'[v] = phase[v] /\ job'[v] = job[v]
                 \/ phase'[v] # "opened" /\ job[v].key \in disturbed'
        PROVE  Ledger!LedgerNext
    <2>1. \A k \in Keys : Visible(k)' = Visible(k) \/ Visible(k)' = NoJob
      BY <1>1, SameView
    <2> QED
      BY <2>1, QuietStep
  <1>2. ASSUME NEW w \in Workers, NEW status, AnswerNow(w, status) PROVE Ledger!LedgerNext
    BY <1>1, <1>2 DEF AnswerNow
  <1>3. ASSUME NEW w \in Workers, Validate(w) PROVE Ledger!LedgerNext
    BY <1>2, <1>3, BeginsUnseen DEF Validate, NoReportBuilt, Begins
  <1>4. ASSUME NEW w \in Workers, Certify(w) PROVE Ledger!LedgerNext
    BY <1>2, <1>4, BeginsUnseen
    DEF Certify, CertifyNotFound, CertifyUnknown, NoReportBuilt, Begins
  <1>5. ASSUME NEW w \in Workers, LoadFails(w) PROVE Ledger!LedgerNext
    BY <1>1, <1>5 DEF LoadFails, IInv, TypeOK
  <1>6. ASSUME NEW w \in Workers, LoadDataset(w) PROVE Ledger!LedgerNext
    BY <1>1, <1>6 DEF LoadDataset, IInv, TypeOK
  <1>7. ASSUME NEW w \in Workers, Step(w) PROVE Ledger!LedgerNext
    BY <1>5, <1>6, <1>7, OpenUnseen, FlushSeen DEF Step
  <1>8. ASSUME NEW w \in Workers, NEW k \in Keys, Status(w, k) PROVE Ledger!LedgerNext
    BY <1>2, <1>8 DEF Status
  <1>9. CASE ReplaceDataset
    BY <1>1, <1>9 DEF ReplaceDataset
  <1>10. CASE Crash
    BY <1>1, <1>10 DEF Crash
  <1>11. CASE UNCHANGED vars
    BY <1>1, <1>11 DEF vars
  <1> QED
    BY <1>3, <1>4, <1>7, <1>8, <1>9, <1>10, <1>11 DEF Next

\* /validate and /certify, unlocked and crashing, implement the ledger: a key
\* is one atomic cell until two handlers overlap on it or a save of it is cut
\* short, whatever becomes of the dataset.
THEOREM LedgerImplemented == Spec => ImplementsLedger
  <1>1. Init => RefInv
    BY DEF Init, RefInv
  <1>2. Init => Ledger!LedgerInit
    <2> SUFFICES ASSUME Init PROVE Ledger!LedgerInit
      OBVIOUS
    <2>1. ASSUME NEW k \in Keys PROVE Visible(k) = Absent
      <3>1. RefInv /\ k \notin disturbed /\ \A w \in Workers : phase[w] # "opened"
        BY <1>1 DEF Init
      <3>2. files[k].text = Absent
        BY DEF Init, NoFile
      <3> QED
        BY <3>1, <3>2, VisibleBefore
    <2> QED
      BY <2>1 DEF Ledger!LedgerInit
  <1>3. Spec => []RefInv
    BY <1>1, InvariantHolds, NextRef, PTL DEF Spec
  <1> QED
    BY <1>2, <1>3, InvariantHolds, StepRefines, PTL
    DEF Spec, ImplementsLedger, Ledger!LedgerSpec
=============================================================================
