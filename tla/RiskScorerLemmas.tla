-------------------------- MODULE RiskScorerLemmas --------------------------
(***************************************************************************)
(* What RiskScorer's operators return, for every integer anomaly and       *)
(* confidence, every label, with and without a breach.  Ranges with large  *)
(* ends are written as inequalities, which is how the SMT solver takes     *)
(* them.                                                                   *)
(***************************************************************************)
EXTENDS RiskScorer, TLAPS

LEMMA RiskValues == 
  ASSUME NEW l \in Label
  PROVE  LabelRisk[l] \in Int /\ 0 <= LabelRisk[l] /\ LabelRisk[l] <= 95
  BY DEF LabelRisk, Label

LEMMA RoundBounds == 
  ASSUME NEW n \in Int, 0 <= n, n <= 1000000
  PROVE  /\ Round(n, 10000) \in Int 
         /\ 0 <= Round(n, 10000) /\ Round(n, 10000) <= 100
         /\ 10000 * Round(n, 10000) <= n + 5000
         /\ 10000 * Round(n, 10000) >= n - 5000
  BY SMT DEF Round

LEMMA RoundMonotone == 
  ASSUME NEW m \in Int, NEW n \in Int, 0 <= m, m <= n
  PROVE  Round(m, 10000) <= Round(n, 10000)
  BY SMT DEF Round

LEMMA ClampBounds == 
  ASSUME NEW n \in Int
  PROVE  /\ Clamp(n, 0, 1000000) \in Int
         /\ 0 <= Clamp(n, 0, 1000000) /\ Clamp(n, 0, 1000000) <= 1000000
         /\ n <= 290000 => Clamp(n, 0, 1000000) <= 290000
  BY SMT DEF Clamp

LEMMA ClampMonotone == 
  ASSUME NEW m \in Int, NEW n \in Int, m <= n
  PROVE  Clamp(m, 0, 1000000) <= Clamp(n, 0, 1000000)
  BY SMT DEF Clamp

\* The composite before clamping and rounding.
Sum(a, l, c, b) == 
    6000 * a + 30 * LabelRisk[l] * c + (IF b THEN 100000 ELSE 0)

LEMMA SumType == 
  ASSUME NEW a \in Int, NEW l \in Label, NEW c \in Int, NEW b \in BOOLEAN
  PROVE  Sum(a, l, c, b) \in Int
  BY SMT, RiskValues DEF Sum

LEMMA CompositeOfSum == 
  ASSUME NEW a \in Int, NEW l \in Label, NEW c \in Int, NEW b \in BOOLEAN
  PROVE  /\ Composite(a, l, c, b) 
              = Round(Clamp(Sum(a, l, c, b), 0, 1000000), 10000)
         /\ Composite(a, l, c, b) \in 0..100
  <1>1. Composite(a, l, c, b) 
          = Round(Clamp(Sum(a, l, c, b), 0, 1000000), 10000)
    BY SMT DEF Composite, Sum
  <1> DEFINE n == Clamp(Sum(a, l, c, b), 0, 1000000)
  <1>2. n \in Int /\ 0 <= n /\ n <= 1000000
    BY SMT, SumType, ClampBounds
  <1> HIDE DEF n
  <1>3. Round(n, 10000) \in Int /\ 0 <= Round(n, 10000) /\ Round(n, 10000) <= 100
    BY SMT, <1>2, RoundBounds
  <1> QED BY SMT, <1>1, <1>3 DEF n

\* With no anomaly and no breach, a confidence of at most 1 gives at most 28.5.
LEMMA ModelAlone == 
  ASSUME NEW a \in Int, NEW l \in Label, NEW c \in Int, NEW b \in BOOLEAN,
         a = 0, c <= 100, ~b
  PROVE  Composite(a, l, c, b) < 50
  <1> DEFINE n == Clamp(Sum(a, l, c, b), 0, 1000000)
  <1>1. 30 * LabelRisk[l] * c <= 285000
    BY SMT DEF LabelRisk, Label
  <1>2. Sum(a, l, c, b) \in Int /\ Sum(a, l, c, b) <= 290000
    BY SMT, <1>1, RiskValues, SumType DEF Sum
  <1>3. n \in Int /\ 0 <= n /\ n <= 1000000 /\ n <= 290000
    BY SMT, <1>2, ClampBounds
  <1>4. Composite(a, l, c, b) = Round(n, 10000)
    BY SMT, CompositeOfSum
  <1> HIDE DEF n
  <1>5. Round(n, 10000) \in Int /\ 10000 * Round(n, 10000) <= n + 5000
    BY SMT, <1>3, RoundBounds
  <1> QED BY SMT, <1>3, <1>4, <1>5

\* scorer.py's hard rule: Critical means all three signals and a score of at
\* least 80, and the language model alone never reaches Warning.
LEMMA HardRuleOfScore == 
  ASSUME NEW a \in Int, NEW l \in Label, NEW c \in Int, NEW b \in BOOLEAN
  PROVE  /\ Score(a, l, c, b).cat = "Critical" <=> 
              a > 70 /\ l \in Malicious /\ c >= 60 /\ b
         /\ Score(a, l, c, b).cat = "Critical" => Score(a, l, c, b).score >= 80
         /\ a = 0 /\ ~b /\ c <= 100 => 
              Score(a, l, c, b).cat \in {"Normal", "Suspicious"}
  <1>1. Composite(a, l, c, b) \in 0..100
    BY CompositeOfSum
  <1>2. a = 0 /\ ~b /\ c <= 100 => Composite(a, l, c, b) < 50
    BY ModelAlone
  <1> QED BY <1>1, <1>2 DEF Score, IsCritical

\* The score is in 0..100 and the bands of the categories fit it.
LEMMA BandsOfScore == 
  ASSUME NEW a \in Int, NEW l \in Label, NEW c \in Int, NEW b \in BOOLEAN
  PROVE  /\ Score(a, l, c, b).score \in 0..100
         /\ Score(a, l, c, b).cat = "Normal" <=> Score(a, l, c, b).score < 20
         /\ Score(a, l, c, b).score >= 50 <=> 
              Rank[Score(a, l, c, b).cat] >= 2
  <1>1. Composite(a, l, c, b) \in 0..100
    BY CompositeOfSum
  <1> QED BY <1>1 DEF Score, Rank

\* A worse observation scores no lower and is put no lower.
LEMMA ScoreMonotone == 
  ASSUME NEW a \in Int, NEW c \in Int, NEW b \in BOOLEAN, NEW l \in Label, 
         NEW a2 \in Int, NEW c2 \in Int, NEW b2 \in BOOLEAN,
         a <= a2, c <= c2, b => b2
  PROVE  /\ Score(a, l, c, b).score <= Score(a2, l, c2, b2).score
         /\ Rank[Score(a, l, c, b).cat] <= Rank[Score(a2, l, c2, b2).cat]
  <1>1. 30 * LabelRisk[l] * c <= 30 * LabelRisk[l] * c2
    BY SMT DEF LabelRisk, Label
  <1>2. Sum(a, l, c, b) <= Sum(a2, l, c2, b2)
    BY SMT, <1>1, RiskValues DEF Sum
  <1>3. Composite(a, l, c, b) <= Composite(a2, l, c2, b2)
    BY SMT, <1>2, SumType, ClampMonotone, ClampBounds, RoundMonotone,
       CompositeOfSum
  <1>4. /\ Composite(a, l, c, b) \in 0..100 
        /\ Composite(a2, l, c2, b2) \in 0..100
    BY CompositeOfSum
  <1>5. IsCritical(a, l, c, b) => IsCritical(a2, l, c2, b2)
    BY DEF IsCritical
  <1> QED BY <1>3, <1>4, <1>5 DEF Score, Rank
=============================================================================
