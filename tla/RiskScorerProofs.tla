------------------------- MODULE RiskScorerProofs -------------------------
(***************************************************************************)
(* The scorer's rules for every observation RiskObservation reaches.       *)
(***************************************************************************)
EXTENDS RiskObservation, RiskScorerLemmas

ObservationType == /\ anomaly \in Int /\ conf \in Int 
                   /\ label \in Label /\ breach \in BOOLEAN

LEMMA ObservationTypeCorrect == ScorerSpec => []ObservationType
  <1>1. ScorerInit => ObservationType
    <2>1. ScorerInit => breach \in BOOLEAN
      BY Zenon DEF ScorerInit
    <2> QED BY <2>1 DEF ScorerInit, ObservationType
  <1>2. ObservationType /\ [Worse]_obs => ObservationType'
    BY InputsAssumption DEF ObservationType, Worse, obs
  <1> QED BY <1>1, <1>2, PTL DEF ScorerSpec

\* No observation is Critical but by all three signals, nor a Warning by the
\* language model alone.
THEOREM HardRuleCorrect == ScorerSpec => []HardRule
  <1>1. ObservationType => HardRule
    BY HardRuleOfScore DEF ObservationType, HardRule, Verdict
  <1> QED BY <1>1, ObservationTypeCorrect, PTL

\* Normal means a score below 20, and 50 or more means at least a Warning.
THEOREM BandsAgreeCorrect == ScorerSpec => []BandsAgree
  <1>1. ObservationType => BandsAgree
    BY BandsOfScore DEF ObservationType, BandsAgree, Verdict
  <1> QED BY <1>1, ObservationTypeCorrect, PTL

\* An observation that gets worse is never scored or ranked lower.
THEOREM MonotoneCorrect == ScorerSpec => Monotone
  <1>1. ObservationType /\ ObservationType' /\ [Worse]_obs => 
          [/\ Verdict'.score >= Verdict.score
           /\ Rank[Verdict'.cat] >= Rank[Verdict.cat]]_obs
    <2> SUFFICES ASSUME ObservationType, ObservationType', Worse
                 PROVE  /\ Verdict'.score >= Verdict.score
                        /\ Rank[Verdict'.cat] >= Rank[Verdict.cat]
      BY DEF obs
    <2>1. /\ anomaly <= anomaly' /\ conf <= conf' /\ (breach => breach') 
          /\ label' = label
      BY InputsAssumption DEF Worse, ObservationType
    <2>2. /\ Verdict.score \in Int /\ Verdict'.score \in Int
          /\ Rank[Verdict.cat] \in Int /\ Rank[Verdict'.cat] \in Int
      BY BandsOfScore DEF Verdict, ObservationType, Score, Rank
    <2> QED BY <2>1, <2>2, ScoreMonotone DEF Verdict, ObservationType
  <1> QED BY <1>1, ObservationTypeCorrect, PTL DEF ScorerSpec, Monotone
===========================================================================
