-------------------------- MODULE RiskObservation --------------------------
(***************************************************************************)
(* One observation of a student, made worse step by step: its anomaly or   *)
(* its confidence grows, or it turns out to breach the scope.  What the    *)
(* scorer makes of it may only get worse too.                              *)
(***************************************************************************)
EXTENDS RiskScorer

CONSTANTS Anomalies, Confidences  \* hundredths, the values tried

ASSUME InputsAssumption == Anomalies \subseteq Int /\ Confidences \subseteq Int

VARIABLES anomaly, label, conf, breach
obs == <<anomaly, label, conf, breach>>

Verdict == Score(anomaly, label, conf, breach)

ScorerInit == /\ anomaly = 0 /\ conf = 0 /\ breach = FALSE
              /\ label \in Label

Worse == \/ /\ anomaly' \in {a \in Anomalies : a > anomaly}
            /\ UNCHANGED <<label, conf, breach>>
         \/ /\ conf' \in {c \in Confidences : c > conf}
            /\ UNCHANGED <<anomaly, label, breach>>
         \/ /\ ~breach /\ breach' = TRUE
            /\ UNCHANGED <<anomaly, label, conf>>

ScorerSpec == ScorerInit /\ [][Worse]_obs

\* scorer.py:16-20.  Critical needs all three signals together, and then has
\* a score of at least 80; no confidence of the language model reaches it
\* without an anomaly and a breach, and with a confidence in 0..1 the model
\* alone stays below Warning.
HardRule == 
    /\ Verdict.cat = "Critical" <=> 
         anomaly > 70 /\ label \in Malicious /\ conf >= 60 /\ breach
    /\ Verdict.cat = "Critical" => Verdict.score >= 80
    /\ anomaly = 0 /\ ~breach /\ conf <= 100 => 
         Verdict.cat \in {"Normal", "Suspicious"}

\* The score and the category never disagree about what is silent: an
\* observation is Normal exactly when its score is below 20, which is also
\* service.py's threshold for suppressing it, and below 50 it is no Warning.
BandsAgree == /\ Verdict.score \in 0..100
              /\ Verdict.cat = "Normal" <=> Verdict.score < 20
              /\ Verdict.score >= 50 <=> Rank[Verdict.cat] >= 2

\* More anomaly, more confidence or a breach never lower the score or the
\* category: the Critical branch does not undercut the composite, and
\* rounding does not turn the order around.
Monotone == [][/\ Verdict'.score >= Verdict.score
               /\ Rank[Verdict'.cat] >= Rank[Verdict.cat]]_obs
===========================================================================
