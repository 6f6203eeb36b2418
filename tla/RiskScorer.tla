---------------------------- MODULE RiskScorer ----------------------------
(***************************************************************************)
(* RiskScorer.score (ai/vitos_ai/scorer.py) and the risk of each intent    *)
(* label (intent.py), over integers: an anomaly score, a label's risk and  *)
(* the classifier's confidence are counted in hundredths, the composite in *)
(* ten-thousandths until it is rounded.  The binary floating-point error   *)
(* of the code's sums is left out.  The confidence is whatever number the  *)
(* model wrote: classify() does not clamp it.                              *)
(***************************************************************************)
EXTENDS Integers

Label == {"BENIGN", "RECON", "EXPLOIT", "EXFIL", "LATERAL", "UNKNOWN"}
Malicious == {"EXPLOIT", "EXFIL", "LATERAL"}
Category == {"Normal", "Suspicious", "Warning", "Critical"}

LabelRisk == [l \in Label |-> IF l = "RECON" THEN 30 
                              ELSE IF l = "EXPLOIT" THEN 90
                              ELSE IF l = "EXFIL" THEN 95
                              ELSE IF l = "LATERAL" THEN 85 ELSE 0]

\* Mutation: no bounds.
Clamp_None(n, lo, hi) == n

\* Python's round: to the nearest integer, a tie to the even one.
Round(n, d) == LET q == n \div d
                   r == n % d
               IN  IF 2 * r > d \/ (2 * r = d /\ q % 2 = 1) THEN q + 1 ELSE q

Clamp(n, lo, hi) == IF n < lo THEN lo ELSE IF n > hi THEN hi ELSE n

\* int(round(min(100, max(0, 60 a + 30 r c + 10 b))))
Composite(anomaly, label, conf, breach) == 
    LET sum == 6000 * anomaly + 30 * LabelRisk[label] * conf 
                 + (IF breach THEN 100000 ELSE 0)
    IN  Round(Clamp(sum, 0, 1000000), 10000)

\* Mutation: the scope is not asked.
IsCritical_AnyScope(anomaly, label, conf, breach) == 
    anomaly > 70 /\ label \in Malicious /\ conf >= 60

IsCritical(anomaly, label, conf, breach) == 
    anomaly > 70 /\ label \in Malicious /\ conf >= 60 /\ breach

\* Mutation: the Critical branch returns 80, not the larger of the two.
Score_Flat(anomaly, label, conf, breach) == 
    IF IsCritical(anomaly, label, conf, breach) 
    THEN [cat |-> "Critical", score |-> 80]
    ELSE LET composite == Composite(anomaly, label, conf, breach)
         IN  [cat |-> IF composite >= 50 THEN "Warning"
                      ELSE IF composite >= 20 THEN "Suspicious"
                      ELSE "Normal", 
              score |-> composite]

\* (AlertCategory, composite), as a record.
Score(anomaly, label, conf, breach) == 
    LET composite == Composite(anomaly, label, conf, breach)
    IN  IF IsCritical(anomaly, label, conf, breach)
        THEN [cat |-> "Critical", 
              score |-> IF composite > 80 THEN composite ELSE 80]
        ELSE [cat |-> IF composite >= 50 THEN "Warning"
                      ELSE IF composite >= 20 THEN "Suspicious"
                      ELSE "Normal", 
              score |-> composite]

Rank == [Normal |-> 0, Suspicious |-> 1, Warning |-> 2, Critical |-> 3]
===========================================================================
