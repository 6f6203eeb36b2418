SPECIFICATION ScorerSpec
CONSTANTS
  Anomalies = {0, 5, 15, 20, 33, 45, 55, 65, 70, 71, 75, 83, 84, 90, 100}
  Confidences = {0, 10, 30, 50, 59, 60, 61, 75, 90, 99, 100, 150, 300}
INVARIANTS HardRule BandsAgree
PROPERTIES Monotone
CHECK_DEADLOCK FALSE
