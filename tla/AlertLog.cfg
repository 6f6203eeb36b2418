SPECIFICATION FairSpec
CONSTANTS
  Student = {ann, bob}
  Tail_ = {t1}
  MaxAlerts = 3
  MaxCrashes = 2
  MaxSweeps = 1
  BackBuf = 4
  Back = 2
  ReportRows = 1
INVARIANTS TypeOK TailExact ReadsCurrent
PROPERTIES Delivered
CHECK_DEADLOCK FALSE
