SPECIFICATION FairSpec
CONSTANTS
  User = {ann}
  Key = {k1}
  Req = {r1, r2}
  None = None
  Op = {"freeze", "isolate", "release", "report", "ro", "rw", "kill"}
  Lab = {l1, l2}
  n1 = n1
  Net = {n1}
  VethOf <- SharedVeth
  Proc = {p1, p2}
  Ttl = 0
  MaxTime = 1
  MaxFaults = 1
INVARIANTS TypeOK Authorised Audited LinkExplained NoOrphan WritableAsked
PROPERTIES TerminalEnds
CHECK_DEADLOCK FALSE
