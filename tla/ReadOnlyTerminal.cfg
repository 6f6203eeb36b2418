SPECIFICATION Spec
CONSTANTS
  User = {ann}
  Key = {k1}
  Req = {r1, r2}
  None = None
  Op = {"ro", "rw"}
  Lab = {l1}
  n1 = n1
  Net = {n1}
  VethOf <- SharedVeth
  Proc = {p1, p2}
  Ttl = 0
  MaxTime = 1
  MaxFaults = 1
INVARIANTS ReadOnlyTerminal
CHECK_DEADLOCK FALSE
