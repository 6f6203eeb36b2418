SPECIFICATION Spec
CONSTANTS
  ann = ann
  bob = bob
  cat = cat
  Person = {ann, bob, cat}
  Admins <- SomeAdmins
  Approvers <- SomeApprovers
  Grant = {g1, g2}
  Job = {j1, j2, j3, j4, j5}
  Absent = Absent
  Empty = Empty
  Torn = Torn
  Kills = TRUE
SYMMETRY Interchangeable
INVARIANTS TypeOK DualControl FreshWhenAlone RequestKept
CHECK_DEADLOCK FALSE
