SPECIFICATION Spec
CONSTANTS
  ann = ann
  bob = bob
  cat = cat
  Person = {ann, bob, cat}
  Admins <- SomeAdmins
  Approvers <- SomeApprovers
  Grant = {g1}
  Job = {j1, j2, j3, j4}
  Absent = Absent
  Empty = Empty
  Torn = Torn
  Kills = FALSE
SYMMETRY Interchangeable
INVARIANTS FreshAfterRevoke
CHECK_DEADLOCK FALSE
