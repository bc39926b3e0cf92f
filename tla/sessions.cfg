SPECIFICATION Spec
CONSTANTS
  Users = {u1}
  Admins = {}
  Calls = {c1, c2, c3}
  Ttl = 1
  Horizon = 1
  MaxSessions = 3
  u1 = u1
  c1 = c1
  c2 = c2
  c3 = c3
SYMMETRY CallSymmetry
INVARIANTS LiveIsNewest ReuseEndsFamily RotatedNeverOutlivesSuspension
PROPERTIES ImplementsFamily
CHECK_DEADLOCK FALSE
