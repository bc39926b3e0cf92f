SPECIFICATION Spec
CONSTANTS
  Tabs = {t1, t2}
  MaxMounts = 2
  MaxTokens = 4
  MaxTroubled = 3
  MaxRequests = 2
  t1 = t1
  t2 = t2
SYMMETRY TabSymmetry
INVARIANTS SingleFlightProtects NoOrphanSession HeaderAgrees
CHECK_DEADLOCK FALSE
