SPECIFICATION Spec
CONSTANTS
  Slots = {s1, s2}
  Professionals = {ann, bob}
  Owners = {own}
  Keys = {k1}
  Ops = {"open", "block", "hold"}
  Clients = {c1, c2}
  Expirers = {}
  Completers = {}
  StartsAt <- MCStartsAt
  EndsAt <- MCEndsAt
  DayStart = 1
  HoldTtl = 1
  CancelWindow = 1
  MaxTime = 1
  MaxHolds = 2
SYMMETRY MCSymmetry
PROPERTIES ImplementsLifecycle
