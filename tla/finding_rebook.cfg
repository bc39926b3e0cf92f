SPECIFICATION Spec
CONSTANTS
  Slots = {s1}
  Professionals = {ann, bob}
  Owners = {own}
  Keys = {k1}
  Ops = {"open", "hold", "confirm", "cancel"}
  Clients = {c1}
  Expirers = {}
  Completers = {}
  StartsAt <- MCStartsAt
  EndsAt <- MCEndsAt
  DayStart = 1
  HoldTtl = 1
  CancelWindow = 1
  MaxTime = 2
  MaxHolds = 2
INVARIANT HistoryNeverRefusesConfirm
