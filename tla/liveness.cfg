SPECIFICATION FairSpec
CONSTANTS
  Slots = {s1}
  Professionals = {ann}
  Owners = {own}
  Keys = {k1}
  Ops = {"open", "hold", "confirm", "cancel"}
  Clients = {c1}
  Expirers = {e1}
  Completers = {w1, w2}
  StartsAt <- MCStartsAt
  EndsAt <- MCEndsAt
  DayStart = 1
  HoldTtl = 1
  CancelWindow = 1
  MaxTime = 3
  MaxHolds = 1
INVARIANTS OutboxTellsBooking
PROPERTIES
  ExpiredHoldsEnd
  EndedBookingsComplete
  CallsEnd
