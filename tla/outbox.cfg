SPECIFICATION FairSpec
CONSTANTS
  Lease = 2
  RetryDelays = {1}
  Deliverers = {w1, w2}
  MaxEvents = 2
  BatchLimit = 2
  MaxTime = 3
INVARIANTS OneOwner
PROPERTIES DeliverySpec EventsDelivered
CHECK_DEADLOCK FALSE
