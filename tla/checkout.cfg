SPECIFICATION Spec
CONSTANTS
  Slots = {s1, s2}
  Spent = {s2}
  s1 = s1
  s2 = s2
  HoldTtl = 1
  CancelWindow = 1
  StartsAt = 2
  MaxTime = 1
  MaxActions = 3
  MaxMounts = 2
  MaxFaults = 1
INVARIANTS QuietPageAgrees RetryIsNotRefused AnswerIsOfThisAttempt
CHECK_DEADLOCK FALSE
