SPECIFICATION FairSpec
CONSTANTS
  MaxActive = 2
  MaxTasks = 3
  MaxActions = 2
  MaxImages = 3
  MaxDays = 2
  MaxExpiries = 1
  MaxFaults = 1
INVARIANTS QuietListAgrees QuietOrderAgrees QuietPanelAgrees
PROPERTIES ConsoleSettles
CHECK_DEADLOCK FALSE
