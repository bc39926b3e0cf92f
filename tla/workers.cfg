SPECIFICATION FairSpec
CONSTANTS
  Jobs = {"hold-expiry", "media-cleanup"}
  StartupGrace = 2
  StaleAfter = 1
  ShutdownGrace = 1
  DashboardStale = 1
INVARIANTS ReadyIsPersisted SparedWhenCalm StaleIsCaught
PROPERTIES HungJobEndsProcess ShutdownEnds RecoversAfterFaults
