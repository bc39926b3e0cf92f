SPECIFICATION FairSupplySpec
CONSTANTS
  Lease = 2
  RetryDelays = {2}
  MediaIds = {m1}
  MaxMedia = 1
  Finalizers = {f1, f2}
  Cleaners = {c1}
  UploadTtl = 1
  UploadGrace = 0
  StaleProcessing = 1
  MaxTime = 2
INVARIANTS ReadyHasObject CoverIsReady DeletedImageIsGone ChecklistIsFinal
PROPERTIES WithdrawnForGood UploadsSettle DeletionsEnd
