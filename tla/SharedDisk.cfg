SPECIFICATION Spec
CONSTANTS
  server = server
  review = review
  sync = sync
  poll = poll
  batch = batch
  k1 = k1
  k2 = k2
  k3 = k3
  b1 = b1
  NoKey = NoKey
  NoDraft = NoDraft
  Key <- MCKey
  Blob <- MCBlob
  Instance <- MCBoth
  Worker <- MCAllWorkers
  InstanceOf <- MCServerAndReview
  Draft <- MCSharedDrafts
  MaxClockSkew = 1
  MaxClock = 3
INVARIANTS
  TypeOK
  LakesWellFormed
  CapturedIsDurable
  CanRestart
  AttachmentsKept
PROPERTIES
  NoDurableLoss
  ImplementsCaptureLog
SYMMETRY MCSymmetry
