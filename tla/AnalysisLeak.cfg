SPECIFICATION Spec
CONSTANTS
  server = server
  review = review
  sync = sync
  poll = poll
  batch = batch
  k1 = k1
  k2 = k2
  k3 = k3
  b1 = b1
  NoKey = NoKey
  NoDraft = NoDraft
  Key <- MCKey
  Blob <- MCBlob
  Instance <- MCServer
  Worker <- MCServerWorkers
  InstanceOf <- MCOneServer
  Draft <- MCAnalysisDrafts
  MaxClockSkew = 1
  MaxClock = 3
INVARIANTS
  RamMatchesDisk
