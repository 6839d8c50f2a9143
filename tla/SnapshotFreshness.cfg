CONSTANTS
  poll = poll
  manual = manual
  message = message
  slide = slide
  NoOne = NoOne
  Syncer = {poll, manual}
  Polling = poll
  Item = {message, slide}
  Slide = {slide}
  MaxAnalyses = 2
  MaxStarts = 1
  MaxFailures = 1
  MaxReboots = 1
SPECIFICATION FairSpec
INVARIANTS TypeOK SyncIsProjected
PROPERTY SnapshotCatchesUp
