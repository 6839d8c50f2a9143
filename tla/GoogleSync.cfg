CONSTANTS
  poll = poll
  manual = manual
  Syncer = {poll, manual}
  Polling = poll
  PageSize = 1
  MaxRevision = 3
  MaxFailures = 1
  MaxStarts = 1
SPECIFICATION FairSpec
INVARIANTS FinishedSyncIsCurrent ContentNeverOlder CursorCaptured
PROPERTY LatestGetsCaptured
