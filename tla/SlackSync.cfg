SPECIFICATION FairSpec
CONSTANTS
  startup = startup
  poll = poll
  Worker <- MCWorker
  Poller = poll
  PageSize = 1
  MaxTs = 3
  MaxFailures = 1
INVARIANTS
  CursorsCover
PROPERTIES
  FinishedSyncIsComplete
  MessagesGetCaptured
  KnownThreadsGetCaptured
