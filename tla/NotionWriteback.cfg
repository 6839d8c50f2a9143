CONSTANTS
  poll = poll
  manual = manual
  alice = alice
  bob = bob
  Writer = {poll, manual}
  Reviewer = {manual}
  Entity = {alice}
  MaxVersion = 2
  Pictured = {2}
  sns = sns
  mbti = mbti
  Field = {sns, mbti}
  Filled <- ProfileFields
  MaxPage = 3
  MaxBlock = 16
  MaxNotes = 1
  MaxStarts = 4
  MaxFailures = 1
SPECIFICATION Spec
CHECK_DEADLOCK FALSE
INVARIANTS
  NotesKept
  LastWriteIsShown
  OnePagePerEntity
