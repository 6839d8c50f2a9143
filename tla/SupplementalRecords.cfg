SPECIFICATION RecordsSpec
CONSTANTS
  a = a
  b = b
  p = p
  q = q
  o = o
  missing = missing
  blob = blob
  NoConsent = NoConsent
  Id <- MCId
  Payload <- MCPayload
  Observation <- MCObservation
  OtherInput <- MCOtherInput
  Consent = {c}
  Observed <- MCObserved
  Records <- MCRecords
  MaxHistory = 5
INVARIANTS
  HistoryMatchesRecords
PROPERTIES
  PinnedReadsStable
  AppendOnlyFrozen
