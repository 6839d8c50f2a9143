SPECIFICATION Spec
CONSTANTS
  heuristic = heuristic
  gemini = gemini
  thumbnail = thumbnail
  NoConsent = NoConsent
  Id <- MCId
  Payload <- MCPayload
  Observation <- MCObservation
  OtherInput <- MCOtherInput
  Consent = {}
  Decks <- MCDecks
  Slides <- MCSlides
  Titles <- MCTitles
  Limit = 2
  Model <- MCModel
  Heuristic = heuristic
  MaxHistory = 5
  MaxMisses = 1
  Placeholders = {"n/a", "none"}
  AddressIn <- MCAddressIn
  NameLike <- MCNameLike
  GeminiReads <- MCGeminiReads
INVARIANTS
  CacheMatchesTable
  CanRestart
  AnalysesSettle
