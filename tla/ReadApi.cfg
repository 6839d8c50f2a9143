CONSTANTS
  LowerCase <- MCLowerCase
  Observed <- MCObserved
  Profiles <- MCProfiles
  Modes <- MCModes
  Limits = {3}
  MaxPageSize = 2
  MaxLake = 4
  MaxClock = 3
SPECIFICATION Spec
INVARIANTS
  ReplayGivesSamePersons
  NothingLost
  RichestIntroduces
  ListingIsComplete
  IdentitiesHidden
