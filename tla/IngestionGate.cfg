CONSTANTS
  Message <- MCMessage
  Revision <- MCRevision
  Slide <- MCSlide
  Detail = {"few"}
  Requests <- MCRequests
  EntityTypes <- MCEntityTypes
  Systems = {"sys:gate"}
  Schemas <- MCSchemas
  Observers <- MCObservers
  Projections = {"proj:identity-resolution"}
  Versions <- MCVersions
  MaxClockSkew = 1
  MaxClock = 1
  MaxLake = 2
SPECIFICATION Spec
INVARIANTS
  DefinitionsResolve
  CrawlersAdmitted
  ToldIsKept
PROPERTIES
  AcceptedStaysAccepted
