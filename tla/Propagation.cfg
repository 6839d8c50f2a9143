CONSTANTS
  builder = builder
  Projection = {1, 2, 3}
  Worker = {builder}
  ProjectionSpec <- MCProjectionSpec
  MaxLake = 1
  MaxEdits = 1
SPECIFICATION Spec
INVARIANTS
  OrderIsRight
  NothingSkipped
  FailureIsVisible
PROPERTIES
  RegisterKeepsAcyclic
