SPECIFICATION EitherSpec
CONSTANTS
  Text <- MCText
  Names <- MCNames
  Programs <- MCListings
  Policies <- MCPolicies
  MaxLines = 4
  MaxCycles = 60
INVARIANTS DagExact CountsExact DependenciesRespected SemanticsPreserved SimulationAgrees StallHasCause QueueExact
PROPERTIES Termination SameAsSchedule
CHECK_DEADLOCK FALSE
