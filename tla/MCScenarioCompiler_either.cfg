SPECIFICATION Spec
CONSTANTS
  None = None
  NaN = NaN
  Scenarios <- MCScenarios
  Registered <- MCRegistered
  HandleRank <- MCHandleRank
  FanOutLimit = 1
  DepthLimit = 1
INVARIANT
  SatisfiedConstraintsPass
