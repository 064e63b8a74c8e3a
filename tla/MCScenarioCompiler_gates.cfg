SPECIFICATION Spec
CONSTANTS
  None = None
  NaN = NaN
  Scenarios <- MCScenarios
  Registered <- MCRegistered
  HandleRank <- MCHandleRank
  FanOutLimit = 1
  DepthLimit = 1
INVARIANTS
  CyclesFound
  ReportExact
  AcceptedReferencesResolve
  AcceptedConstraintsHold
  CompilesUnlessUnsupported
  CompiledTablesSound
