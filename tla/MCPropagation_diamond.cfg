CONSTANTS
  price = price  tax = tax  total = total  flag = flag
  Vars = {price, tax, total, flag}
  Kind <- DiamondKinds
  Incoming <- DiamondEdges
  InitialValue <- DiamondStart
  Inputs = {price, tax, total, flag}
  Amounts = {0, 2}
  MaxCalls = 2
SPECIFICATION LibrarySpec
INVARIANTS
  StaleClosed
  ComputedFromFresh
  CleanMeansConsistent
PROPERTIES
  PullIsMinimal
  ImplementsFreshness
