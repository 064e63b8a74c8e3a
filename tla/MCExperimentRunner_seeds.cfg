CONSTANTS
  price = price  shops = shops  table = table  field = field  nowhere = nowhere
  low = low  high = high  bad = bad
  Definitions <- Small
  Targets = {price, shops, table, field, nowhere}
  TypedFields = {field}
  Values = {low, high, bad}
  Rejected = {bad}
  Base <- SmallBase
  MasterSeed = 1
  Seeds = {1, 2}
  Draws = {1, 2}
  Numbers = {1, 2}
  Text = Text
  Absent = Absent
  Thrown = Thrown
  None = None
SPECIFICATION Spec
INVARIANTS
  EveryRunReported
  Reproducible
  SuccessMeansComplete
  AggregatesExplained
CHECK_DEADLOCK FALSE
