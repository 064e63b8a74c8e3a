CONSTANTS
  price = price  tax = tax  total = total  flag = flag  label = label
  rate = rate  fee = fee
  Vars = {price, tax, total, flag, label, rate, fee}
  Kind <- ShopKinds
  Incoming <- ShopEdges
  InitialValue <- AllOne
  Events = {1, 2, 3, 4}
  Time <- ShopTime
  Priority <- ShopPriority
  Known = {1, 2, 3}
  Payloads <- ShopPayloads
  Constraints <- ShopConstraints
SPECIFICATION FairSpec
INVARIANTS
  SettledWhenChecked
  HandledInOrder
  SuccessKeepsConstraints
PROPERTIES
  CallsReturn
CHECK_DEADLOCK FALSE
