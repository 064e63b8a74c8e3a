CONSTANTS
  bond = bond  trail = trail  flash = flash  tick = tick
  None = None
  TypeOf <- AllAtoms
  RelationTypes = {bond, trail}
  EventTypes = {flash, tick}
  NameRank <- Ranks
  InitialValue <- Zero
  NEntities = 2
  MaxTotal <- NoBounds
  MaxPerEntity <- NoBounds
  InitialRelations <- AtomRelations
  InitialEvents <- NoEvents
  TickInterval = 1
  TickType = tick
  Duration = 1
  WorldMaxEvents = 6
  OptionMaxTime = 0
  OptionMaxEvents = 0
  Systems <- AtomSystems
  Values = {0}
  Lifetimes = {1}
  EmitTimes = {}
SPECIFICATION Spec
INVARIANT
  RelationLoopStaysPut
CHECK_DEADLOCK FALSE
