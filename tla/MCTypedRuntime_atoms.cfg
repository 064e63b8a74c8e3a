CONSTANTS
  bond = bond  trail = trail  flash = flash  tick = tick
  None = None
  TypeOf <- LampType
  RelationTypes = {bond, trail}
  EventTypes = {flash, tick}
  NameRank <- Ranks
  InitialValue <- Zero
  NEntities = 3
  MaxTotal <- AtomTotal
  MaxPerEntity <- AtomPerEntity
  InitialRelations <- AtomRelations
  InitialEvents <- LampEvents
  TickInterval = 2
  TickType = tick
  Duration = 3
  WorldMaxEvents = 6
  OptionMaxTime = 2
  OptionMaxEvents = 5
  Systems <- LampSystems
  Values = {0}
  Lifetimes = {1,2,3}
  EmitTimes = {0,1,2,3}
SPECIFICATION Spec
INVARIANTS
  RelationBoundsKept
  ActiveRelationsOnly
  RecordedInOrder
  CausalLinksSound
  NothingDueIsDropped
PROPERTY
  RunEnds
CHECK_DEADLOCK FALSE
