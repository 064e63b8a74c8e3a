CONSTANTS
  s1 = s1  s2 = s2  skewer = skewer  corn = corn
  street = street  plaza = plaza  alley = alley
  None = None
  NAgents = 2
  Shops = {s1, s2}
  Items = {skewer, corn}
  Tags = {street}
  Locations = {plaza, alley}
  StartLocation <- TwoStart
  InitialBudget <- TwoBudget
  Pace <- TwoPace
  MemorySlots <- TwoSlots
  ShopLocation <- StallLocation
  ServiceTime <- StallService
  QueueCapacity <- StallCapacity
  Offers <- StallOffers
  Price <- StallPrice
  InitialStock <- StallStock
  ItemTags <- StreetTags
  Distance <- PlazaDistance
  TravelJitter = {0}
  ServiceJitter = {0, 5}
  TalkTime = {4}
  Duration = 70
  WorldMaxEvents = 200
  OptionMaxTime = 62
  OptionMaxEvents = 80
SPECIFICATION Spec
INVARIANTS
  QueueCounted
  NobodyDropsOut
  MemoriesBoundedAndFresh
  LedgerBalanced
  NothingDueIsDropped
CHECK_DEADLOCK FALSE
