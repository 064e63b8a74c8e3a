CONSTANTS
  s1 = s1  s2 = s2  skewer = skewer  corn = corn
  street = street  plaza = plaza  alley = alley
  None = None
  NAgents = 3
  Shops = {s1, s2}
  Items = {skewer, corn}
  Tags = {street}
  Locations = {plaza, alley}
  StartLocation <- TrioStart
  InitialBudget <- TrioBudget
  Pace <- TwoPace
  MemorySlots <- TrioSlots
  ShopLocation <- StallLocation
  ServiceTime <- StallService
  QueueCapacity <- TrioCapacity
  Offers <- StallOffers
  Price <- StallPrice
  InitialStock <- StallStock
  ItemTags <- StreetTags
  Distance <- PlazaDistance
  TravelJitter = {0, 3}
  ServiceJitter = {0, 6}
  TalkTime = {4, 15}
  Duration = 23
  WorldMaxEvents = 200
  OptionMaxTime = 0
  OptionMaxEvents = 0
SPECIFICATION FairSpec
INVARIANT ConversationsPaired
PROPERTIES
  ImplementsService
  DueCustomersServed
CHECK_DEADLOCK FALSE
