\* Bounds: one source and one zone, three rules at a time, order numbers up to 3, which a
\* PATCH may make the first, two services;
\* traffic around each threshold; one kind of detection, and a cooldown, a memory of
\* a changed address, a pause and a feed of one each.  For the map two domains, one of them empty, three
\* computers, devices and machines at a time, and answers kept for one tick.
CONSTANTS
  Home = Home
  Away = Away
  Domains = {Home, Away}
  NoDomain = NoDomain
  Computers <- SomeComputers
  Sightings <- SomeSightings
  Nameless = ""
  GatewayIp = 1
  OwnIp = 2
  Machines <- SomeMachines
  KeptFor = 1
  MaxKnown = 3
  s1 = s1
  z1 = z1
  Sources = {s1}
  Zones = {z1}
  SeedZones <- OneSeedZone
  AnySource = AnySource
  web = web
  Services = {web, rdp}
  Rules = {r1, r2, r3}
  MaxOrder = 3
  ByHand = {1}
  Traffic <- MCTraffic
  DetectKeys = {k1}
  ArpKey = arp
  HostMacs = {m1, m2}
  NoMac = NoMac
  Cool = 1
  FlipTtl = 1
  PauseTicks = 1
  RingCap = 1
SPECIFICATION MCSpec
SYMMETRY RuleNames
INVARIANTS PolicyOrdered ThreatsHandled AlertsKept
PROPERTIES AddedDecidesTheRest IsRuleList
CHECK_DEADLOCK FALSE
