SPECIFICATION MCSpec
CONSTANTS
  site = site
  host = host
  Name = {site, host}
  Local = {host}
  Client = {c1, c2}
  Group = {0, 1}
  Default = 0
  ManualId = {1}
  ManualRow <- SomeManualRows
  NewPrio = 2
  AdlistId = {1, 2}
  AdlistRow <- SomeAdlistRows
  Starter <- BuiltIn
  Subscribed <- Public
  Subscriptions = 1
  Content <- SomeContent
  Worker = {w1}
  PauseTime = 1
  Ips = {ip1, ip2}
  GroupNames = {kids, guests}
  Nicknames = {tv, none}
  NoName = none
  MaxRows = 2
  MaxGroups = 1
  MaxSends = 1
  KeepLines = 2
  PruneEvery = 2
  BucketLen = 2
  Buckets = 3
  MaxBoots = 1
  MostDays = 1
  MostLines = 2
  Typed = {2}
  ListIds = {1, 2, 3}
  FirstPrio = 2
  PrioRange = {0, 1, 2, 3, 4}
  Dns = {alice, bob}
  Typings = {typed}
  MaxUnderWay = 1
  MaxPressed = 2
  Hosts = {h1, h2}
  ServerIp <- OwnAddress
  Mask <- WholeNet
  OptionSets <- SomeOptions
  DnsLists <- SomeDnsLists
  MaxChanges = 2
  Probes = {p1, p2}
  Own = own
  Rogues = {rogue}
  PoolSize = 1
  ManyPackets = 0
  MaxPresses = 2
  MaxHappenings = 1
CHECK_DEADLOCK FALSE
INVARIANTS AnswersByTheTables ServicesKept
