\* Bounds: two scans, two captures that wait and three processes, two feeds and
\* two refreshes, two ports and the fallback, two addresses and two devices, two
\* calls and accounts, three products, two upstreams and queries, four samples,
\* three indicators in two suspicious queries with a queue of two; three lines of three
\* hosts in tables of one row, nine things a scan finds, over seven years.
CONSTANTS
  one = one
  fifteen = fifteen
  outer = outer
  inner = inner
  stub = stub
  m1 = m1
  m2 = m2
  host1 = host1
  host2 = host2
  NoVersion = NoVersion
  Frames <- MCFrames
  Shorter <- MCShorter
  Group = group
  Private <- MCPrivate
  Rests <- MCRests
  TableCap = 1
  TableBatch = 1
  RateCap = 1
  RateKeep = 0
  Bars = 3
  ChunkLines = 2
  MaxHeard = 3
  MaxSecond = 1
  Facts <- MCFacts
  NoSlug = NoSlug
  Ends <- MCEnds
  ManyPorts = 2
  FirstYear = 1
  LastYear = 7
  u1 = u1
  u2 = u2
  p1 = p1
  p2 = p2
  p3 = p3
  ScanIds = {s1, s2}
  NoScan = NoScan
  Procs = {t1, t2, t3}
  NoProc = NoProc
  MaxStarts = 2
  NFeeds = 2
  Versions = {v1}
  Refreshes = {r1, r2}
  NoRefresh = NoRefresh
  Asked = {port1, port2}
  Fallback = fallback
  NoPort = NoPort
  MaxWaiting = 2
  Ips = {ip1, ip2}
  Macs = {m1, m2}
  NoMac = NoMac
  MaxAwaited = 2
  Calls = {call1, call2}
  NoCall = NoCall
  Accounts = {acc1, acc2}
  NoAccount = NoAccount
  Batches <- MCBatches
  Cycles = {known}
  NoCycles = NoCycles
  Upstreams = {u1, u2}
  Lists <- MCLists
  Queries = {q1, q2}
  Cycle = 2
  RateCount = 1
  RateWindow = 2
  Values = {0, 1, 3}
  MaxSamples = 4
  Suspects = {i1, i2, i3}
  QueueCap = 2
  MaxSeen = 2
  Lookups = {l1, l2}
SPECIFICATION MCSpec
INVARIANTS ScansConsistent ReadingsRight FeedsInForce SocketsKept OneAlertPerDevice
  SessionKept ForwardingFair RowIsExact QueueSound
PROPERTIES CancelledStays TrustIsTheOperators KnownStays JobsEnd CatchesUp
