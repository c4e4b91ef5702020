\* Bounds of the account: three failures, two sessions kept of three issued, three
\* passwords; five sign-ins asleep where they overlap.  Five moves of a user at the
\* sign-in pages, two facts and connections of the live view, three fetches, two
\* terminals, two calls for one name, two machines and keys, three scripts.
\* Two helpers and watchdogs, two enables, a heartbeat stale after two ticks; two
\* scanners, two connections.
CONSTANTS
  MaxFails = 3
  FailWindow = 2
  LockTime = 2
  Lifetime = 2
  IdleTime = 1
  MaxSessions = 2
  MaxTokens = 3
  MaxPassword = 3
  MaxAsleep = 1
  Overlap = FALSE
  Ops = {"setup", "right", "wrong", "verify", "logout", "change", "reset", "tick"}
  Crashes = TRUE
  MaxMoves = 5
  Facts = 2
  EventCap = 2
  AlertCap = 1
  Conns = {k1, k2}
  Machines = {"vm4"}
  SimRules = {5}
  SeriesLen = 1
  MetricCap = 2
  MaxCommands = 2
  MaxPoints = 2
  Paths = {path1, path2}
  NoPath = NoPath
  MaxFetches = 3
  MaxVersion = 2
  Sockets = {s1, s2}
  NoSocket = NoSocket
  MaxLoads = 2
  Names = {n1}
  Adds = {a1, a2}
  NoUser = NoUser
  Operator = Operator
  NoPassword = NoPassword
  Vms = {v1, v2}
  NoVm = NoVm
  Refreshing = {r1, r2}
  NoKey = NoKey
  TornFile = TornFile
  MaxKeys = 2
  Places = {home, other}
  Home = home
  NoPlace = NoPlace
  NoDir = NoDir
  MaxData = 2
  MaxScripts = 3
  Helpers = {h1, h2}
  Dog = {w1, w2}
  Off = Off
  NoFile = NoFile
  Original = 0
  StaleAge = 2
  MaxEnables = 2
  Calm = TRUE
  Aborts = TRUE
  ScannerUrls = {u1, u2}
  NoUrl = NoUrl
  Connects = {c1, c2}
  TornSettings = TornSettings
SPECIFICATION MCSpec
INVARIANTS AccountExact PagesKept SecretsKept InstallationKept RoutingWatched Recoverable
PROPERTIES LockoutSticks ConsoleSettles NothingComesBack WatchdogSparesLive
CHECK_DEADLOCK FALSE
