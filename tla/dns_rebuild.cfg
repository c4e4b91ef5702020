SPECIFICATION RebuildSpec
CONSTANTS
  site = site
  host = host
  Name = {site}
  Local = {site}
  Client = {}
  Group = {0}
  Default = 0
  ManualId = {}
  ManualRow <- OneManualRow
  NewPrio = 2
  AdlistId = {1, 2, 3, 4}
  AdlistRow <- SwitchedRows
  Starter <- BuiltIn
  Subscribed <- Public
  Subscriptions = 1
  Content <- SomeContent
  Worker = {w1, w2}
  PauseTime = 0
CHECK_DEADLOCK TRUE
INVARIANTS
  CompiledFresh
PROPERTIES
  Settles
