SPECIFICATION Spec
CONSTANTS
  MaxFails = 3
  FailWindow = 2
  LockTime = 2
  Lifetime = 2
  IdleTime = 1
  MaxSessions = 2
  MaxTokens = 3
  MaxPassword = 2
  MaxAsleep = 2
  Overlap = TRUE
  Ops = {"setup", "right", "wrong", "logout", "change"}
  Crashes = FALSE
INVARIANTS EndedStaysEnded
CHECK_DEADLOCK FALSE
