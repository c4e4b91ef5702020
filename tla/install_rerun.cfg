SPECIFICATION InstallationSpec
CONSTANTS
  Places = {home, other}
  Home = home
  NoPlace = NoPlace
  NoDir = NoDir
  MaxData = 2
  MaxScripts = 3
INVARIANTS RerunIsSafe
CHECK_DEADLOCK FALSE
