SPECIFICATION GatewaySpec
CONSTANTS
  Helpers = {h1, h2}
  Dog = {w1, w2}
  Off = Off
  NoFile = NoFile
  Original = 0
  StaleAge = 2
  MaxEnables = 2
  Calm = FALSE
  Aborts = FALSE
INVARIANTS NeverStranded
CHECK_DEADLOCK FALSE
