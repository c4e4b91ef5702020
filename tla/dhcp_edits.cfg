SPECIFICATION Spec
CONSTANTS
  c1 = c1
  c2 = c2
  c3 = c3
  NoRow = NoRow
  Client <- Clients2
  Addr = {1, 2}
  RangeStart = 1
  RangeEnd = 2
  LeaseTime = 1
  Prompt = TRUE
  InitReboot = TRUE
  Edits = {"reserve", "exclude", "delete", "filter", "scope"}
  MaxPending = 1
  MaxReservations = 1
  InitReservations <- NoReservations
  InitExcluded = {}
SYMMETRY Symmetric
INVARIANTS Exclusive
CHECK_DEADLOCK FALSE
