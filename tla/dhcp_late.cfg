SPECIFICATION LiveSpec
CONSTANTS
  c1 = c1
  c2 = c2
  c3 = c3
  NoRow = NoRow
  Client <- Clients2
  Addr = {1, 2, 3}
  RangeStart = 1
  RangeEnd = 2
  LeaseTime = 1
  Prompt = FALSE
  InitReboot = FALSE
  Edits = {}
  MaxPending = 2
  MaxReservations = 2
  InitReservations <- ReservedElsewhere
  InitExcluded = {}
PROPERTIES NoTakeover Served
CHECK_DEADLOCK FALSE
