SPECIFICATION Spec
CONSTANTS
  c1 = c1
  c2 = c2
  c3 = c3
  NoRow = NoRow
  Client <- Clients3
  Addr = {1, 2, 3}
  RangeStart = 1
  RangeEnd = 3
  LeaseTime = 2
  Prompt = TRUE
  InitReboot = TRUE
  Edits = {}
  MaxPending = 2
  MaxReservations = 2
  InitReservations <- Reserved3
  InitExcluded = {}
INVARIANTS IInv Exclusive OfferStands
PROPERTIES ImplementsAuthority
CHECK_DEADLOCK FALSE
