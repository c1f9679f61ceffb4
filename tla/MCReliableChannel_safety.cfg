CONSTANTS
  Body = {p, q, ack, resync, status}
  Payload = {p, q}
  Ack = ack
  Resync = resync
  Status = status
  MaxRecords = 3
  Retain = 1
  MaxBusiness = 1
  MaxFaults = 2
  MaxGeneration = 4
SPECIFICATION Spec
INVARIANTS NothingLost WorkIsKept
PROPERTY ImplementsDelivery
CHECK_DEADLOCK FALSE
