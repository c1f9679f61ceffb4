SPECIFICATION FairSpec
CONSTANTS
  Installations = {a}
  Codes = {c1}
  None = None
  MaxSockets = 2
  MaxFaults = 1
  MaxStarts = 0
CHECK_DEADLOCK FALSE
PROPERTY EnrolledGetsIn
