SPECIFICATION FairSpec
CONSTANTS
  Installations = {a, b}
  Codes = {c1, c2}
  None = None
  MaxSockets = 2
  MaxFaults = 1
  MaxStarts = 1
CHECK_DEADLOCK FALSE
INVARIANTS OneGrantBinds OnlyOwnerIsInstalled RevokedLeavesNothing
 
