SPECIFICATION StreamsSpec
CONSTANTS
  MaxRecords = 2
  StreamLimit = 2
  DeferredLimit = 1
  MaxChanges = 1
  MaxFaults = 1
INVARIANTS StreamsTypeOK ShownAtRest
 
