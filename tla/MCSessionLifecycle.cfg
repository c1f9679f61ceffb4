CONSTANTS
  s1 = s1
  s2 = s2
  c1 = c1
  c2 = c2
  startup = startup
  v3 = v3
  v4 = v4
  Sessions <- MCSessions
  Callers <- MCCallers
  Startup = startup
  Files <- MCFiles
  Log = v4
  MaxTime = 2
  MaxFaults = 2
SYMMETRY MCSymmetry
SPECIFICATION Spec
INVARIANTS
  IntentComesFirst
  PurgedIsErased
  TrashSurvives
PROPERTIES
  EraserHoldsTheLog
  RestoreKeepsPlace
