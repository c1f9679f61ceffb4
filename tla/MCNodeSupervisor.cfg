SPECIFICATION Spec
CONSTANTS
  Plugins = {p1, p2}
  Disabled = {}
  SnapshotTypes = {"fleet"}
  MaxVersion = 2
  MaxRequests = 3
  MaxFaults = 2
  MaxEdits = 1
INVARIANTS TypeOK PointOfReturn ProtectedFirst AllOrNothing
PROPERTY HistoryIsTrue
SYMMETRY Symmetry
CHECK_DEADLOCK FALSE
