SPECIFICATION Spec
CONSTANTS
  Appends = {"append"}
  Creates = {"create"}
  Fetches = {"fetch"}
  Guarded = {"update"}
  Bare = {"patch"}
  Reads = {"read"}
  InteractiveSlots = 1
  BulkSlots = 1
  MaxTasks = 3
  MaxFaults = 1
  MaxLocal = 1
\* Commands end and nobody has to ask for more.
CHECK_DEADLOCK FALSE
INVARIANTS TypeOK MessageExactlyOnce GuardedWriteIsSeen
PROPERTY InteractiveStarts
