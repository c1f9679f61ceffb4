SPECIFICATION Spec
CONSTANTS
  Runtimes = {r1, r2}
  Ids = {a}
  Lists = {"list"}
  Changes = {"change"}
  Edited = {r1}
  MaxLocal = 1
  MaxFaults = 1
\* Requests end and nobody has to ask another.
CHECK_DEADLOCK FALSE
INVARIANTS NoLostWakeup EachRuntimeOnce 
PROPERTY BodiesAreForgotten
