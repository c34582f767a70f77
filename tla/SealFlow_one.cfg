\* One writer that is killed, interrupted and restarted, in its own process or with a worker.
SPECIFICATION Spec
CONSTANTS
  Callers = {p1}
  Cells = {c1, c2}
  MaxCalls = 4
  Faults = {"kill", "interrupt"}
INVARIANTS TypeOK ReturnedIsRecorded
PROPERTIES ConsumedOnlyByGoodSeal IsOneTimeSeal
CHECK_DEADLOCK FALSE
