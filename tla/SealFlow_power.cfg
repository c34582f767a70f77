\* Expected to fail: a power loss after a signature was returned.
SPECIFICATION Spec
CONSTANTS
  Callers = {p1}
  Cells = {c1}
  MaxCalls = 2
  Faults = {"powerloss"}
INVARIANTS ReturnedIsRecorded
CHECK_DEADLOCK FALSE
