\* Expected to fail: an interrupt between key generation and the try block.
SPECIFICATION Spec
CONSTANTS
  Callers = {p1}
  Cells = {c1}
  MaxCalls = 1
  Faults = {"interrupt"}
INVARIANTS KeyWipedOnEveryExit
CHECK_DEADLOCK FALSE
