\* Two writers on one file, against its single-writer assumption, and power losses.
SPECIFICATION FairSpec
CONSTANTS
  Callers = {p1, p2}
  Cells = {c1, c2}
  MaxCalls = 2
  Faults = {"kill", "powerloss"}
INVARIANTS KeyWipedOnEveryExit NeverTorn
PROPERTIES EveryCallEnds
CHECK_DEADLOCK FALSE
