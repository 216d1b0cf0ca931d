CONSTANTS
  Issue = {i1}
  NoIssue = NoIssue
  Reported = {}
  Worker = {w1}
  Decider = {d1, d2}
  MaxRun = 1
  MaxAction = 3
  MaxMsg = 0
  MaxSteps = 4
  QueueCap = 1
  MaxCrash = 0
  MaxFault = 0
SPECIFICATION Spec
SYMMETRY Symmetric
CHECK_DEADLOCK FALSE
INVARIANTS UnknownIsFinal
