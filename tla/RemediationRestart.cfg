CONSTANTS
  Issue = {i1}
  NoIssue = NoIssue
  Reported = {i1}
  Worker = {w1}
  Decider = {d1}
  MaxRun = 1
  MaxAction = 1
  MaxMsg = 1
  MaxSteps = 2
  QueueCap = 1
  MaxCrash = 1
  MaxFault = 0
SPECIFICATION Spec
CHECK_DEADLOCK FALSE
PROPERTIES LiveRunsAreKept
