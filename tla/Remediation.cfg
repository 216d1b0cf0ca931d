CONSTANTS
  Issue = {i1}
  NoIssue = NoIssue
  Reported = {i1}
  Worker = {w1, w2}
  Decider = {d1}
  MaxRun = 2
  MaxAction = 1
  MaxMsg = 1
  MaxSteps = 2
  QueueCap = 1
  MaxCrash = 1
  MaxFault = 0
SPECIFICATION Spec
SYMMETRY Symmetric
CHECK_DEADLOCK FALSE
INVARIANTS TypeOK ClaimExcludes ClosedIsQuiet
PROPERTIES UnknownStays ApprovedAfterReading
