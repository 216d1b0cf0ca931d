CONSTANTS
  Issue = {i1}
  NoIssue = NoIssue
  Reported = {}
  Worker = {w1}
  Decider = {d1, d2}
  MaxRun = 1
  MaxAction = 1
  MaxMsg = 0
  MaxSteps = 1
  QueueCap = 1
  MaxCrash = 1
  MaxFault = 1
SPECIFICATION FairSpec
CHECK_DEADLOCK FALSE
PROPERTIES ImplementsLedger BadOutcomeDisarms WorkIsTaken HandoffsResume DecisionsAreHandedOver
