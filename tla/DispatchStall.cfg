SPECIFICATION Spec
CONSTANTS
  r1 = r1
  r2 = r2
  f1 = f1
  f2 = f2
  w1 = w1
  w2 = w2
  a1 = a1
  i1 = i1
  NoToken = 0
  NoJob = NoJob
  NoRequest = NoRequest
  Author = {a1}
  Instance = {i1}
  AuthorOf <- OneAuthor
  InstanceOf <- OneInstance
  MaxAttempts = 2
  Request = {r1}
  Format = {f1}
  Worker = {w1, w2}
  Token = {1, 2, 3, 4}
  MaxFaults = 1
  NativeImport = TRUE
  AllowStall = TRUE
SYMMETRY Symmetry
INVARIANT WritesAreMarked
PROPERTY FencedOutcome
CHECK_DEADLOCK FALSE
