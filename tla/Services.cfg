\* One requester's tag, two season or pilot requests of one series, two
\* follows of one series, two callers of one Grok account, one request and its
\* alerts, two administrators of one profile, two users of one media account
\* or one user of two, two users signing in by two requests and a browser;
\* one failure, stall or crash in each (two in the profile, none with two
\* media users).
CONSTANTS
  Party = {n1, n2}
  NoParty = none
  Tag = {j1}
  Token = {1, 2, 3, 4, 5}
  NoToken = 0
  Lidarr = TRUE
  MaxAttempts = 2
  MaxRefresh = 2
  Season = {1, 2}
  Episode = {1}
  MaxSearch = 2
  DeviceLogin = {d1}
  MaxGrant = 2
  MaxRenewal = 3
  Request = {r1}
  Unit = {m1}
  MaxTries = 2
  MaxSave = 1
  Value = {1, 2}
  MaxProposal = 2
  MaxChange = 3
  ProfileFaults = 2
  MediaAccount = {x1}
  MediaFaults = 0
  Mover = {u1}
  Address = {x1, x2}
  SignCall = {x1, x2}
  MaxStart = 2
  MaxPolicy = 2
  MaxToken = 2
  MaxFault = 1
SPECIFICATION Spec
SYMMETRY Symmetry
\* The parts end: bounds on faults, attempts and searches are reached.
CHECK_DEADLOCK FALSE
INVARIANTS
  TypeOK
  TagsAreRight
  SeasonsAreRight
  SearchesAreKnown
  TokensAreKept
  ChangesAreKnown
  AccountsAreKnown
  SignInsAreSound
PROPERTIES
  WorkIsWanted
  AlertsAreNews
