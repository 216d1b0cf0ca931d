SPECIFICATION Spec
CONSTANTS
  User = {u1, u2}
  Admin = {}
  Request = {r1, r2}
  Format = {f1, f2}
  MaxCharges = 2
  Settings <- MCSettings
  MaxWindow = 2
  NoUser = NoUser
  NoFormat = NoFormat
SYMMETRY Symmetry
INVARIANT TypeOK
INVARIANT NoFreeRide
INVARIANT RefundsAreFinal
INVARIANT OneRowPerFormat
INVARIANT SubscribersAreAccounted
PROPERTY NeverOverAdmitted
CHECK_DEADLOCK FALSE
