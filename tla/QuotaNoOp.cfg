SPECIFICATION Spec
CONSTANTS
  User = {u1, u2}
  Admin = {u2}
  Request = {r1}
  Format = {f1, f2}
  MaxCharges = 3
  Settings <- MCSettings
  MaxWindow = 2
  NoUser = NoUser
  NoFormat = NoFormat
SYMMETRY Symmetry
INVARIANT NoOpIsNotCharged
CHECK_DEADLOCK FALSE
