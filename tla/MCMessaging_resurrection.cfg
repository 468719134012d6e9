CONSTANTS
  User = {u1, u2}
  Text = {t1, t2}
  ClientId = {c1}
  Request = {r1, r2}
  MaxRequests = 3
  MaxMessages = 3
  Failures = FALSE
  None = None
SYMMETRY Symmetry
SPECIFICATION Spec
PROPERTY TombstoneIsFinal
CHECK_DEADLOCK FALSE
