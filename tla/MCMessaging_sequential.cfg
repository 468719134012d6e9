CONSTANTS
  User = {u1, u2}
  Text = {t1, t2}
  ClientId = {c1}
  Request = {r1}
  MaxRequests = 3
  MaxMessages = 3
  Failures = TRUE
  None = None
SYMMETRY Symmetry
SPECIFICATION Spec
INVARIANT NoGhostBroadcast
INVARIANT LastMessageExact
PROPERTY TombstoneIsFinal
PROPERTY TombstoneIsFrozen
PROPERTY ArrivesUnread
CHECK_DEADLOCK FALSE
