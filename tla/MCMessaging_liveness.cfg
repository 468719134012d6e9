CONSTANTS
  User = {u1, u2}
  Text = {t1}
  ClientId = {c1}
  Request = {r1, r2}
  MaxRequests = 2
  MaxMessages = 2
  Failures = FALSE
  None = None
SPECIFICATION FairSpec
PROPERTY MessagesAreAnnounced
PROPERTY RequestsEnd
CHECK_DEADLOCK FALSE
