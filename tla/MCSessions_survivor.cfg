CONSTANTS
  Email = {e1, e2}
  Request = {r1, r2}
  MaxRequests = 6
  MaxUsers = 6
  MaxTokens = 6
  SaveMayFail = FALSE
  MayStop = FALSE
  None = None
SYMMETRY Symmetry
SPECIFICATION Spec
INVARIANT EndedSessionsStayEnded
CHECK_DEADLOCK FALSE
