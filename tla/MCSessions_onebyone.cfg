CONSTANTS
  Email = {e1, e2}
  Request = {r1}
  MaxRequests = 6
  MaxUsers = 6
  MaxTokens = 6
  SaveMayFail = TRUE
  MayStop = TRUE
  None = None
SYMMETRY Symmetry
SPECIFICATION Spec
INVARIANT OneTokenPerSession
INVARIANT EndedSessionsStayEnded
CHECK_DEADLOCK FALSE
