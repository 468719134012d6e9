CONSTANTS
  Email = {e1, e2}
  Request = {r1, r2}
  MaxRequests = 6
  MaxUsers = 6
  MaxTokens = 6
  SaveMayFail = TRUE
  MayStop = FALSE
  None = None
SYMMETRY Symmetry
SPECIFICATION Spec
INVARIANT TypeOK
INVARIANT ExchangedIsRevoked
INVARIANT LateRefreshGetsNothing
INVARIANT NoOrphanAccount
INVARIANT IInv
PROPERTY RevokedForGood
CHECK_DEADLOCK FALSE
