CONSTANTS
  User = {u1, u2}
  BlockRequest = {b1}
  ChatRequest = {c1}
  MaxBlockRequests = 3
  MaxChatRequests = 1
  MaxConversations = 1
  MaxMessages = 1
  Failures = FALSE
  MayStop = FALSE
  None = None
SYMMETRY Symmetry
SPECIFICATION Spec
PROPERTY BlockTakesEffect
CHECK_DEADLOCK FALSE
