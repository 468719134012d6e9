CONSTANTS
  User = {u1, u2}
  BlockRequest = {b1, b2}
  ChatRequest = {c1, c2}
  MaxBlockRequests = 2
  MaxChatRequests = 2
  MaxConversations = 2
  MaxMessages = 2
  Failures = TRUE
  MayStop = TRUE
  None = None
SYMMETRY Symmetry
SPECIFICATION Spec
INVARIANT TypeOK
INVARIANT EventsAgree
INVARIANT SendsRespectBlocks
INVARIANT CreationRespectsBlocks
 
INVARIANT OneConversationPerPair
INVARIANT NoEmptyLeftover
INVARIANT AnnouncedStays
CHECK_DEADLOCK FALSE
