CONSTANTS
  NaN = NaN
  DefaultPageSize = 2
  MaxPageSize = 2
  Reader = Reader
  Peer = Peer
  MaxMessages = 3
  MaxReplies = 1
  MaxChanges = 1
  Ticks = {0, 1}
  PagesAsked = {NaN}
  SizesAsked = {NaN, 3}
SPECIFICATION Spec
INVARIANT TypeOK
 
INVARIANT WithheldStaysWithheld
INVARIANT SeenWasThere
INVARIANT BadgeAgrees
