CONSTANTS
  User = {u1, u2}
  Socket = {s1}
  Slot = {m1, m2}
  MaxAttempts = 5
  MaxMessages = 4
  MaxBroadcasts = 2
  None = None
SPECIFICATION FairSpec
INVARIANT TypeOK
INVARIANT HearsItsOwn
INVARIANT ReadyMissesNothing
INVARIANT ExpiredIsRefused
PROPERTY NobodyHangs
PROPERTY ImpostorsAreClosed
CHECK_DEADLOCK FALSE
