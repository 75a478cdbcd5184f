\* One phone, one request at a time.
SPECIFICATION FairSpec
CONSTANTS
  Sessions = {s1, s2}
  Workers = {w1}
  AdminPhone = TRUE
  Patches = {{"status"}, {"role"}, {"status", "role"}}
  MaxSends = 3
  MaxTokens = 3
  NoSession = NoSession
INVARIANTS TypeOK TokenOnce UsedIsRefused BlockIsKept
PROPERTIES ImplementsAccount LimitIsLifted
CHECK_DEADLOCK FALSE
