SPECIFICATION FairSpec
CONSTANTS
  MaxKeys = 3
  MaxReplies = 3
CHECK_DEADLOCK FALSE
INVARIANTS
  TypeOK
  NothingLost
  EndsForCause
PROPERTIES
  ServerGoneEnds
