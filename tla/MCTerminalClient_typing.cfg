\* Typed lines, replies that are aborted and lines of others over a channel of
\* two places.
CONSTANTS
  Capacity = 2
  MaxTyped = 3
  MaxOthers = 4
  MaxReplies = 3
SPECIFICATION FairSpec
CHECK_DEADLOCK FALSE
INVARIANTS
  TypeOK
  TypedInOrder

  
