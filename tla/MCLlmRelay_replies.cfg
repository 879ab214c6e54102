\* Two messages of others: the reply to one is replaced by that to the other.
CONSTANTS
  context = 2
  stream_chunk_min_chars = 2
  Chunks <- MCChunks
  MaxOthers = 2
  MaxEvents = 2
  MaxInFlight = 1
SPECIFICATION FairSpec
INVARIANTS
  TypeOK
  
  TextKept
PROPERTIES
  ReplyEnds
  ReplacedEnds

\* When others are silent and the replies have ended nothing happens.
CHECK_DEADLOCK FALSE
