\* An event arrives in two chunks.
CONSTANTS
  context = 2
  stream_chunk_min_chars = 1
  Chunks <- TextChunks
  MaxOthers = 1
  MaxEvents = 1
  MaxInFlight = 1
SPECIFICATION FairSpec
PROPERTIES
  ReadsMoreBytes

\* When others are silent and the replies have ended nothing happens.
CHECK_DEADLOCK FALSE
