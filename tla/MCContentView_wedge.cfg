\* The user leaves a chat while a send waits for a place in the channel.
CONSTANTS
  Capacity = 1
  MaxStarts = 2
  MaxSends = 1
  MaxMessages = 3
SPECIFICATION FairSpec
PROPERTIES
  StartReturns
