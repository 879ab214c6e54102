\* Two chats started one over the other, a text sent and lines of others,
\* over a channel of one place.
CONSTANTS
  Capacity = 1
  MaxStarts = 2
  MaxSends = 1
  MaxMessages = 3
SPECIFICATION FairSpec
INVARIANTS
  TypeOK
  OneReceiver
  OneLateMessage
  NoMessageLost
  ListInOrder

  
