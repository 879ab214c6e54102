\* Three streams of one room, three ids and a u64 with two usable values:
\* fan-out, retries, reconnects, and the counter of the room overflows.
CONSTANTS
  s1 = s1
  s2 = s2
  s3 = s3
  r1 = r1
  m1 = m1
  m2 = m2
  m3 = m3
  hub = hub
  otherHub = otherHub
  Stream = {s1, s2, s3}
  Room = {r1}
  MsgId = {m1, m2, m3}
  Key <- MCKey
  HubKey = hub
  Policy <- AdrPolicy
  Bodies <- FanOutBodies
  U31_MAX = 2147483647
  U64_MAX = 2
  MaxTime = 0
SPECIFICATION Spec
SYMMETRY Symmetry
INVARIANTS
  HubInv
  LedgerDense
  SeqAgreement
  OneCopyPerObserver
  NoLineLost
PROPERTIES
  AcceptedStays
  ImplementsRoomLog
