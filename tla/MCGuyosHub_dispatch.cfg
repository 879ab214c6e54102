\* Every kind of body in every phase, tickets that expire, two rooms, and a
\* frame limit some accepted lines do not fit.
CONSTANTS
  s1 = s1
  s2 = s2
  r1 = r1
  r2 = r2
  m1 = m1
  hub = hub
  otherHub = otherHub
  Stream = {s1, s2}
  Room = {r1, r2}
  MsgId = {m1}
  Key <- MCKey
  HubKey = hub
  Policy <- NarrowPolicy
  Bodies <- DispatchBodies
  U31_MAX = 2147483647
  U64_MAX = 1
  MaxTime = 2
SPECIFICATION Spec
INVARIANTS
  TypeOK
PROPERTIES
  RoomByTicketOnly
  RefusalLeavesNoTrace
  ImplementsRoomLog
