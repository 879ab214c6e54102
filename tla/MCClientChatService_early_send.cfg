\* A line is sent before the room is joined.
CONSTANTS
  c1 = c1
  c2 = c2
  t1 = t1
  m1 = m1
  p1 = p1
  Caller = {c1, c2}
  Abortable = {}
  Fresh = {t1}
  Foreign = {}
  Line = {m1}
  Peer = {p1}
  Named = TRUE
  Capacity = 1
  MaxLoops = 1
SPECIFICATION Spec
INVARIANTS
  OkWasBroadcast
