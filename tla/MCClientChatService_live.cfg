\* Two tasks, one of them the LLM relay, and a peer, under fairness.
CONSTANTS
  c1 = c1
  c2 = c2
  t1 = t1
  f1 = f1
  m1 = m1
  m2 = m2
  p1 = p1
  Caller = {c1, c2}
  Abortable = {c2}
  Fresh = {t1}
  Foreign = {f1}
  Line = {m1, m2}
  Peer = {p1}
  Named = TRUE
  Capacity = 1
  MaxLoops = 1
SPECIFICATION LiveSpec
INVARIANTS
  TypeOK
PROPERTIES
  CallsReturn
  LinesSurface
  ServesPort
