\* Two opens by two tasks, and joins of the rooms they created.
CONSTANTS
  c1 = c1
  c2 = c2
  t1 = t1
  t2 = t2
  m1 = m1
  m2 = m2
  p1 = p1
  Caller = {c1, c2}
  Abortable = {}
  Fresh = {t1, t2}
  Foreign = {}
  Line = {m1, m2}
  Peer = {p1}
  Named = TRUE
  Capacity = 1
  MaxLoops = 2
SPECIFICATION Spec
SYMMETRY Symmetry
INVARIANTS
  EchoesInOrder
  NoLineDropped
  
  
PROPERTIES
  ImplementsPort
