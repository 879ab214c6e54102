\* A stream detaches and publishes again.
CONSTANTS
  s1 = s1
  s2 = s2
  r1 = r1
  m1 = m1
  hub = hub
  otherHub = otherHub
  Stream = {s1, s2}
  Room = {r1}
  MsgId = {m1}
  Key <- MCKey
  HubKey = hub
  Policy <- AdrPolicy
  Bodies <- DetachBodies
  U31_MAX = 2147483647
  U64_MAX = 3
  MaxTime = 0
SPECIFICATION Spec
SYMMETRY Symmetry
PROPERTIES
  NoLineAfterDetach
