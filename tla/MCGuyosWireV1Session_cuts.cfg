\* Every way to cut frames into chunks.
CONSTANTS
  max_frame_bytes = 2
  Sizes <- MCSizes
  ErrorBytes = 2
  Capacity = 2
  MaxChunk = 10
  MaxFrames = 3
SPECIFICATION Spec
INVARIANTS
  TypeOK
  FramesInOrder
  VerdictIsRight
  BufferBounded
PROPERTIES
  FramesArrive
  SessionEnds

\* A session that has ended does nothing more.
CHECK_DEADLOCK FALSE
