SPECIFICATION Spec
CONSTANTS
  IdLen = 2
  BodyLens <- FewLens
  Zeros <- OneZero
  BufferSize = 8
INVARIANTS
  TypeOK
  NoByteIsLost
PROPERTY
  AllAreQueued
CHECK_DEADLOCK FALSE
