SPECIFICATION Spec
CONSTANTS
  Sizes = {14, 64}
  FifoDepth = 2
  LinkBounces = FALSE
INVARIANTS
  TypeOK
  NoLostWakeup
  PressRecorded
  FifoAligned
  LinkFlagsTrue
PROPERTIES
  FramesDrain
  PressListed
