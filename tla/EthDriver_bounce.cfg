SPECIFICATION Spec
CONSTANTS
  Sizes = {64}
  FifoDepth = 1
  LinkBounces = TRUE
INVARIANT
  LinkFlagsTrue
