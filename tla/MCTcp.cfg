SPECIFICATION Spec
CONSTANTS
  side1 = side1
  side2 = side2
  Side = {side1, side2}
  Opener = side1
  ToWrite <- Written
  Window = 1
  MaxRtx = 1
  MaxNet = 2
  Lingers = FALSE
INVARIANT CloseDelivers
CHECK_DEADLOCK FALSE
