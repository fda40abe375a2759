SPECIFICATION Spec
CONSTANTS
  Datagram = {dgram1}
  Total = 28
  Rooms <- EightEach
  Clens = {1}
  MaxPbufs = 10
  MaxAge = 3
INVARIANT DeliveredWhole
CHECK_DEADLOCK FALSE
