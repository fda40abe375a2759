SPECIFICATION MCSpec
CONSTANTS
  idle = idle
  low = low
  high = high
  conn1 = conn1
  conn2 = conn2
  Task = {idle, low, high}
  Idle = idle
  BasePriority <- Priority
  MaxPriorities = 3
  EventLists = {"toSend", "toReceive"}
  TickRange = 3
  OverflowRange = 2
  Items = {x, y}
  Nothing = nothing
  Isr = isr
  Capacity = 2
  Programs <- Calls
  Waits = {2}
  MaxMissed = 1
  MaxLocked = 1
SYMMETRY Symmetry
INVARIANTS
  QueueSound
  
PROPERTIES
  ImplementsFifo
  FailsInTime
CHECK_DEADLOCK FALSE
