SPECIFICATION MCSpec
CONSTANTS
  idle = idle
  low = low
  high = high
  Task = {idle, low, high}
  Idle = idle
  BasePriority <- Priority
  MaxPriorities = 3
  EventLists = {}
  TickRange = 4
  OverflowRange = 3
  Delays = {1, 3}
  MaxMissed = 2
  Timing = {low}
  Mortal = {low, high}
  t1 = t1
  t2 = t2
  t3 = t3
  boot = boot
  nobody = nobody
  tcpTimer = tcpTimer
  arpTimer = arpTimer
  callback = callback
  waiter = waiter
  block1 = block1
  block2 = block2
  caller1 = caller1
  caller2 = caller2
INVARIANTS
  TimeSound
  ReclaimedOnce
  BoardSound
  SeedSound
  SnmpSound
  
PROPERTIES
  NeverEarly
  WaitsOnlyForLost
CHECK_DEADLOCK FALSE
