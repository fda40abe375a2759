SPECIFICATION MCSpec
CONSTANTS
  idle = idle
  low = low
  mid = mid
  high = high
  Task = {idle, low, mid, high}
  Idle = idle
  BasePriority <- Priority
  MaxPriorities = 4
  EventLists = {mtx}
  TickRange = 3
  OverflowRange = 2
  Mutexes = {mtx}
  Nobody = nobody
  MaxDepth = 2
  WaitTicks = 2
  address = address
  dhcpPcb = dhcpPcb
  pcb1 = pcb1
  pcb2 = pcb2
  host1 = host1
  host2 = host2
  host3 = host3
INVARIANTS
  MutexSound
  LinkSound
  
  
  
PROPERTIES
  SerialCleansUp
CHECK_DEADLOCK FALSE
