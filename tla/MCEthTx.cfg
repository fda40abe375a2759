SPECIFICATION MCSpec
CONSTANTS
  Senders = {tcpip, ethTask}
  Nobody = Nobody
  Packets <- MCPackets
  FifoWords = 9
  StatusDepth = 3
  thread1 = thread1
  thread2 = thread2
  dgram1 = dgram1
  dgram2 = dgram2
  dgram3 = dgram3
  side1 = side1
  side2 = side2
INVARIANTS
  TypeOK
  OnePacketAtATime
  NoTxOverrun
  
  BuffersSound
  
PROPERTY
  LockReleased
CHECK_DEADLOCK FALSE
