SPECIFICATION MCSpec
CONSTANTS
  server = server
  watcher1 = watcher1
  watcher2 = watcher2
  netconn1 = netconn1
  netconn2 = netconn2
  eth = eth
  ser = ser
  Nil = Nil
  Netif = {eth, ser}
  Net = {"lan", "wan", "far"}
  Host = {"h1", "h2"}
  AllOnes = "all"
  Own <- MCOwn
  Gateway <- MCGateway
  Raw = {block1, block2}
  RawProtocol = {"icmp"}
  Packet <- MCPackets
  Dests <- MCDests
  MaxFragments = 1
SYMMETRY Symmetry
INVARIANTS
  IpSound
  SocketsSound
CHECK_DEADLOCK FALSE
