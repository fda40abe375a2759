---------------------------------- MODULE Ip ----------------------------------
(***************************************************************************)
(* The interfaces (lwip/core/netif.c) and the way of packets between them  *)
(* and the protocols: Ethernet and ARP frames (lwip/netif/etharp.c), IP    *)
(* and ICMP (lwip/core/ipv4), the raw blocks (lwip/core/raw.c), and what   *)
(* UDP sends.                                                              *)
(* An address is a pair of a network and a host of it.  A handler works on *)
(* a record of the buffers and of what it has sent, and runs to its end,   *)
(* as in EthArp and UdpPcbs without Preempt.  The ARP table is EthArp's,   *)
(* the list of fragments IpReass's, the search for a UDP block UdpPcbs's.  *)
(***************************************************************************)
EXTENDS Integers, SequencesExt, FiniteSetsExt

CONSTANTS
  Nil,           \* no interface, no connection
  Netif,         \* the interfaces
  Net, Host,     \* the networks, and the hosts of each
  AllOnes,       \* the host part of a network's broadcast address
  Own,           \* the addresses that each interface may be given
  Gateway,       \* the gateway that is given with each, AnyHost for none
  Raw,           \* the raw blocks there is memory for
  RawProtocol,   \* the protocols that they are made for
  Packet,        \* the packets that come
  Dests,         \* the addresses that programs send to
  MaxFragments   \* bound: the fragments that are kept

AnyHost == <<"any", "any">>         \* IP_ADDR_ANY
Ones == <<"ones", "ones">>      \* IP_ADDR_BROADCAST
Group == <<"group", "group">>   \* a multicast address
Address == (Net \X (Host \union {AllOnes})) \union {AnyHost, Ones, Group}
Given == (UNION {Own[i] : i \in Netif}) \union {AnyHost}
Protocol == {"icmp", "udp", "tcp", "other"}

IpAssumption ==
  /\ Nil \notin Netif \union Address
  /\ AllOnes \notin Host /\ Net \cap {"any", "ones", "group"} = {}
  /\ Own \in [Netif -> SUBSET (Net \X Host)] /\ Dests \subseteq Address
  /\ Gateway \in [Given -> (Net \X Host) \union {AnyHost}]
  /\ \A x \in Given : Gateway[x] = AnyHost \/ Gateway[x][1] = x[1]
  /\ RawProtocol \subseteq Protocol
  /\ Packet \subseteq [src : Address, dest : Address, good : BOOLEAN, proto : Protocol,
                       body : {"echo", "open", "closed", "dhcp", "spoilt", "rest"},
                       part : {"whole", "first", "later"}, room : BOOLEAN]
  /\ MaxFragments \in Nat

VARIABLES
  list,      \* netif_list
  default,   \* netif_default
  up,        \* the interfaces with NETIF_FLAG_UP
  addr,      \* ip_addr; the netmask is 0 with AnyHost, and else that of the network
  conn,      \* the local address of TCP's active connection, or Nil (bound: there is one)
  raws,      \* raw_pcbs
  proto,     \* the raw blocks' protocol
  eats,      \* whether their recv keeps a packet
  held,      \* the datagram that is put together: [packet, n, first]
  live       \* the buffers that came or were made, and were neither freed nor handed over

vars == <<list, default, up, addr, conn, raws, proto, eats, held, live>>

NoPacket == [src |-> AnyHost, dest |-> AnyHost, good |-> FALSE, proto |-> "other", body |-> "rest",
             part |-> "whole", room |-> FALSE]
NoDatagram == [packet |-> NoPacket, n |-> 0, first |-> FALSE]

Init ==
  /\ list = <<>> /\ default = Nil /\ up = {} /\ conn = Nil
  /\ addr = [i \in Netif |-> AnyHost]
  /\ raws = <<>> /\ proto = [r \in Raw |-> "other"] /\ eats = [r \in Raw |-> FALSE]
  /\ held = NoDatagram /\ live = 0

Listed == Range(list)

-----------------------------------------------------------------------------
(* ip_addr_netcmp with the interface's address and netmask.                *)
OnNet(x, i) == addr[i] = AnyHost \/ x[1] = addr[i][1]

(* ip_addr_isbroadcast on an interface with NETIF_FLAG_BROADCAST; with no  *)
(* netmask only the address of all ones has the host part of a broadcast.  *)
IsBroadcast(x, i) ==
  x \in {Ones, AnyHost} \/ (x # addr[i] /\ addr[i] # AnyHost /\ OnNet(x, i) /\ x[2] = AllOnes)

(* Mutant: an interface that is down is taken too.                         *)
RouteDown(dest) ==
  LET fit == {k \in DOMAIN list : OnNet(dest, list[k])}
  IN IF fit # {} THEN list[Min(fit)]
     ELSE IF default \in up THEN default ELSE Nil

(* ip_route: the first of the interfaces that are up whose network is the  *)
(* address's, or else the default one if it is up.                         *)
Route(dest) ==
  LET fit == {k \in DOMAIN list : list[k] \in up /\ OnNet(dest, list[k])}
  IN IF fit # {} THEN list[Min(fit)]
     ELSE IF default \in up THEN default ELSE Nil

(* The handlers' record: sent are the packets and ARP replies that went    *)
(* out, heard the calls of update_arp_entry.                               *)
All == [raws |-> raws, held |-> held, live |-> live, sent |-> <<>>, heard |-> <<>>]
Becomes(a) == raws' = a.raws /\ held' = a.held /\ live' = a.live

Alloc(a) == [a EXCEPT !.live = @ + 1]
Free(a) == [a EXCEPT !.live = @ - 1]
HandOver(a) == [a EXCEPT !.live = @ - 1]   \* another will free the buffer

Put(a, src, dest, kind, i, hop) ==
  [a EXCEPT !.sent = Append(@, [src |-> src, dest |-> dest, kind |-> kind, by |-> i, hop |-> hop])]

(* etharp_output: where the frame goes; AnyHost is no gateway, ERR_RTE.        *)
Hop(dest, i) ==
  IF IsBroadcast(dest, i) THEN Ones
  ELSE IF dest = Group THEN Group
  ELSE IF OnNet(dest, i) THEN dest
  ELSE Gateway[addr[i]]

(* ip_output_if; ip_frag's cutting of what is longer than the MTU is       *)
(* IpReass's.                                                              *)
OutputIf(a, src, dest, kind, i) ==
  IF Hop(dest, i) = AnyHost THEN a
  ELSE Put(a, IF src = AnyHost THEN addr[i] ELSE src, dest, kind, i, Hop(dest, i))

(* ip_output                                                               *)
Output(a, src, dest, kind) ==
  IF Route(dest) = Nil THEN a ELSE OutputIf(a, src, dest, kind, Route(dest))

-----------------------------------------------------------------------------
(* icmp_send_response with a buffer of its own, for icmp_dest_unreach and  *)
(* icmp_time_exceeded.                                                     *)
SendResponse(a, p, kind, memory) ==
  IF memory THEN Free(Output(Alloc(a), AnyHost, p.src, kind)) ELSE a

(* Mutant: the packet that was copied is not freed.                        *)
MovedKept(a, p) == IF p.room THEN a ELSE Alloc(a)

(* A packet without room for a header in front of it is copied and freed.  *)
Moved(a, p) == IF p.room THEN a ELSE Free(Alloc(a))

(* Mutant: broadcasts are answered.                                        *)
IcmpInputAll(a, p, i, memory) ==
  IF p.body # "echo" \/ (~p.room /\ ~memory) THEN Free(a)
  ELSE Free(OutputIf(Moved(a, p), p.dest, p.src, "reply", i))

(* icmp_input: an echo request to one address is turned round.             *)
IcmpInput(a, p, i, memory) ==
  IF \/ p.body # "echo" \/ p.dest = Group \/ IsBroadcast(p.dest, i)
     \/ ~p.room /\ ~memory
    THEN Free(a)
    ELSE Free(OutputIf(Moved(a, p), p.dest, p.src, "reply", i))

(* udp_input: client says whether the DHCP client has a block.             *)
UdpInput(a, p, i, memory, client) ==
  IF p.body = "open" \/ (p.body = "dhcp" /\ client) THEN HandOver(a)
  ELSE IF p.body # "spoilt" /\ p.dest = addr[i] /\ ~IsBroadcast(p.dest, i)
    THEN Free(SendResponse(a, p, "port", memory))
    ELSE Free(a)

(* The raw blocks that would keep the packet.                              *)
Eaters(a, p) == {k \in DOMAIN a.raws : proto[a.raws[k]] = p.proto /\ eats[a.raws[k]]}

(* Mutant: the block is put in front without being taken out.              *)
ToFrontTwice(s, k) == <<s[k]>> \o s

ToFront(s, k) == <<s[k]>> \o RemoveAt(s, k)

(* raw_input: each block of the protocol sees the packet, up to the first  *)
(* that keeps it, which is moved to the front.                             *)
RawInput(a, p) == HandOver([a EXCEPT !.raws = ToFront(@, Min(Eaters(a, p)))])

(* The end of ip_input, for a whole packet.                                *)
Deliver(a, p, i, memory, client) ==
  IF Eaters(a, p) # {} THEN RawInput(a, p)
  ELSE CASE p.proto = "udp" -> UdpInput(a, p, i, memory, client)
         [] p.proto = "tcp" -> HandOver(a)
         [] p.proto = "icmp" -> IcmpInput(a, p, i, memory)
         [] p.proto = "other" ->
              IF IsBroadcast(p.dest, i) \/ p.dest = Group THEN Free(a)
              ELSE Free(SendResponse(a, p, "protocol", memory))

-----------------------------------------------------------------------------
(* ip_reass (see IpReass): the fragment is thrown away, kept, or makes the *)
(* datagram whole, which is one chain then.                                *)
Alike(p, q) == [p EXCEPT !.part = "whole", !.room = TRUE] = [q EXCEPT !.part = "whole", !.room = TRUE]

May(a, p, fate) ==
  CASE fate = "refused" -> TRUE
    [] p.part = "whole" -> FALSE
    [] fate = "kept" -> a.held.n = 0 \/ (Alike(a.held.packet, p) /\ a.held.n < MaxFragments)
    [] fate = "whole" -> /\ a.held.n > 0 /\ Alike(a.held.packet, p)
                         /\ a.held.first \/ p.part = "first"

(* The first fragment, if it is there.                                     *)
FirstOf(a, p) == IF a.held.first THEN a.held.packet ELSE p

Reass(a, p, i, memory, client, fate) ==
  CASE fate = "refused" -> Free(a)
    [] fate = "kept" ->
         [a EXCEPT !.held = [packet |-> FirstOf(a, p), n |-> @.n + 1,
                             first |-> @.first \/ p.part = "first"]]
    [] fate = "whole" ->
         Deliver([a EXCEPT !.held = NoDatagram, !.live = @ - a.held.n],
                 [FirstOf(a, p) EXCEPT !.part = "whole"], i, memory, client)

Accepts(j, dest) == j \in up /\ addr[j] # AnyHost /\ (dest = addr[j] \/ IsBroadcast(dest, j))

FromMany(p, i) == p.src # AnyHost /\ (p.src = Group \/ IsBroadcast(p.src, i))

(* ip_input: DHCP's packets are taken whatever their addresses are.        *)
IpInput(a, p, i, memory, client, fate) ==
  LET forUs == \E j \in {i} \union Listed : Accepts(j, p.dest)
      dhcp == ~forUs /\ p.proto = "udp" /\ p.body = "dhcp"
  IN IF ~p.good \/ (~dhcp /\ FromMany(p, i)) \/ (~forUs /\ ~dhcp) THEN Free(a)
     ELSE IF p.part = "whole" THEN Deliver(a, p, i, memory, client)
     ELSE Reass(a, p, i, memory, client, fate)

(* update_arp_entry, which takes the address of one host only.             *)
Heard(a, x, hard, i) ==
  IF IsBroadcast(x, i) \/ x = Group THEN a
  ELSE [a EXCEPT !.heard = Append(@, [host |-> x, hard |-> hard])]

(* ethernet_input of an IP packet, with etharp_ip_input.                   *)
IpFrame(a, p, i, memory, client, fate) ==
  IpInput(IF OnNet(p.src, i) THEN Heard(a, p.src, FALSE, i) ELSE a, p, i, memory, client, fate)

(* ethernet_input of an ARP packet, etharp_arp_input: a request for our    *)
(* address is answered in its own buffer; a reply is shown to the DHCP     *)
(* client too (DhcpClient).                                                *)
ArpFrame(a, op, src, target, i) ==
  LET forUs == addr[i] # AnyHost /\ target = addr[i]
      b == Heard(a, src, forUs, i)
  IN Free(IF op = "request" /\ forUs THEN Put(b, addr[i], src, "arp", i, src) ELSE b)

(* etharp_request, with etharp_raw: all hosts are asked for an address.    *)
Request(a, x, i, memory) ==
  IF memory THEN Free(Put(Alloc(a), addr[i], x, "arp", i, Ones)) ELSE a

-----------------------------------------------------------------------------
(* Mutant: a block that is bound to an old address sends all the same.     *)
UdpSendOld(a, local, dest, i, room, memory) ==
  IF room THEN OutputIf(a, local, dest, "udp", i)
  ELSE IF ~memory THEN a
  ELSE Free(OutputIf(Alloc(a), local, dest, "udp", i))

(* udp_sendto_if: without room in front of it the datagram gets a header   *)
(* of its own, which is freed at each end.                                 *)
UdpSend(a, local, dest, i, room, memory) ==
  IF ~room /\ ~memory THEN a
  ELSE LET b == IF room THEN a ELSE Alloc(a)
           c == IF local \in {AnyHost, addr[i]} THEN OutputIf(b, local, dest, "udp", i) ELSE b
       IN IF room THEN c ELSE Free(c)

(* udp_sendto                                                              *)
UdpSendTo(a, local, dest, room, memory) ==
  IF Route(dest) = Nil THEN a ELSE UdpSend(a, local, dest, Route(dest), room, memory)

(* raw_sendto, which raw_send calls with the address of raw_connect.       *)
RawSendTo(a, local, dest, room, memory) ==
  IF ~room /\ ~memory THEN a
  ELSE LET c == Output(IF room THEN a ELSE Alloc(a), local, dest, "raw")
       IN IF room THEN c ELSE Free(c)

-----------------------------------------------------------------------------
(* netif_set_ipaddr aborts the connections of the old address; the rows of *)
(* the management tree are SnmpMib's.                                      *)
Connection(i, x) == IF x # addr[i] /\ conn = addr[i] THEN Nil ELSE conn

(* netif_add; an interface is added again only without an address, and its *)
(* driver's function may fail.                                             *)
Add(i, x, fails) ==
  /\ i \notin Listed /\ addr[i] = AnyHost
  /\ addr' = [addr EXCEPT ![i] = x] /\ conn' = Connection(i, x)
  /\ up' = up \ {i}
  /\ list' = IF fails THEN list ELSE <<i>> \o list
  /\ UNCHANGED <<default, raws, proto, eats, held, live>>

(* netif_set_addr                                                          *)
SetAddr(i, x) ==
  /\ i \in Listed
  /\ addr' = [addr EXCEPT ![i] = x] /\ conn' = Connection(i, x)
  /\ UNCHANGED <<list, default, up, raws, proto, eats, held, live>>

(* A list without the item x of it.                                        *)
Unlinked(s, x) == RemoveAt(s, CHOOSE k \in DOMAIN s : s[k] = x)

(* Mutant: the interface that is removed stays the default one.            *)
RemoveKeepsDefault(i) ==
  /\ i \in Listed
  /\ list' = Unlinked(list, i)
  /\ UNCHANGED <<default, up, addr, conn, raws, proto, eats, held, live>>

(* netif_remove                                                            *)
RemoveNetif(i) ==
  /\ i \in Listed
  /\ list' = Unlinked(list, i)
  /\ default' = IF default = i THEN Nil ELSE default
  /\ UNCHANGED <<up, addr, conn, raws, proto, eats, held, live>>

(* netif_set_default                                                       *)
SetDefault(i) ==
  /\ i \in Listed \union {Nil}
  /\ default' = i
  /\ UNCHANGED <<list, up, addr, conn, raws, proto, eats, held, live>>

(* netif_set_up, which asks for its own address to show it                 *)
(* (etharp_gratuitous), and netif_set_down.                                *)
SetUp(i, memory) ==
  /\ i \in Listed
  /\ up' = up \union {i}
  /\ Becomes(IF i \in up THEN All ELSE Request(All, addr[i], i, memory))
  /\ UNCHANGED <<list, default, addr, conn, proto, eats>>

SetDown(i) ==
  /\ i \in Listed
  /\ up' = up \ {i}
  /\ UNCHANGED <<list, default, addr, conn, raws, proto, eats, held, live>>

(* A connection gets the address of the interface that its first segment   *)
(* leaves by (tcp_output), and goes.                                       *)
Connect(dest) ==
  /\ conn = Nil /\ Route(dest) # Nil
  /\ conn' = addr[Route(dest)]
  /\ UNCHANGED <<list, default, up, addr, raws, proto, eats, held, live>>

Disconnect ==
  /\ conn' = Nil
  /\ UNCHANGED <<list, default, up, addr, raws, proto, eats, held, live>>

(* raw_new, raw_recv and raw_remove                                        *)
RawNew(r, pr) ==
  /\ r \notin Range(raws)
  /\ raws' = <<r>> \o raws
  /\ proto' = [proto EXCEPT ![r] = pr] /\ eats' = [eats EXCEPT ![r] = FALSE]
  /\ UNCHANGED <<list, default, up, addr, conn, held, live>>

RawRecv(r, e) ==
  /\ r \in Range(raws)
  /\ eats' = [eats EXCEPT ![r] = e]
  /\ UNCHANGED <<list, default, up, addr, conn, raws, proto, held, live>>

RawRemove(r) ==
  /\ r \in Range(raws)
  /\ raws' = Unlinked(raws, r)
  /\ proto' = [proto EXCEPT ![r] = "other"] /\ eats' = [eats EXCEPT ![r] = FALSE]
  /\ UNCHANGED <<list, default, up, addr, conn, held, live>>

Same == UNCHANGED <<list, default, up, addr, conn, proto, eats>>

(* ethernet_input: an IP packet, an ARP packet or another frame.           *)
Packets(i, p, memory, client, fate) ==
  /\ i \in Listed /\ May(All, p, fate)
  /\ Becomes(IpFrame(Alloc(All), p, i, memory, client, fate))
  /\ Same

Arp(i, op, src, target) ==
  /\ i \in Listed
  /\ Becomes(ArpFrame(Alloc(All), op, src, target, i))
  /\ Same

OtherFrame(i) ==
  /\ i \in Listed
  /\ Becomes(Free(Alloc(All)))
  /\ Same

(* ip_reass_tmr: the datagram is given up, and its sender told.            *)
ReassTimeout(memory) ==
  /\ held.n > 0
  /\ LET a == IF held.first THEN SendResponse(All, held.packet, "time", memory) ELSE All
     IN Becomes([a EXCEPT !.held = NoDatagram, !.live = @ - held.n])
  /\ Same

Send(local, dest, room, memory) ==
  /\ \/ Becomes(UdpSendTo(All, local, dest, room, memory))
     \/ Becomes(RawSendTo(All, local, dest, room, memory))
     \/ \E i \in Listed : Becomes(UdpSend(All, local, dest, i, room, memory))  \* dhcp.c
  /\ Same

Next ==
  \/ \E i \in Netif : \/ \E x \in Own[i] \union {AnyHost} : SetAddr(i, x) \/ \E f \in BOOLEAN : Add(i, x, f)
                      \/ RemoveNetif(i) \/ SetDown(i) \/ OtherFrame(i)
                      \/ \E memory \in BOOLEAN : SetUp(i, memory)
                      \/ \E p \in Packet, memory \in BOOLEAN, fate \in {"refused", "kept", "whole"} :
                           \E client \in IF p.body = "dhcp" THEN BOOLEAN ELSE {FALSE} :
                             Packets(i, p, memory, client, fate)
                      \/ \E op \in {"request", "reply"}, src, target \in Dests :
                           Arp(i, op, src, target)
  \/ \E i \in Netif \union {Nil} : SetDefault(i)
  \/ \E d \in Dests : Connect(d)
  \/ Disconnect
  \/ \E r \in Raw : \/ \E pr \in RawProtocol : RawNew(r, pr)
                    \/ \E e \in BOOLEAN : RawRecv(r, e)
                    \/ RawRemove(r)
  \/ \E memory \in BOOLEAN : ReassTimeout(memory)
  \/ \E l \in Given, d \in Dests, room, memory \in BOOLEAN : Send(l, d, room, memory)

Spec == Init /\ [][Next]_vars

-----------------------------------------------------------------------------
TypeOK ==
  /\ list \in Seq(Netif) /\ default \in Netif \union {Nil} /\ up \subseteq Netif
  /\ addr \in [Netif -> Given]
  /\ conn \in Given \union {Nil}
  /\ raws \in Seq(Raw) /\ proto \in [Raw -> Protocol] /\ eats \in [Raw -> BOOLEAN]
  /\ held \in [packet : Packet \union {NoPacket}, n : Nat, first : BOOLEAN]
  /\ live \in Int

(* Whatever way a packet takes through ip_input, icmp_input, udp_input and *)
(* raw_input, and a datagram through udp_sendto and raw_sendto, every      *)
(* buffer is freed once or handed over: only fragments stay.               *)
BuffersAccounted == live = held.n

(* No interface and no raw block is twice in its list, which would not     *)
(* end, and the default interface is one of the list.                      *)
ListsWhole ==
  /\ IsInjective(list) /\ IsInjective(raws)
  /\ default \in Listed \union {Nil}

(* A connection has the address of an interface: when that changes it is   *)
(* aborted (netif.c:277).                                                  *)
ConnectionCurrent == conn # Nil => \E i \in Netif : conn = addr[i]

(* Only a packet from one host to one of our addresses is answered, to     *)
(* that host; and no ICMP packet with an error message (ip.c:448,          *)
(* udp.c:297, icmp.c:117).  A broadcast address of another interface's     *)
(* network is not known as one where the packet came.                      *)
AnswersRight ==
  \A i \in Listed \intersect up, p \in Packet, client \in BOOLEAN, fate \in {"refused", "whole"} :
    May(All, p, fate) =>
    \A m \in Range(IpFrame(Alloc(All), p, i, TRUE, client, fate).sent) :
      \/ \E j \in Netif \ {i} : IsBroadcast(p.dest, j)
      \/ /\ \E j \in Netif : p.dest = addr[j]
         /\ m.dest = p.src /\ ~FromMany(p, i) /\ \E j \in Netif : m.src = addr[j]
         /\ m.kind # "reply" => p.proto # "icmp"

(* A UDP datagram leaves by an interface that is up, with the address that *)
(* the interface has now (udp.c:465), and goes to all or to a host of the  *)
(* interface's network.                                                    *)
SendsRight ==
  \A l \in Given, d \in Dests :
    \A m \in Range(UdpSendTo(All, l, d, TRUE, TRUE).sent) :
      /\ m.by \in up /\ m.src = addr[m.by]
      /\ m.hop \in {Ones, Group} \/ OnNet(m.hop, m.by)

(* All that holds of interfaces and packets in every state.                *)
IpSound ==
  /\ TypeOK /\ BuffersAccounted /\ ListsWhole
  /\ ConnectionCurrent /\ AnswersRight /\ SendsRight
===============================================================================
