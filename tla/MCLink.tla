-------------------------------- MODULE MCLink --------------------------------
(***************************************************************************)
(* The kernel's mutex, and the link and its address, on small instances.   *)
(* One of them moves in a behaviour; the mutex is that of RtosMutex itself *)
(* and stays at its start while another part moves:                        *)
(*   mutex     three tasks of different priorities at a recursive mutex    *)
(*   serial    handlers of the link one at a time, with failing            *)
(*   allocations                                                           *)
(*   overlap   handlers that overlap                                       *)
(*   lease     the DHCP client, its server and other hosts                 *)
(*   udp       the DHCP client's block and two others                      *)
(*   arp       three hosts and a table of two entries                      *)
(***************************************************************************)
EXTENDS RtosMutex, TLC

CONSTANTS idle, low, mid, high, address, dhcpPcb, pcb1, pcb2, host1,
  host2, host3

VARIABLES
  part,
  link, flags, client, addr, run, copy, req, at, state, fault, dhcp, channel,
  granted, leaseLeft, first, next, port, remote, used, input, api, arp,
  cached, query, wire

linkVars == <<link, flags, client, addr, run, copy, req, at, state, fault>>
leaseVars == <<dhcp, channel, granted, leaseLeft>>
udpVars == <<first, next, port, remote, used, input, api>>
arpVars == <<arp, cached, query, wire>>
MCvars == <<part, vars, linkVars, leaseVars, udpVars, arpVars>>

Priority == idle :> 0 @@ low :> 1 @@ mid :> 2 @@ high :> 3

Serial == INSTANCE LinkDhcp WITH
  Preempt <- {}, MemFails <- TRUE, pc <- at

Overlap == INSTANCE LinkDhcp WITH
  Preempt <- {"isr", "task"}, MemFails <- FALSE, pc <- at

Lease == INSTANCE DhcpClient WITH
  Addr <- {address}, None <- Nobody, T1 <- 1, T2 <- 2, Lease <- 5, Width <- 4,
  RequestTries <- 1, RebindTries <- 0, Named <- {TRUE}, Allocated <- {TRUE},
  MaxNet <- 2, client <- dhcp, net <- channel, lease <- granted,
  left <- leaseLeft

Udp == INSTANCE UdpPcbs WITH
  Nil <- Nobody, Pcb <- {dhcpPcb, pcb1, pcb2}, Dhcp <- dhcpPcb,
  Host <- {host1, host2}, ClientPort <- 1, ServerPort <- 2, Fixed <- {3},
  Remote <- {2}, AutoStart <- 4, AutoEnd <- 6, Preempt <- FALSE

Arp == INSTANCE EthArp WITH
  Host <- {host1, host2, host3}, TableSize <- 2, MaxAge <- 3, MaxPending <- 2,
  MaxQueue <- 2, Preempt <- FALSE

ASSUME
  /\ Serial!LinkDhcpAssumption
  /\ Overlap!LinkDhcpAssumption
  /\ Lease!DhcpAssumption
  /\ Udp!UdpAssumption
  /\ Arp!ArpAssumption

NoLink == Serial!Init

NoLease ==
  /\ dhcp = Nobody /\ channel = Nobody /\ granted = Nobody
  /\ leaseLeft = Nobody

NoUdp ==
  /\ first = Nobody /\ next = Nobody /\ port = Nobody /\ remote = Nobody
  /\ used = Nobody /\ input = Nobody /\ api = Nobody

NoArp ==
  /\ arp = Nobody /\ cached = Nobody /\ query = Nobody /\ wire = Nobody

MCInit ==
  /\ Init
  /\ \/ part = "mutex" /\ NoLink /\ NoLease /\ NoUdp /\ NoArp
     \/ part = "serial" /\ Serial!Init /\ NoLease /\ NoUdp /\ NoArp
     \/ part = "overlap" /\ Overlap!Init /\ NoLease /\ NoUdp /\ NoArp
     \/ part = "lease" /\ Lease!Init /\ NoLink /\ NoUdp /\ NoArp
     \/ part = "udp" /\ Udp!Init /\ NoLink /\ NoLease /\ NoArp
     \/ part = "arp" /\ Arp!Init /\ NoLink /\ NoLease /\ NoUdp

MCNext ==
  /\ UNCHANGED part
  /\ \/ /\ part = "mutex" /\ Next
        /\ UNCHANGED <<linkVars, leaseVars, udpVars, arpVars>>
     \/ /\ part = "serial" /\ Serial!Next
        /\ UNCHANGED <<vars, leaseVars, udpVars, arpVars>>
     \/ /\ part = "overlap" /\ Overlap!Next
        /\ UNCHANGED <<vars, leaseVars, udpVars, arpVars>>
     \/ /\ part = "lease" /\ Lease!Next
        /\ UNCHANGED <<vars, linkVars, udpVars, arpVars>>
     \/ /\ part = "udp" /\ Udp!Next
        /\ UNCHANGED <<vars, linkVars, leaseVars, arpVars>>
     \/ /\ part = "arp" /\ Arp!Next
        /\ UNCHANGED <<vars, linkVars, leaseVars, udpVars>>

MCSpec ==
  /\ MCInit /\ [][MCNext]_MCvars
  /\ \A c \in Serial!Contexts : WF_linkVars(part = "serial" /\ Serial!Step(c))
  /\ SF_linkVars(part = "serial" /\ Serial!Serve)
  /\ SF_linkVars(part = "serial" /\ Serial!DhcpTask)

-----------------------------------------------------------------------------
(* The properties of the parts; each is stated and explained in its module.*)

(* A bound interface on a live link is up, LINK_UP agrees with the link, no*)
(* assertion fails and no freed client is touched.  dhcpTask's state tells *)
(* whether there is a client, and no address outlives it.                  *)
LinkSound ==
  /\ part = "serial" => Serial!TypeOK /\ Serial!UpWhenBound /\
       Serial!LinkFlagKept /\ Serial!AssertionsHold /\ Serial!NoUseAfterFree
  /\ part = "overlap" => Overlap!TypeOK /\ Overlap!ClientMatchesTask /\
       Overlap!NoStrayAddress

(* The client and the address go with the link.                            *)
SerialCleansUp == part = "serial" => Serial!CleansUp

(* The board uses an address only while it is its own, renews and rebinds  *)
(* in time, and always waits with a time-out.                              *)
LeaseSound ==
  /\ part = "lease" => Lease!TypeOK /\ Lease!NoSharedAddress /\ Lease!Armed
       /\ Lease!LeaseInTime

(* The list of blocks is whole, a datagram reaches a block that waits for  *)
(* it, and automatic ports differ.                                         *)
UdpSound ==
  /\ part = "udp" => Udp!TypeOK /\ Udp!ListSound /\ Udp!RightReceiver /\
       Udp!AutoPortsDiffer

(* An address has one entry, frames go to the host they are for, and       *)
(* nothing waits for an address that is known, or longer than an           *)
(* unanswered request.                                                     *)
ArpSound ==
  /\ part = "arp" => Arp!TypeOK /\ Arp!OneEntryEach /\ Arp!RightHost /\
       Arp!StableQueueEmpty /\ Arp!WaitBounded
=============================================================================
