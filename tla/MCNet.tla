-------------------------------- MODULE MCNet ---------------------------------
(***************************************************************************)
(* The way of packets and the sockets of the programming interface, on     *)
(* small instances.  One of them moves in a behaviour; packets and         *)
(* interfaces are those of Ip itself and stay at their start while another *)
(* part moves:                                                             *)
(*   ip        packets of two interfaces, with two raw blocks              *)
(*   accepts   a listening socket, a netconn that is accepted and a select *)
(*   stream    reads and peeks of one connection, and a select             *)
(*   datagram  the same of a bound UDP socket                              *)
(*   writes    a connection that is written, and two selects               *)
(*   times     calls that give up, and segments that are refused           *)
(***************************************************************************)
EXTENDS Ip, TLC

CONSTANTS server, watcher1, watcher2, netconn1, netconn2, eth, ser

VARIABLES
  part, conns, sockets, cblist, calls, ev, job, known

socketVars == <<conns, sockets, cblist, calls, ev, job, known>>
MCvars == <<part, vars, socketVars>>

(* Reads that wait, and peeks that do not; sets for select.                *)
Wait == [peek |-> FALSE, block |-> TRUE]
PeekOnly == [peek |-> TRUE, block |-> FALSE]
Readable(s) == [read |-> s, write |-> {}, timeo |-> TRUE]

(* Two networks, on two interfaces, the first with a gateway; packets of   *)
(* each protocol, from one host and from many, to one, some and all.       *)
At1 == <<"lan", "h1">>
At2 == <<"wan", "h1">>
Peer == <<"lan", "h2">>
Far == <<"far", "h1">>
LanAll == <<"lan", "all">>
WanAll == <<"wan", "all">>
Whole(s, d, pr, b) ==
  [src |-> s, dest |-> d, good |-> TRUE, proto |-> pr, body |-> b, part |-> "whole",
   room |-> TRUE]
Echo == Whole(Peer, At1, "icmp", "echo")
MCPackets ==
  {Whole(Peer, d, k[1], k[2]) :
     d \in {At1, LanAll, Group},
     k \in {<<"icmp", "echo">>, <<"udp", "closed">>, <<"other", "rest">>}}
  \union {Whole(LanAll, At1, "icmp", "echo"), Whole(LanAll, At1, "udp", "dhcp")}
  \union {Whole(Far, d, "icmp", "echo") : d \in {At2, WanAll, Far}}
  \union {Whole(Peer, At1, "udp", b) : b \in {"open", "spoilt"}}
  \union {Whole(AnyHost, At1, "other", "rest"), Whole(Peer, At1, "tcp", "rest"),
          Whole(Peer, Far, "udp", "dhcp"), Whole(AnyHost, Ones, "udp", "dhcp")}
  \union {[Echo EXCEPT !.room = FALSE], [Echo EXCEPT !.good = FALSE],
          [Echo EXCEPT !.part = "first"], [Echo EXCEPT !.part = "later"]}

MCDests == {At1, Far, LanAll}
MCOwn == eth :> {At1} @@ ser :> {At2}
MCGateway == At1 :> Peer @@ At2 :> AnyHost @@ AnyHost :> AnyHost

Accepting == INSTANCE Sockets WITH
  Server <- {server}, Watcher <- {watcher1}, Conn <- {netconn1, netconn2},
  NumSockets <- 2, BoxSize <- 2, Pieces <- {1}, MaxBytes <- 1, MaxAvail <- 1,
  Lens <- {1}, Flags <- {Wait}, OffMod <- 8, Kinds <- {"new"},
  Requests <- {"listen"}, Watches <- {Readable({0, 1})}

Stream == INSTANCE Sockets WITH
  Server <- {server}, Watcher <- {watcher1}, Conn <- {netconn1},
  NumSockets <- 1, BoxSize <- 2, Pieces <- {1, 2}, MaxBytes <- 3, MaxAvail <- 2,
  Lens <- {1, 3}, Flags <- {Wait, PeekOnly}, OffMod <- 8, Kinds <- {"new"},
  Requests <- {"connect"}, Watches <- {Readable({0})}

Bound == INSTANCE Sockets WITH
  Server <- {server}, Watcher <- {watcher1}, Conn <- {netconn1, netconn2},
  NumSockets <- 1, BoxSize <- 2, Pieces <- {1, 2}, MaxBytes <- 3, MaxAvail <- 3,
  Lens <- {1, 3}, Flags <- {Wait, PeekOnly}, OffMod <- 8, Kinds <- {"unbound"},
  Requests <- {"bind", "nonblock"}, Watches <- {Readable({0})}

Writes == INSTANCE Sockets WITH
  Server <- {server}, Watcher <- {watcher1, watcher2}, Conn <- {netconn1},
  NumSockets <- 1, BoxSize <- 2, Pieces <- {1}, MaxBytes <- 1, MaxAvail <- 1,
  Lens <- {1}, Flags <- {Wait}, OffMod <- 8, Kinds <- {"new"}, Requests <- {"connect",
  "write"}, Watches <- {[read |-> {0}, write |-> {0}, timeo |-> FALSE]}

Times == INSTANCE Sockets WITH
  Server <- {server}, Watcher <- {}, Conn <- {netconn1},
  NumSockets <- 1, BoxSize <- 1, Pieces <- {1}, MaxBytes <- 2, MaxAvail <- 2,
  Lens <- {1}, Flags <- {Wait}, OffMod <- 8, Kinds <- {"new"},
  Requests <- {"listen", "connect", "timeo", "nonblock"}, Watches <- {}

ASSUME
  /\ Accepting!SocketsAssumption
  /\ Stream!SocketsAssumption
  /\ Bound!SocketsAssumption
  /\ Writes!SocketsAssumption
  /\ Times!SocketsAssumption

(* What the blocks are called makes no difference.                         *)
Symmetry == Permutations(Raw)

NoSocket ==
  /\ conns = Nil /\ sockets = Nil /\ cblist = Nil /\ calls = Nil
  /\ ev = Nil /\ job = Nil /\ known = Nil

MCInit ==
  /\ Init
  /\ \/ part = "ip" /\ NoSocket
     \/ part = "accepts" /\ Accepting!Init
     \/ part = "stream" /\ Stream!Init
     \/ part = "datagram" /\ Bound!Init
     \/ part = "writes" /\ Writes!Init
     \/ part = "times" /\ Times!Init

MCNext ==
  /\ UNCHANGED part
  /\ \/ part = "ip" /\ Next /\ UNCHANGED socketVars
     \/ part = "accepts" /\ Accepting!Next /\ UNCHANGED vars
     \/ part = "stream" /\ Stream!Next /\ UNCHANGED vars
     \/ part = "datagram" /\ Bound!Next /\ UNCHANGED vars
     \/ part = "writes" /\ Writes!Next /\ UNCHANGED vars
     \/ part = "times" /\ Times!Next /\ UNCHANGED vars

MCSpec ==
  /\ MCInit /\ [][MCNext]_MCvars

-----------------------------------------------------------------------------
(* The properties of the parts; each is stated and explained in its module.*)

(* The counts, the list of selects and the slots of the socket layer are   *)
(* right, and reads lose nothing.                                          *)
SocketsSound ==
  /\ part = "accepts" => Accepting!TypeOK /\ Accepting!SocketsSound
  /\ part = "stream" => Stream!TypeOK /\ Stream!SocketsSound
  /\ part = "datagram" => Bound!TypeOK /\ Bound!SocketsSound
  /\ part = "writes" => Writes!TypeOK /\ Writes!SocketsSound
  /\ part = "times" => Times!TypeOK /\ Times!SocketsSound
=============================================================================
