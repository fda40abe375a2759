------------------------------- MODULE MCEthTx --------------------------------
(***************************************************************************)
(* The driver's transmit path, the buffers that it sends and TCP, which    *)
(* fills most of them, on small instances.  One of them moves in a         *)
(* behaviour; the transmit path is that of EthTx itself and stays at its   *)
(* start while another part moves:                                         *)
(*   transmit  two tasks that send single pbufs and chains                 *)
(*   chains    two threads that join and take apart three buffers          *)
(*   pool      two threads that empty the pool of buffers                  *)
(*   data      what is copied and summed                                   *)
(*   fragments three datagrams, cut for links of two sizes                 *)
(*   receive   six bytes cut in every way, within a window of five         *)
(*   tcp       two hosts, one of which sends a byte                        *)
(***************************************************************************)
EXTENDS EthTx, TLC

CONSTANTS thread1, thread2, dgram1, dgram2, dgram3, side1, side2

VARIABLES
  part,
  pb, handles, freeing, asking, queued, box, ooseq, chain, done, reass,
  pbufcount, out, halted, nxt, wnd, ann, edge, early, got, unread, fins,
  failed, pcb, net, app

pbufVars == <<pb, handles, freeing, asking, queued, box, ooseq>>
dataVars == <<chain, done>>
fragmentsVars == <<reass, pbufcount, out, halted>>
receiveVars == <<nxt, wnd, ann, edge, early, got, unread, fins, failed>>
tcpVars == <<pcb, net, app>>
MCvars ==
  <<part, vars, pbufVars, dataVars, fragmentsVars, receiveVars, tcpVars>>

MCPackets == {<<1>>, <<1, 2>>, <<3, 1>>}

(* Chains of one to four octets in up to three buffers, some empty.        *)
Octets(shape) == FoldSeq(LAMBDA x, y : x + y, 0, shape)
Shapes == {s \in UNION {[1..n -> 0..4] : n \in 1..3} : Octets(s) \in 1..4}
Cut(octets, shape) ==
  [i \in DOMAIN shape |-> [j \in 1..shape[i] |-> octets[j + Octets(SubSeq(shape, 1, i - 1))]]]
Chains == UNION {{Cut(f, s) : f \in [1..Octets(s) -> {0, 1, 255}]} : s \in Shapes}
Headers ==
  {[src |-> <<10, 0, 0, 255>>, dest |-> <<255, 255, 255, 255>>, proto |-> 17],
   [src |-> <<0, 0, 0, 0>>, dest |-> <<0, 0, 0, 0>>, proto |-> 0]}

MCToWrite == side1 :> 1 @@ side2 :> 0

(* One datagram is cut in two ways.                                        *)
Rooms == dgram1 :> {8} @@ dgram2 :> {8, 16} @@ dgram3 :> {16}

Buffers == INSTANCE Pbuf WITH
  Thread <- {thread1, thread2}, Types <- {"ram"}, MaxPbufs <- 3, BufSize <- 2,
  Layers <- {0}, MaxLen <- 2, MaxHandles <- 1, Pcbs <- {}

Pool == INSTANCE Pbuf WITH
  Thread <- {thread1, thread2}, Types <- {"pool"}, MaxPbufs <- 2,
  BufSize <- 2, Layers <- {0}, MaxLen <- 3, MaxHandles <- 1, Pcbs <- {1}

Data == INSTANCE PbufData

Reassembly == INSTANCE IpReass WITH
  Datagram <- {dgram1, dgram2, dgram3}, Total <- 28, Clens <- {1, 2},
  MaxPbufs <- 4, MaxAge <- 1

Receiver == INSTANCE TcpReceive WITH
  Length <- 6, Window <- 5, FinInside <- TRUE,
  ooseq <- early

Hosts == INSTANCE Tcp WITH
  Side <- {side1, side2}, Opener <- side1, ToWrite <- MCToWrite, Window <- 2,
  MaxRtx <- 1, MaxNet <- 2, Lingers <- TRUE

ASSUME
  /\ Buffers!PbufAssumption
  /\ Pool!PbufAssumption
  /\ Data!DataAssumption
  /\ Reassembly!ReassAssumption
  /\ Receiver!ReceiveAssumption
  /\ Hosts!TcpAssumption

NoPbuf ==
  /\ pb = Nobody /\ handles = Nobody /\ freeing = Nobody /\ asking = Nobody
  /\ queued = Nobody /\ box = Nobody /\ ooseq = Nobody

NoData ==
  /\ chain = Nobody /\ done = Nobody

NoFragments ==
  /\ reass = Nobody /\ pbufcount = Nobody /\ out = Nobody /\ halted = Nobody

NoReceive ==
  /\ nxt = Nobody /\ wnd = Nobody /\ ann = Nobody /\ edge = Nobody
  /\ early = Nobody /\ got = Nobody /\ unread = Nobody /\ fins = Nobody
  /\ failed = Nobody

NoTcp ==
  /\ pcb = Nobody /\ net = Nobody /\ app = Nobody

MCInit ==
  /\ Init
  /\ \/ /\ part = "transmit"
        /\ NoPbuf /\ NoData /\ NoFragments /\ NoReceive /\ NoTcp
     \/ /\ part = "chains" /\ Buffers!Init
        /\ NoData /\ NoFragments /\ NoReceive /\ NoTcp
     \/ /\ part = "pool" /\ Pool!Init
        /\ NoData /\ NoFragments /\ NoReceive /\ NoTcp
     \/ /\ part = "data" /\ Data!Init
        /\ NoPbuf /\ NoFragments /\ NoReceive /\ NoTcp
     \/ /\ part = "fragments" /\ Reassembly!Init
        /\ NoPbuf /\ NoData /\ NoReceive /\ NoTcp
     \/ /\ part = "receive" /\ Receiver!Init
        /\ NoPbuf /\ NoData /\ NoFragments /\ NoTcp
     \/ /\ part = "tcp" /\ Hosts!Init
        /\ NoPbuf /\ NoData /\ NoFragments /\ NoReceive

MCNext ==
  /\ UNCHANGED part
  /\ \/ /\ part = "transmit" /\ Next
        /\ UNCHANGED <<pbufVars, dataVars, fragmentsVars, receiveVars, tcpVars>>
     \/ /\ part = "chains" /\ Buffers!Next
        /\ UNCHANGED <<vars, dataVars, fragmentsVars, receiveVars, tcpVars>>
     \/ /\ part = "pool" /\ Pool!Next
        /\ UNCHANGED <<vars, dataVars, fragmentsVars, receiveVars, tcpVars>>
     \/ /\ part = "data" /\ Data!Next
        /\ UNCHANGED <<vars, pbufVars, fragmentsVars, receiveVars, tcpVars>>
     \/ /\ part = "fragments" /\ Reassembly!Next
        /\ UNCHANGED <<vars, pbufVars, dataVars, receiveVars, tcpVars>>
     \/ /\ part = "receive" /\ Receiver!Next
        /\ UNCHANGED <<vars, pbufVars, dataVars, fragmentsVars, tcpVars>>
     \/ /\ part = "tcp" /\ Hosts!Next
        /\ UNCHANGED <<vars, pbufVars, dataVars, fragmentsVars, receiveVars>>

MCSpec ==
  /\ MCInit /\ [][MCNext]_MCvars
  /\ \A s \in Senders : WF_vars(part = "transmit" /\ Send(s))
  /\ WF_vars(part = "transmit" /\ Transmit)

-----------------------------------------------------------------------------
(* The properties of the parts; each is stated and explained in its module.*)

(* Buffers count their references and lengths, copies and checksums cover  *)
(* the data as they lie, and a datagram is put together from its own       *)
(* fragments, whole but for the hole that the code overlooks.              *)
BuffersSound ==
  /\ part = "chains" => Buffers!TypeOK /\ Buffers!RefsExact /\
       Buffers!LengthsAddUp
  /\ part = "pool" => Pool!TypeOK /\ Pool!RefsExact /\ Pool!LengthsAddUp /\
       Pool!AskedIsPosted
  /\ part = "data" => Data!TypeOK /\ Data!CopiedWhole /\ Data!PartialWhole /\
       Data!SumsRight
  /\ part = "fragments" => Reassembly!TypeOK /\ Reassembly!CountKept /\
       Reassembly!ListInOrder /\ Reassembly!AtMostOneHole /\
       Reassembly!HaltsExplained

(* The queues of a connection cover its sequence numbers, what comes early *)
(* waits in order, the stream and its end arrive whole, a window is never  *)
(* taken back, and who closes well was heard.                              *)
TcpSound ==
  /\ part = "receive" => Receiver!TypeOK /\ Receiver!StreamWhole /\
       Receiver!QueueOrdered /\ Receiver!WindowKept /\ Receiver!FitsWindow
  /\ part = "tcp" => Hosts!TypeOK /\ Hosts!QueuesCover /\ Hosts!AckedIsReceived
       /\ Hosts!EofComplete /\ Hosts!CloseDelivers /\ Hosts!FinHeard /\
       Hosts!WindowKept
=============================================================================
