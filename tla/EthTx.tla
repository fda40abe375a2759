-------------------------------- MODULE EthTx --------------------------------
(***************************************************************************)
(* The transmit side of the LAN9115 driver.  ethTx is netif->linkoutput:   *)
(* the tcp/ip thread calls it for outgoing datagrams and ethTask for the   *)
(* replies the stack makes while it handles a frame.  One packet is a      *)
(* chain of pbufs, written fragment by fragment to the chip's TX data FIFO *)
(* under the mutex txLock.                                                 *)
(*                                                                         *)
(* The chip is in store-and-forward mode (HW_CFG bit 20): it sends, and    *)
(* frees the space of, complete packets only.  Every packet sent leaves an *)
(* entry in the TX status FIFO, and the transmitter stops while that FIFO  *)
(* is full.                                                                *)
(***************************************************************************)
EXTENDS Integers, Sequences, SequencesExt

CONSTANTS
  Senders,     \* the tasks that call ethTx
  Nobody,      \* the holder of a free mutex
  Packets,     \* pbuf chains: sequences of fragment sizes in words
  FifoWords,   \* capacity of the TX data FIFO in words
  StatusDepth  \* capacity of the TX status FIFO in packets

(* Two command words precede the data of every fragment.                   *)
CommandWords == 2

(* The FIFO space a packet takes.                                          *)
Cost(p) == FoldLeft(LAMBDA sum, n : sum + n + CommandWords, 0, p)

ASSUME NobodyAssumption == Nobody \notin Senders
ASSUME PacketAssumption ==
  \A p \in Packets : /\ p \in Seq(Nat \ {0}) /\ p # <<>>
                     /\ Cost(p) \in Nat /\ Cost(p) <= FifoWords
ASSUME FifoAssumption == FifoWords \in Nat /\ StatusDepth \in Nat \ {0}

VARIABLES
  txLock,   \* the task that holds the mutex
  pc,       \* where each sender is in ethTx; "idle" outside
  left,     \* the fragments each sender has not yet written
  free,     \* TX_FIFO_INF: free words of the data FIFO
  open,     \* the fragments of the packet the chip is still missing words of
  ready,    \* complete packets waiting to be sent
  txStatus  \* TX_FIFO_INF: entries in the TX status FIFO

chip == <<free, open, ready, txStatus>>
vars == <<txLock, pc, left, chip>>

Init ==
  /\ txLock = Nobody
  /\ pc = [s \in Senders |-> "idle"]
  /\ left = [s \in Senders |-> <<>>]
  /\ free = FifoWords /\ open = <<>> /\ ready = <<>> /\ txStatus = 0

Goto(s, from, to) == pc[s] = from /\ pc' = [pc EXCEPT ![s] = to]

(* The packet the chip has so far.                                         *)
Written == [i \in 1..Len(open) |-> open[i].words]

-----------------------------------------------------------------------------
(* The stack hands ethTx a chain.                                          *)
Call(s) ==
  /\ Goto(s, "idle", "take")
  /\ \E p \in Packets : left' = [left EXCEPT ![s] = p]
  /\ UNCHANGED <<txLock, chip>>

(* Mutant: ethTx without its mutex.                                        *)
TakeLockFree(s) ==
  /\ Goto(s, "take", "drain")
  /\ txLock' = s
  /\ UNCHANGED <<left, chip>>

(* xSemaphoreTake(txLock) blocks while another task holds it.              *)
TakeLock(s) ==
  /\ Goto(s, "take", "drain")
  /\ txLock = Nobody
  /\ txLock' = s
  /\ UNCHANGED <<left, chip>>

(* Mutant: TX_STS is read without testing its level.                       *)
ReadStatusBlindly(s) ==
  /\ pc[s] = "drain"
  /\ txStatus' = txStatus - 1
  /\ UNCHANGED <<txLock, pc, left, free, open, ready>>

(* Read TX_STS until the status FIFO is empty.                             *)
ReadStatus(s) ==
  /\ pc[s] = "drain" /\ txStatus > 0
  /\ txStatus' = txStatus - 1
  /\ UNCHANGED <<txLock, pc, left, free, open, ready>>

StatusEmpty(s) ==
  /\ Goto(s, "drain", "space") /\ txStatus = 0
  /\ UNCHANGED <<txLock, left, chip>>

(* Mutant: the room for the two command words is forgotten.                *)
SpaceForData(s) ==
  /\ Goto(s, "space", "command")
  /\ free >= Head(left[s])
  /\ UNCHANGED <<txLock, left, chip>>

(* taskYIELD until the FIFO has room for the fragment and its commands.    *)
SpaceFree(s) ==
  /\ Goto(s, "space", "command")
  /\ free >= Head(left[s]) + CommandWords
  /\ UNCHANGED <<txLock, left, chip>>

(* The first fragment of a chain is marked 0x2000.                         *)
WriteCommand(s) ==
  /\ Goto(s, "command", "data")
  /\ open' = Append(open, [by |-> s, words |-> Head(left[s])])
  /\ free' = free - CommandWords
  /\ UNCHANGED <<txLock, left, ready, txStatus>>

(* Mutants: every fragment is marked the last one; the mutex is kept until *)
(* the next packet.                                                        *)
WriteDataEveryLast(s) ==
  /\ pc[s] = "data"
  /\ free' = free - Head(left[s])
  /\ left' = [left EXCEPT ![s] = Tail(@)]
  /\ pc' = [pc EXCEPT ![s] = IF Len(left[s]) = 1 THEN "give" ELSE "space"]
  /\ ready' = Append(ready, Written)
  /\ open' = <<>>
  /\ UNCHANGED <<txLock, txStatus>>
WriteDataKeepsLock(s) ==
  /\ pc[s] = "data"
  /\ free' = free - Head(left[s])
  /\ left' = [left EXCEPT ![s] = Tail(@)]
  /\ pc' = [pc EXCEPT ![s] = IF Len(left[s]) = 1 THEN "idle" ELSE "space"]
  /\ IF Len(left[s]) = 1
     THEN /\ ready' = Append(ready, Written)
          /\ open' = <<>>
     ELSE UNCHANGED <<ready, open>>
  /\ UNCHANGED <<txLock, txStatus>>

(* The words of the fragment; after those of the last one, marked 0x1000,  *)
(* the chip has the whole packet.                                          *)
WriteData(s) ==
  /\ pc[s] = "data"
  /\ free' = free - Head(left[s])
  /\ left' = [left EXCEPT ![s] = Tail(@)]
  /\ IF Len(left[s]) = 1
     THEN /\ pc' = [pc EXCEPT ![s] = "give"]
          /\ ready' = Append(ready, Written)
          /\ open' = <<>>
     ELSE /\ pc' = [pc EXCEPT ![s] = "space"]
          /\ UNCHANGED <<ready, open>>
  /\ UNCHANGED <<txLock, txStatus>>

GiveLock(s) ==
  /\ Goto(s, "give", "idle")
  /\ txLock' = Nobody
  /\ UNCHANGED <<left, chip>>

Send(s) ==
  TakeLock(s) \/ ReadStatus(s) \/ StatusEmpty(s) \/ SpaceFree(s)
  \/ WriteCommand(s) \/ WriteData(s) \/ GiveLock(s)

(* The chip sends the oldest complete packet.                              *)
Transmit ==
  /\ ready # <<>> /\ txStatus < StatusDepth
  /\ free' = free + Cost(Head(ready))
  /\ ready' = Tail(ready)
  /\ txStatus' = txStatus + 1
  /\ UNCHANGED <<txLock, pc, left, open>>

Next == (\E s \in Senders : Call(s) \/ Send(s)) \/ Transmit

(* The time slice gives every sender the CPU; the wire drains the chip.    *)
Spec == Init /\ [][Next]_vars
        /\ (\A s \in Senders : WF_vars(Send(s))) /\ WF_vars(Transmit)

-----------------------------------------------------------------------------
TypeOK ==
  /\ txLock \in Senders \cup {Nobody}
  /\ pc \in [Senders -> {"idle", "take", "drain", "space", "command", "data",
                         "give"}]
  /\ left \in [Senders -> Seq(Nat \ {0})]
  /\ free \in Int /\ txStatus \in 0..StatusDepth
  /\ open \in Seq([by : Senders, words : Nat \ {0}])
  /\ ready \in Seq(Seq(Nat \ {0}))

(* The fragments the chip sees between a first and a last mark are those   *)
(* of one chain of one caller, though another may enter ethTx at any time: *)
(* the packet under construction belongs to the holder of txLock.          *)
OnePacketAtATime == \A i \in DOMAIN open : open[i].by = txLock

(* The TX data FIFO is never written beyond its free space, although it is *)
(* read before the commands and the data are written.                      *)
NoTxOverrun == free >= 0

(* Every packet put on the wire is a chain some caller passed in, whole    *)
(* and in order.                                                           *)
SentWhole == \A i \in DOMAIN ready : ready[i] \in Packets

(* The holder of txLock always gives it back: the wait for FIFO space,     *)
(* which happens under the lock, ends.  It depends on every packet fitting *)
(* the FIFO and on the status FIFO outlasting the packets queued after it  *)
(* was drained.                                                            *)
LockReleased == \A s \in Senders : txLock = s ~> txLock # s
=============================================================================
