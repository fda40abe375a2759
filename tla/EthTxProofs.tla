----------------------------- MODULE EthTxProofs -----------------------------
(* Theorems about the transmit path, for every set of senders, every set   *)
(* of packets that fit the FIFO and every size of the two FIFOs.           *)
EXTENDS EthTx, SequenceTheorems, TLAPS

Held == {"drain", "space", "command", "data", "give"}
Fragments == [by : Senders, words : Nat \ {0}]

(* Exactly the holder of txLock is between the take and the give.          *)
Mutex == \A s \in Senders : pc[s] \in Held <=> txLock = s

(* The packet under construction belongs to the holder, and there is none  *)
(* before its first and after its last fragment.                           *)
Owned ==
  /\ OnePacketAtATime
  /\ txLock = Nobody => open = <<>>
  /\ \A s \in Senders : pc[s] \in {"drain", "give"} => open = <<>>

(* p consists of the fragments in o followed by those in l.                *)
Split(p, o, l) ==
  /\ Len(p) = Len(o) + Len(l)
  /\ \A i \in 1..Len(o) : p[i] = o[i].words
  /\ \A j \in 1..Len(l) : p[Len(o) + j] = l[j]

(* What the chip has and what the holder still has to write make up one of *)
(* the packets passed in.                                                  *)
Whole ==
  \A s \in Senders :
    /\ pc[s] \in {"take", "drain"} => left[s] \in Packets
    /\ pc[s] \in {"space", "command"}
         => left[s] # <<>> /\ \E p \in Packets : Split(p, open, left[s])
    /\ pc[s] = "data"
         => left[s] # <<>> /\ \E p \in Packets : Split(p, open, Tail(left[s]))

(* The space the holder has found free is still free when it writes.       *)
Reserved ==
  \A s \in Senders :
    /\ pc[s] = "command" => free >= Head(left[s]) + CommandWords
    /\ pc[s] = "data" => free >= Head(left[s])

IInv ==
  /\ TypeOK /\ ready \in Seq(Packets) /\ NoTxOverrun
  /\ Mutex /\ Owned /\ Whole /\ Reserved

-----------------------------------------------------------------------------
(* Appending the next fragment to what is written leaves the packet the    *)
(* same.                                                                   *)
LEMMA SplitMoves ==
  ASSUME NEW p \in Packets, NEW o \in Seq(Fragments), NEW l \in Seq(Nat \ {0}),
         l # <<>>, Split(p, o, l), NEW s \in Senders
  PROVE  Split(p, Append(o, [by |-> s, words |-> Head(l)]), Tail(l))
<1> DEFINE f == [by |-> s, words |-> Head(l)]
           q == Append(o, f)
<1>1. p \in Seq(Nat \ {0})
  BY PacketAssumption
<1>2. /\ Len(o) \in Nat /\ Len(l) \in Nat /\ Len(l) > 0
      /\ Len(q) = Len(o) + 1 /\ Len(Tail(l)) = Len(l) - 1
  OBVIOUS
<1>3. Len(p) = Len(q) + Len(Tail(l))
  BY <1>2 DEF Split
<1>4. ASSUME NEW i \in 1..Len(q) PROVE p[i] = q[i].words
  <2>1. CASE i \in 1..Len(o)
    BY <2>1, <1>2 DEF Split
  <2>2. CASE i = Len(o) + 1
    <3>1. q[i] = f
      BY <2>2
    <3>2. p[Len(o) + 1] = l[1]
      BY <1>2 DEF Split
    <3>3. QED BY <2>2, <3>1, <3>2
  <2>3. QED BY <2>1, <2>2, <1>2
<1>5. ASSUME NEW j \in 1..Len(Tail(l)) PROVE p[Len(q) + j] = Tail(l)[j]
  <2>1. j + 1 \in 1..Len(l) /\ Tail(l)[j] = l[j + 1]
    BY <1>2
  <2>2. p[Len(o) + (j + 1)] = l[j + 1]
    BY <2>1 DEF Split
  <2>3. Len(q) + j = Len(o) + (j + 1)
    BY <1>2
  <2>4. QED BY <2>1, <2>2, <2>3
<1>6. QED BY <1>3, <1>4, <1>5 DEF Split

(* When nothing is left, what is written is the packet.                    *)
LEMMA SplitEnds ==
  ASSUME NEW p \in Packets, open \in Seq(Fragments), Split(p, open, <<>>)
  PROVE  Written = p
<1>1. p \in Seq(Nat \ {0}) /\ Len(p) = Len(open)
  BY PacketAssumption DEF Split
<1>2. \A i \in 1..Len(open) : p[i] = open[i].words
  BY DEF Split
<1>3. QED BY <1>1, <1>2 DEF Written

(* The last fragment is the one with none after it.                        *)
LEMMA LastFragment ==
  ASSUME NEW l \in Seq(Nat \ {0}), l # <<>>
  PROVE  Tail(l) = <<>> <=> Len(l) = 1
<1>1. Tail(l) \in Seq(Nat \ {0}) /\ Len(Tail(l)) = Len(l) - 1
  OBVIOUS
<1>2. Len(l) \in Nat
  OBVIOUS
<1>3. Tail(l) = <<>> <=> Len(Tail(l)) = 0
  BY <1>1, EmptySeq
<1>4. QED BY <1>1, <1>2, <1>3

LEMMA InitIInv == Init => IInv
BY FifoAssumption, NobodyAssumption
DEF Init, IInv, TypeOK, NoTxOverrun, Mutex, Owned, OnePacketAtATime, Whole,
    Reserved, Held

(* While one sender holds the mutex the others are outside.                *)
LEMMA Outside ==
  ASSUME TypeOK, Mutex, NEW s \in Senders, pc[s] \in Held
  PROVE  txLock = s /\ \A t \in Senders \ {s} : pc[t] \notin Held
BY DEF TypeOK, Mutex

LEMMA NextIInv == IInv /\ [Next]_vars => IInv'
<1> SUFFICES ASSUME IInv, [Next]_vars PROVE IInv'
  OBVIOUS
<1> USE DEF IInv
<1>t. /\ left \in [Senders -> Seq(Nat \ {0})]
      /\ pc \in [Senders -> {"idle"} \cup {"take"} \cup Held]
      /\ open \in Seq(Fragments)
  BY DEF TypeOK, Fragments, Held
<1>n. ASSUME NEW s \in Senders, left[s] # <<>>
      PROVE  /\ Head(left[s]) \in Nat \ {0} /\ Len(left[s]) \in Nat \ {0}
             /\ Tail(left[s]) \in Seq(Nat \ {0})
             /\ Len(Tail(left[s])) = Len(left[s]) - 1
  BY <1>n, <1>t
<1>1. ASSUME NEW s \in Senders, Call(s) PROVE IInv'
  <2> USE <1>1 DEF Call, Goto, chip
  <2>1. left' \in [Senders -> Seq(Nat \ {0})] /\ left'[s] \in Packets
    BY <1>t, PacketAssumption
  <2>2. TypeOK' /\ (ready \in Seq(Packets))' /\ NoTxOverrun'
    BY <2>1 DEF TypeOK, NoTxOverrun
  <2>3. Mutex' /\ Owned' /\ Reserved'
    BY <1>t DEF Mutex, Owned, OnePacketAtATime, Reserved, Held
  <2>4. Whole'
    BY <1>t, <2>1 DEF Whole
  <2>5. QED BY <2>2, <2>3, <2>4
<1>2. ASSUME NEW s \in Senders, TakeLock(s) PROVE IInv'
  <2> USE <1>2 DEF TakeLock, Goto, chip
  <2>1. TypeOK' /\ (ready \in Seq(Packets))' /\ NoTxOverrun'
    BY DEF TypeOK, NoTxOverrun
  <2>2. Mutex' /\ Owned' /\ Reserved'
    BY <1>t, NobodyAssumption
    DEF Mutex, Owned, OnePacketAtATime, Reserved, Held
  <2>3. Whole'
    BY <1>t DEF Whole
  <2>4. QED BY <2>1, <2>2, <2>3
<1>3. ASSUME NEW s \in Senders, ReadStatus(s) PROVE IInv'
  <2> USE <1>3 DEF ReadStatus
  <2>1. TypeOK' /\ (ready \in Seq(Packets))' /\ NoTxOverrun'
    BY FifoAssumption DEF TypeOK, NoTxOverrun
  <2>2. Mutex' /\ Owned' /\ Reserved' /\ Whole'
    BY DEF Mutex, Owned, OnePacketAtATime, Reserved, Whole
  <2>3. QED BY <2>1, <2>2
<1>4. ASSUME NEW s \in Senders, StatusEmpty(s) PROVE IInv'
  <2> USE <1>4 DEF StatusEmpty, Goto, chip
  <2>1. TypeOK' /\ (ready \in Seq(Packets))' /\ NoTxOverrun'
    BY DEF TypeOK, NoTxOverrun
  <2>2. Mutex' /\ Owned' /\ Reserved'
    BY <1>t DEF Mutex, Owned, OnePacketAtATime, Reserved, Held
  <2>3. left[s] \in Packets /\ open = <<>>
    BY DEF Whole, Owned
  <2>4. left[s] # <<>> /\ Split(left[s], open, left[s])
    BY <1>t, <2>3, PacketAssumption DEF Split
  <2>5. Whole'
    BY <1>t, <2>3, <2>4 DEF Whole
  <2>6. QED BY <2>1, <2>2, <2>5
<1>5. ASSUME NEW s \in Senders, SpaceFree(s) PROVE IInv'
  <2> USE <1>5 DEF SpaceFree, Goto, chip
  <2>1. TypeOK' /\ (ready \in Seq(Packets))' /\ NoTxOverrun'
    BY DEF TypeOK, NoTxOverrun
  <2>2. Mutex' /\ Owned' /\ Reserved'
    BY <1>t DEF Mutex, Owned, OnePacketAtATime, Reserved, Held
  <2>3. Whole'
    BY <1>t DEF Whole
  <2>4. QED BY <2>1, <2>2, <2>3
<1>6. ASSUME NEW s \in Senders, WriteCommand(s) PROVE IInv'
  <2> USE <1>6 DEF WriteCommand, Goto
  <2> DEFINE f == [by |-> s, words |-> Head(left[s])]
  <2>1. left[s] # <<>> /\ \E p \in Packets : Split(p, open, left[s])
    BY DEF Whole
  <2>2. txLock = s /\ \A t \in Senders \ {s} : pc[t] \notin Held
    BY Outside DEF Held
  <2>3. f \in Fragments /\ open' = Append(open, f)
    BY <2>1, <1>n DEF Fragments
  <2>4. TypeOK' /\ (ready \in Seq(Packets))'
    BY <1>t, <2>3 DEF TypeOK, Fragments, CommandWords
  <2>5. free' >= Head(left'[s])
    BY <2>1, <1>n DEF Reserved, CommandWords, TypeOK
  <2>6. NoTxOverrun'
    BY <2>1, <2>4, <2>5, <1>n DEF NoTxOverrun, TypeOK
  <2>7. Mutex'
    BY <1>t, <2>2 DEF Mutex, Held
  <2>8. Owned'
    BY <1>t, <2>2, <2>3, NobodyAssumption DEF Owned, OnePacketAtATime, Held
  <2>9. Reserved'
    BY <1>t, <2>2, <2>5 DEF Reserved, Held
  <2>10. PICK p \in Packets : Split(p, open, left[s])
    BY <2>1
  <2>11. Split(p, open', Tail(left'[s]))
    BY <1>t, <2>1, <2>3, <2>10, SplitMoves
  <2>12. Whole'
    BY <1>t, <2>1, <2>2, <2>11 DEF Whole, Held
  <2>13. QED BY <2>4, <2>6, <2>7, <2>8, <2>9, <2>12
<1>7. ASSUME NEW s \in Senders, WriteData(s) PROVE IInv'
  <2>0. /\ pc[s] = "data" /\ free' = free - Head(left[s])
        /\ left' = [left EXCEPT ![s] = Tail(@)]
        /\ UNCHANGED <<txLock, txStatus>>
    BY <1>7 DEF WriteData
  <2>1. left[s] # <<>> /\ \E p \in Packets : Split(p, open, Tail(left[s]))
    BY <2>0 DEF Whole
  <2>2. txLock = s /\ \A t \in Senders \ {s} : pc[t] \notin Held
    BY <2>0, Outside DEF Held
  <2>3. left' \in [Senders -> Seq(Nat \ {0})] /\ left'[s] = Tail(left[s])
    BY <1>t, <1>n, <2>0, <2>1
  <2>4. free' \in Int /\ free' >= 0
    BY <1>n, <2>0, <2>1 DEF Reserved, TypeOK
  <2>5. PICK p \in Packets : Split(p, open, Tail(left[s]))
    BY <2>1
  <2>6. CASE Len(left[s]) = 1
    <3>1. Tail(left[s]) = <<>>
      BY <1>t, <2>1, <2>6, LastFragment
    <3>2. Written \in Packets
      BY <1>t, <2>5, <3>1, SplitEnds
    <3>3. /\ pc' = [pc EXCEPT ![s] = "give"] /\ open' = <<>>
          /\ ready' = Append(ready, Written)
      BY <1>7, <2>6 DEF WriteData
    <3>4. ready' \in Seq(Packets)
      BY <3>2, <3>3, AppendProperties
    <3>5. ready' \in Seq(Seq(Nat \ {0}))
      BY <3>2, <3>3, PacketAssumption, AppendProperties DEF TypeOK
    <3>6. TypeOK' /\ NoTxOverrun'
      BY <1>t, <2>0, <2>3, <2>4, <3>3, <3>5 DEF TypeOK, NoTxOverrun
    <3>7. Mutex' /\ Owned' /\ Reserved' /\ Whole'
      BY <1>t, <2>0, <2>2, <3>3
      DEF Mutex, Owned, OnePacketAtATime, Reserved, Whole, Held
    <3>8. QED BY <3>4, <3>6, <3>7
  <2>7. CASE Len(left[s]) # 1
    <3>1. pc' = [pc EXCEPT ![s] = "space"] /\ UNCHANGED <<ready, open, txLock>>
      BY <1>7, <2>7 DEF WriteData
    <3>2. left'[s] # <<>>
      BY <1>t, <2>1, <2>3, <2>7, LastFragment
    <3>3. TypeOK' /\ NoTxOverrun' /\ (ready \in Seq(Packets))'
      BY <1>t, <2>0, <2>3, <2>4, <3>1 DEF TypeOK, NoTxOverrun
    <3>4. Mutex' /\ Owned' /\ Reserved'
      BY <1>t, <2>0, <2>2, <3>1, NobodyAssumption
      DEF Mutex, Owned, OnePacketAtATime, Reserved, Held
    <3>5. Whole'
      BY <1>t, <2>0, <2>2, <2>3, <2>5, <3>1, <3>2 DEF Whole, Held
    <3>6. QED BY <3>1, <3>3, <3>4, <3>5
  <2>8. QED BY <2>6, <2>7
<1>8. ASSUME NEW s \in Senders, GiveLock(s) PROVE IInv'
  <2> USE <1>8 DEF GiveLock, Goto, chip
  <2>1. TypeOK' /\ (ready \in Seq(Packets))' /\ NoTxOverrun'
    BY DEF TypeOK, NoTxOverrun
  <2>2. txLock = s /\ \A t \in Senders \ {s} : pc[t] \notin Held
    BY Outside DEF Held
  <2>3. Mutex' /\ Owned' /\ Reserved' /\ Whole'
    BY <1>t, <2>2, NobodyAssumption
    DEF Mutex, Owned, OnePacketAtATime, Reserved, Whole, Held
  <2>4. QED BY <2>1, <2>3
<1>9. ASSUME Transmit PROVE IInv'
  <2>1. /\ free' = free + Cost(Head(ready)) /\ ready # <<>>
        /\ ready' = Tail(ready) /\ UNCHANGED <<txLock, pc, left, open>>
        /\ txStatus < StatusDepth /\ txStatus' = txStatus + 1
    BY <1>9 DEF Transmit
  <2>2. Head(ready) \in Packets /\ ready' \in Seq(Packets)
    BY <2>1
  <2>3. Cost(Head(ready)) \in Nat
    BY <2>2, PacketAssumption
  <2>4. free \in Int /\ free' \in Int /\ free' >= free
    BY <2>1, <2>3 DEF TypeOK
  <2>5. ready' \in Seq(Seq(Nat \ {0}))
    BY <2>1 DEF TypeOK
  <2>6. TypeOK' /\ NoTxOverrun'
    BY <2>1, <2>4, <2>5, FifoAssumption DEF TypeOK, NoTxOverrun
  <2>7. Mutex' /\ Owned' /\ Whole'
    BY <2>1 DEF Mutex, Owned, OnePacketAtATime, Whole
  <2>8. Reserved'
    <3> HIDE DEF IInv
    <3>1. Reserved /\ Whole
      BY DEF IInv
    <3>2. SUFFICES ASSUME NEW s \in Senders, pc[s] \in {"command", "data"}
                   PROVE  /\ pc[s] = "command" => free' >= Head(left[s]) + 2
                          /\ pc[s] = "data" => free' >= Head(left[s])
      BY <2>1 DEF Reserved, CommandWords
    <3>3. Head(left[s]) \in Nat
      BY <3>1, <3>2, <1>n DEF Whole
    <3>4. /\ pc[s] = "command" => free >= Head(left[s]) + 2
          /\ pc[s] = "data" => free >= Head(left[s])
      BY <3>1 DEF Reserved, CommandWords
    <3>5. QED BY <3>3, <3>4, <2>4
  <2>9. QED BY <2>2, <2>6, <2>7, <2>8
<1>10. ASSUME UNCHANGED vars PROVE IInv'
  BY <1>10 DEF vars, chip, TypeOK, NoTxOverrun, Mutex, Owned, OnePacketAtATime,
     Whole, Reserved
<1>11. QED
  BY <1>1, <1>2, <1>3, <1>4, <1>5, <1>6, <1>7, <1>8, <1>9, <1>10 DEF Next, Send

THEOREM Invariance == Spec => []IInv
BY InitIInv, NextIInv, PTL DEF Spec

-----------------------------------------------------------------------------
(* Type correctness.                                                       *)
THEOREM TypeCorrect == Spec => []TypeOK
BY Invariance, PTL DEF IInv

(* The fragments of two callers never interleave.                          *)
THEOREM OneAtATime == Spec => []OnePacketAtATime
BY Invariance, PTL DEF IInv, Owned

(* The TX data FIFO is never overrun.                                      *)
THEOREM NeverOverrun == Spec => []NoTxOverrun
BY Invariance, PTL DEF IInv

(* What goes out is what some caller passed in.                            *)
THEOREM AllSentWhole == Spec => []SentWhole
<1>1. IInv => SentWhole
  BY DEF IInv, SentWhole
<1>2. QED BY <1>1, Invariance, PTL
=============================================================================
