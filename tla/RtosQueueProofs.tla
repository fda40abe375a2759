--------------------------- MODULE RtosQueueProofs ---------------------------
(* Theorems about the kernel's queues: for every number of tasks, length,  *)
(* block time and tick width, and whatever the scheduler does, the storage *)
(* area of queue.c is a bounded FIFO.                                      *)
EXTENDS RtosQueue, KernelProofs, SequenceTheorems, TLAPS

Cell == 0..Capacity - 1
Stored == Items \cup {Nothing}

(* The first free cell is the one behind the last item.                    *)
Ring ==
  /\ buf \in [Cell -> Stored]
  /\ writeTo \in Cell /\ readFrom \in Cell /\ count \in 0..Capacity
  /\ writeTo = (readFrom + 1 + count) % Capacity

Steps == {"idle", "try", "suspend", "lock", "checkTime", "checkStuck", "place",
          "unlockTxToFail", "unlockRxToFail", "resumeToFail",
          "unlockTxToRetry", "unlockRxToRetry", "resumeToRetry",
          "unlockTxToBlock", "unlockRxToBlock", "resumeToBlock", "yield"}

(* What a call that is under way was given.  The ticks that are left are   *)
(* the scheduler's business.                                               *)
CallOf(c) ==
  /\ c = [op |-> c.op, item |-> c.item, ticks |-> c.ticks, asked |-> c.asked]
  /\ c.op \in Operations \cup {"none"} /\ c.item \in Stored /\ c.asked \in 0..MaxDelay
  /\ c.op \in Sending => c.item \in Items

Calls ==
  /\ pc \in [Workers -> Steps]
  /\ call = [t \in Workers |-> call[t]]
  /\ \A t \in Workers : /\ CallOf(call[t])
                        /\ pc[t] = "idle" => call[t] = NoCall
                        /\ pc[t] # "idle" => call[t].op # "none"

IInv ==
  /\ Ring /\ Calls
  /\ locks \in (Unlocked..MaxLocked) \X (Unlocked..MaxLocked)
  /\ got \in [Workers \cup {Isr} -> Stored]
  /\ waited \in [Workers -> 0..MaxDelay]

-----------------------------------------------------------------------------
(* Arithmetic modulo the length, for the sums that occur.                  *)
LEMMA ModSmall == ASSUME NEW C \in Nat \ {0}, NEW a \in 0..C - 1 PROVE a % C = a
  OBVIOUS

(* Above the length, the remainder is what exceeds it.                     *)
LEMMA ModLarge == ASSUME NEW C \in Nat \ {0}, NEW a \in C..2 * C - 1 PROVE a % C = a - C
  OBVIOUS

(* Twice the length has no remainder.                                      *)
LEMMA ModTwice == ASSUME NEW C \in Nat \ {0} PROVE (2 * C) % C = 0
  OBVIOUS

CellAt(a) == a % Capacity

(* The cell of every sum that occurs, without a remainder in it.           *)
LEMMA PlaceOf ==
  ASSUME QueueAssumption
  PROVE  \A a \in 0..2 * Capacity :
           CellAt(a) = IF a < Capacity THEN a
                       ELSE IF a < 2 * Capacity THEN a - Capacity ELSE 0
<1> SUFFICES ASSUME NEW a \in 0..2 * Capacity
             PROVE  CellAt(a) = IF a < Capacity THEN a
                                ELSE IF a < 2 * Capacity THEN a - Capacity ELSE 0
  OBVIOUS
<1>1. Capacity \in Nat \ {0}
  BY DEF QueueAssumption
<1>2. CASE a < Capacity
  <2>1. a \in 0..Capacity - 1
    BY <1>1, <1>2
  <2>2. a % Capacity = a
    BY <1>1, <2>1, ModSmall
  <2> QED BY <1>2, <2>2 DEF CellAt
<1>3. CASE a \in Capacity..2 * Capacity - 1
  <2>1. a % Capacity = a - Capacity
    BY <1>1, <1>3, ModLarge
  <2> QED BY <1>1, <1>3, <2>1 DEF CellAt
<1>4. CASE a = 2 * Capacity
  <2>1. a % Capacity = 0
    BY <1>1, <1>4, ModTwice
  <2> QED BY <1>1, <1>4, <2>1 DEF CellAt
<1> QED BY <1>1, <1>2, <1>3, <1>4

(* The i-th item of the ring is in the cell i behind readFrom.             *)
LEMMA ContentsOf ==
  ASSUME QueueAssumption, Ring
  PROVE  /\ Contents = [i \in 1..count |-> buf[CellAt(readFrom + i)]]
         /\ Contents \in Seq(Stored) /\ Len(Contents) = count
         /\ \A i \in 1..count : CellAt(readFrom + i) \in Cell
<1>1. /\ Capacity \in Nat \ {0} /\ count \in 0..Capacity /\ readFrom \in 0..Capacity - 1
      /\ buf \in [Cell -> Stored]
  BY DEF QueueAssumption, Ring, Cell
<1>2. \A i \in 1..count : CellAt(readFrom + i) \in Cell
  BY <1>1, PlaceOf DEF Cell
<1>3. \A i \in 1..count : buf[CellAt(readFrom + i)] \in Stored
  BY <1>1, <1>2
<1>4. Contents = [i \in 1..count |-> buf[CellAt(readFrom + i)]]
  BY DEF Contents, CellAt
<1> QED BY <1>1, <1>2, <1>3, <1>4

-----------------------------------------------------------------------------
(* Each of the three operations on the storage area keeps it a ring, and   *)
(* is the abstract one on its contents.                                    *)
LEMMA BackStep ==
  ASSUME QueueAssumption, Ring, NEW d \in Items, ~IsFull, CopyToBack(d)
  PROVE  Ring' /\ Contents' = Append(Contents, d)
<1>1. Capacity \in Nat \ {0} /\ count \in 0..Capacity - 1 /\ count' = count + 1
  BY DEF QueueAssumption, Ring, IsFull, CopyToBack
<1>2. /\ buf \in [Cell -> Stored] /\ readFrom \in 0..Capacity - 1 /\ writeTo \in 0..Capacity - 1
      /\ d \in Stored
      /\ readFrom' = readFrom /\ buf' = [buf EXCEPT ![writeTo] = d]
      /\ writeTo = CellAt(readFrom + 1 + count)
      /\ writeTo' = CellAt(writeTo + 1)
  BY DEF Ring, CopyToBack, After, CellAt, Stored, Cell
<1>3. writeTo = IF readFrom + 1 + count < Capacity THEN readFrom + 1 + count
                ELSE readFrom + 1 + count - Capacity
  BY <1>1, <1>2, PlaceOf
<1>4. writeTo' = IF writeTo + 1 < Capacity THEN writeTo + 1 ELSE 0
  BY <1>1, <1>2, PlaceOf
<1>5. Ring'
  <2>1. CellAt(readFrom + 1 + count')
          = IF readFrom + 1 + count' < Capacity THEN readFrom + 1 + count'
            ELSE IF readFrom + 1 + count' < 2 * Capacity
                 THEN readFrom + 1 + count' - Capacity ELSE 0
    BY <1>1, <1>2, PlaceOf
  <2>2. writeTo' = CellAt(readFrom + 1 + count')
    BY <1>1, <1>2, <1>3, <1>4, <2>1
  <2>3. writeTo' \in Cell /\ readFrom' \in Cell /\ count' \in 0..Capacity
    BY <1>1, <1>2, <1>4 DEF Cell
  <2> QED BY <1>2, <2>2, <2>3 DEF Ring, CellAt
<1>6. \A i \in 1..count : CellAt(readFrom + i) # writeTo
  BY <1>1, <1>2, <1>3, PlaceOf
<1>7. CellAt(readFrom + count') = writeTo
  BY <1>1, <1>2, <1>3, PlaceOf
<1>8. Contents' = [i \in 1..count + 1 |-> buf'[CellAt(readFrom + i)]]
  BY <1>1, <1>2 DEF Contents, CellAt
<1>9. Append(Contents, d) = [i \in 1..count + 1 |-> IF i = count + 1 THEN d ELSE Contents[i]]
  <2>1. Contents \in Seq(Stored) /\ Len(Contents) = count
    BY ContentsOf
  <2> HIDE DEF Contents
  <2> DEFINE longer == Append(Contents, d)
  <2>2. /\ longer \in Seq(Stored) /\ Len(longer) = count + 1
        /\ \A i \in 1..count : longer[i] = Contents[i]
        /\ longer[count + 1] = d
    BY <1>2, <2>1, AppendProperties
  <2> HIDE DEF longer
  <2>3. longer = [i \in 1..count + 1 |-> longer[i]]
    BY <2>2
  <2>4. \A i \in 1..count + 1 : longer[i] = IF i = count + 1 THEN d ELSE Contents[i]
    BY <1>1, <2>2
  <2>5. longer = [i \in 1..count + 1 |-> IF i = count + 1 THEN d ELSE Contents[i]]
    BY <2>3, <2>4
  <2> QED BY <2>5 DEF longer
<1>10. \A i \in 1..count + 1 :
         buf'[CellAt(readFrom + i)] = IF i = count + 1 THEN d ELSE Contents[i]
  <2> SUFFICES ASSUME NEW i \in 1..count + 1
               PROVE  buf'[CellAt(readFrom + i)] = IF i = count + 1 THEN d ELSE Contents[i]
    OBVIOUS
  <2>1. CASE i = count + 1
    BY <1>1, <1>2, <1>7, <2>1 DEF Cell
  <2>2. CASE i # count + 1
    <3>1. i \in 1..count
      BY <1>1, <2>2
    <3>2. Contents[i] = buf[CellAt(readFrom + i)] /\ CellAt(readFrom + i) \in Cell
      BY <3>1, ContentsOf
    <3> QED BY <1>2, <1>6, <2>2, <3>1, <3>2
  <2> QED BY <2>1, <2>2
<1> QED BY <1>5, <1>8, <1>9, <1>10

(* Adding at the front: the item goes before the first one.                *)
LEMMA FrontStep ==
  ASSUME QueueAssumption, Ring, NEW d \in Items, ~IsFull, CopyToFront(d)
  PROVE  Ring' /\ Contents' = << d >> \o Contents
<1>1. Capacity \in Nat \ {0} /\ count \in 0..Capacity - 1 /\ count' = count + 1
  BY DEF QueueAssumption, Ring, IsFull, CopyToFront
<1>2. /\ buf \in [Cell -> Stored] /\ readFrom \in 0..Capacity - 1 /\ writeTo \in 0..Capacity - 1
      /\ d \in Stored
      /\ writeTo' = writeTo /\ buf' = [buf EXCEPT ![readFrom] = d]
      /\ writeTo = CellAt(readFrom + 1 + count)
      /\ readFrom' = CellAt(readFrom + Capacity - 1)
  BY DEF Ring, CopyToFront, Before, CellAt, Stored, Cell
<1>3. writeTo = IF readFrom + 1 + count < Capacity THEN readFrom + 1 + count
                ELSE readFrom + 1 + count - Capacity
  BY <1>1, <1>2, PlaceOf
<1>4. readFrom' = IF readFrom = 0 THEN Capacity - 1 ELSE readFrom - 1
  BY <1>1, <1>2, PlaceOf
<1>5. Ring'
  <2>1. CellAt(readFrom' + 1 + count')
          = IF readFrom' + 1 + count' < Capacity THEN readFrom' + 1 + count'
            ELSE IF readFrom' + 1 + count' < 2 * Capacity
                 THEN readFrom' + 1 + count' - Capacity ELSE 0
    BY <1>1, <1>2, <1>4, PlaceOf
  <2>2. writeTo' = CellAt(readFrom' + 1 + count')
    BY <1>1, <1>2, <1>3, <1>4, <2>1
  <2>3. writeTo' \in Cell /\ readFrom' \in Cell /\ count' \in 0..Capacity
    BY <1>1, <1>2, <1>4 DEF Cell
  <2> QED BY <1>2, <2>2, <2>3 DEF Ring, CellAt
<1>6. CellAt(readFrom' + 1) = readFrom
  BY <1>1, <1>2, <1>4, PlaceOf
<1>7. \A i \in 1..count :
        /\ CellAt(readFrom' + (i + 1)) = CellAt(readFrom + i)
        /\ CellAt(readFrom + i) # readFrom
  BY <1>1, <1>2, <1>4, PlaceOf
<1>8. Contents' = [i \in 1..count + 1 |-> buf'[CellAt(readFrom' + i)]]
  BY <1>1 DEF Contents, CellAt
<1>9. << d >> \o Contents = [i \in 1..count + 1 |-> IF i = 1 THEN d ELSE Contents[i - 1]]
  BY <1>1, ContentsOf
<1>10. \A i \in 1..count + 1 :
         buf'[CellAt(readFrom' + i)] = IF i = 1 THEN d ELSE Contents[i - 1]
  <2> SUFFICES ASSUME NEW i \in 1..count + 1
               PROVE  buf'[CellAt(readFrom' + i)] = IF i = 1 THEN d ELSE Contents[i - 1]
    OBVIOUS
  <2>1. CASE i = 1
    BY <1>1, <1>2, <1>6, <2>1 DEF Cell
  <2>2. CASE i # 1
    <3> DEFINE j == i - 1
    <3>1. j \in 1..count /\ i = j + 1
      BY <1>1, <2>2
    <3> HIDE DEF j
    <3>2. Contents[j] = buf[CellAt(readFrom + j)] /\ CellAt(readFrom + j) \in Cell
      BY <3>1, ContentsOf
    <3>3. buf'[CellAt(readFrom' + (j + 1))] = Contents[j]
      BY <1>2, <1>7, <3>1, <3>2
    <3> QED BY <2>2, <3>1, <3>3 DEF j
  <2> QED BY <2>1, <2>2
<1> QED BY <1>5, <1>8, <1>9, <1>10

(* Taking: the first item leaves, the others keep their order.             *)
LEMMA TakeStep ==
  ASSUME QueueAssumption, Ring, NEW c \in Workers \cup {Isr},
         got \in [Workers \cup {Isr} -> Stored], ~IsEmpty, TakeItem(c)
  PROVE  /\ Ring' /\ got' \in [Workers \cup {Isr} -> Stored]
         /\ Contents # << >> /\ Contents' = Tail(Contents)
         /\ got' = [got EXCEPT ![c] = Head(Contents)]
<1>1. Capacity \in Nat \ {0} /\ count \in 1..Capacity /\ count' = count - 1
  BY DEF QueueAssumption, Ring, IsEmpty, TakeItem
<1>2. /\ buf \in [Cell -> Stored] /\ readFrom \in 0..Capacity - 1 /\ writeTo \in 0..Capacity - 1
      /\ writeTo' = writeTo /\ buf' = buf
      /\ writeTo = CellAt(readFrom + 1 + count)
      /\ readFrom' = CellAt(readFrom + 1)
      /\ got' = [got EXCEPT ![c] = buf[CellAt(readFrom + 1)]]
  BY DEF Ring, TakeItem, CopyDataFromQueue, After, CellAt, Cell
<1>3. readFrom' = IF readFrom + 1 < Capacity THEN readFrom + 1 ELSE 0
  BY <1>1, <1>2, PlaceOf
<1>4. Ring'
  <2>1. CellAt(readFrom' + 1 + count')
          = IF readFrom' + 1 + count' < Capacity THEN readFrom' + 1 + count'
            ELSE readFrom' + 1 + count' - Capacity
    BY <1>1, <1>2, <1>3, PlaceOf
  <2>2. writeTo = IF readFrom + 1 + count < Capacity THEN readFrom + 1 + count
                  ELSE IF readFrom + 1 + count < 2 * Capacity
                       THEN readFrom + 1 + count - Capacity ELSE 0
    BY <1>1, <1>2, PlaceOf
  <2>3. writeTo' = CellAt(readFrom' + 1 + count')
    BY <1>1, <1>2, <1>3, <2>1, <2>2
  <2>4. writeTo' \in Cell /\ readFrom' \in Cell /\ count' \in 0..Capacity
    BY <1>1, <1>2, <1>3 DEF Cell
  <2> QED BY <1>2, <2>3, <2>4 DEF Ring, CellAt
<1>5. /\ Contents = [i \in 1..count |-> buf[CellAt(readFrom + i)]]
      /\ Contents \in Seq(Stored) /\ Len(Contents) = count
      /\ \A i \in 1..count : CellAt(readFrom + i) \in Cell
  BY ContentsOf
<1>6. Contents # << >> /\ Head(Contents) = buf[CellAt(readFrom + 1)]
  BY <1>1, <1>5
<1>7. \A i \in 1..count - 1 : CellAt(readFrom' + i) = CellAt(readFrom + (i + 1))
  BY <1>1, <1>2, <1>3, PlaceOf
<1>8. Contents' = [i \in 1..count - 1 |-> buf[CellAt(readFrom' + i)]]
  BY <1>1, <1>2 DEF Contents, CellAt
<1>9. Tail(Contents) = [i \in 1..count - 1 |-> Contents[i + 1]]
  BY <1>1, <1>5
<1>10. \A i \in 1..count - 1 : buf[CellAt(readFrom' + i)] = Contents[i + 1]
  BY <1>1, <1>5, <1>7
<1>11. Contents' = Tail(Contents)
  BY <1>8, <1>9, <1>10
<1>12. buf[CellAt(readFrom + 1)] \in Stored
  BY <1>1, <1>2, <1>5
<1>13. got' \in [Workers \cup {Isr} -> Stored] /\ got' = [got EXCEPT ![c] = Head(Contents)]
  BY <1>2, <1>6, <1>12
<1> QED BY <1>4, <1>6, <1>11, <1>13

-----------------------------------------------------------------------------
(* What the steps of a call do to it.                                      *)
LEMMA GotoKeeps ==
  ASSUME Calls, NEW t \in Workers, NEW step \in Steps \ {"idle"},
         pc[t] # "idle", Goto(t, step), UNCHANGED call
  PROVE  Calls'
BY DEF Calls, Goto, CallOf

(* A return leaves the task without a call.                                *)
LEMMA ReturnKeeps ==
  ASSUME QueueAssumption, Calls, NEW t \in Workers, Return(t), waited \in [Workers -> 0..MaxDelay]
  PROVE  Calls' /\ waited' \in [Workers -> 0..MaxDelay]
<1>1. 0 \in 0..MaxDelay
  BY DEF QueueAssumption, TickAssumption, MaxDelay
<1>2. CallOf(NoCall)
  BY <1>1 DEF CallOf, NoCall, Stored, Sending
<1> HIDE DEF NoCall
<1>3. Calls'
  <2>1. pc \in [Workers -> Steps] /\ pc' = [pc EXCEPT ![t] = "idle"]
    BY DEF Calls, Return, Goto
  <2>0. /\ pc' \in [Workers -> Steps] /\ pc'[t] = "idle"
       /\ \A u \in Workers \ {t} : pc'[u] = pc[u]
    BY <2>1 DEF Steps
  <2>2. call' = [u \in Workers |-> IF u = t THEN NoCall ELSE call[u]]
    BY DEF Calls, Return
  <2>3. call' = [u \in Workers |-> call'[u]]
    BY <2>2
  <2>4. \A u \in Workers : /\ CallOf(call'[u])
                           /\ pc'[u] = "idle" => call'[u] = NoCall
                           /\ pc'[u] # "idle" => call'[u].op # "none"
    BY <1>2, <2>0, <2>2 DEF Calls
  <2> QED BY <2>0, <2>3, <2>4 DEF Calls, CallOf
<1> QED BY <1>1, <1>3 DEF Return

(* A new call is well formed.                                              *)
LEMMA CallKeeps ==
  ASSUME QueueAssumption, Calls, NEW t \in Workers, Call(t)
  PROVE  Calls'
<1>1. PICK op \in Programs[t], d \in Items, w \in Waits :
        call' = [call EXCEPT ![t] =
                   [op |-> op, item |-> IF op \in Sending THEN d ELSE Nothing,
                    ticks |-> w, asked |-> w]]
  BY DEF Call
<1> DEFINE c == [op |-> op, item |-> IF op \in Sending THEN d ELSE Nothing,
                 ticks |-> w, asked |-> w]
<1>2. op \in Operations /\ w \in 0..MaxDelay /\ op # "none"
  BY DEF QueueAssumption, Operations
<1>3. CallOf(c) /\ c.op # "none"
  BY <1>2 DEF CallOf, Stored
<1>4. call' = [u \in Workers |-> IF u = t THEN c ELSE call[u]]
  BY <1>1 DEF Calls
<1> HIDE DEF c
<1>5. /\ pc' \in [Workers -> Steps] /\ pc'[t] = "try"
      /\ \A u \in Workers \ {t} : pc'[u] = pc[u]
  <2>1. pc \in [Workers -> Steps] /\ pc' = [pc EXCEPT ![t] = "try"]
    BY DEF Calls, Call, Goto
  <2> QED BY <2>1 DEF Steps
<1>6. call' = [u \in Workers |-> call'[u]]
  BY <1>4
<1>7. \A u \in Workers : /\ CallOf(call'[u])
                         /\ pc'[u] = "idle" => call'[u] = NoCall
                         /\ pc'[u] # "idle" => call'[u].op # "none"
  BY <1>3, <1>4, <1>5 DEF Calls
<1> QED BY <1>5, <1>6, <1>7 DEF Calls, CallOf

(* Looking for a time-out changes no more than the remaining ticks.        *)
LEMMA CheckKeeps ==
  ASSUME Calls, NEW t \in Workers, CheckForTimeOut(t)
  PROVE  Calls'
<1>1. pc[t] = "checkTime"
  BY DEF CheckForTimeOut, At
<1>2. CASE UNCHANGED call
  <2>1. Goto(t, "unlockTxToFail") \/ Goto(t, "checkStuck")
    BY DEF CheckForTimeOut
  <2> QED BY <1>1, <1>2, <2>1, GotoKeeps DEF Steps
<1>3. CASE call' = [call EXCEPT ![t].ticks = @ - ElapsedSince(k, stamp[t])]
  <2> DEFINE n == call[t].ticks - ElapsedSince(k, stamp[t])
             c == [op |-> call[t].op, item |-> call[t].item, ticks |-> n, asked |-> call[t].asked]
  <2>1. call[t] = [op |-> call[t].op, item |-> call[t].item,
                   ticks |-> call[t].ticks, asked |-> call[t].asked]
    BY DEF Calls, CallOf
  <2> HIDE DEF n
  <2>2. [call[t] EXCEPT !.ticks = n] = c
    BY <2>1
  <2>3. call' = [call EXCEPT ![t] = [call[t] EXCEPT !.ticks = n]]
    BY <1>3 DEF n, Calls
  <2>4. call' = [u \in Workers |-> IF u = t THEN c ELSE call[u]]
    BY <2>2, <2>3 DEF Calls
  <2>5. CallOf(c) /\ c.op # "none"
    BY <1>1 DEF Calls, CallOf
  <2> HIDE DEF c
  <2>6. /\ pc' \in [Workers -> Steps] /\ pc'[t] # "idle"
        /\ \A u \in Workers \ {t} : pc'[u] = pc[u]
    <3>1. pc \in [Workers -> Steps]
          /\ \/ pc' = [pc EXCEPT ![t] = "unlockTxToFail"]
             \/ pc' = [pc EXCEPT ![t] = "checkStuck"]
      BY DEF Calls, CheckForTimeOut, Goto
    <3> QED BY <3>1 DEF Steps
  <2>7. call' = [u \in Workers |-> call'[u]]
    BY <2>4
  <2>8. \A u \in Workers : /\ CallOf(call'[u])
                           /\ pc'[u] = "idle" => call'[u] = NoCall
                           /\ pc'[u] # "idle" => call'[u].op # "none"
    BY <2>4, <2>5, <2>6 DEF Calls
  <2> QED BY <2>6, <2>7, <2>8 DEF Calls, CallOf
<1> QED BY <1>2, <1>3 DEF CheckForTimeOut

-----------------------------------------------------------------------------
(* A queue starts as an empty ring, and as an empty abstract queue.        *)
LEMMA InitHolds ==
  ASSUME QueueAssumption, Init
  PROVE  IInv /\ Fifo!Init
<1>1. Capacity \in Nat \ {0} /\ MaxLocked \in Nat /\ 0 \in 0..MaxDelay
  BY DEF QueueAssumption, TickAssumption, MaxDelay
<1>2. Ring
  <2>1. CellAt(Capacity) = 0
    BY <1>1, PlaceOf
  <2>2. (readFrom + 1 + count) % Capacity = 0
    BY <1>1, <2>1 DEF Init, CellAt
  <2> QED BY <1>1, <2>2 DEF Init, Ring, Cell, Stored
<1>3. Calls
  BY <1>1 DEF Init, Calls, CallOf, NoCall, Stored, Steps, Sending
<1>4. locks \in (Unlocked..MaxLocked) \X (Unlocked..MaxLocked)
  BY <1>1 DEF Init, locks, Unlocked
<1>5. /\ got \in [Workers \cup {Isr} -> Stored]
      /\ waited \in [Workers -> 0..MaxDelay]
  BY <1>1 DEF Init, Stored
<1>6. Fifo!Init
  BY DEF Init, Contents, Fifo!Init
<1> QED BY <1>2, <1>3, <1>4, <1>5, <1>6 DEF IInv

(* What is left when a step touches neither the storage area nor got.      *)
Elsewhere == Calls /\ locks \in (Unlocked..MaxLocked) \X (Unlocked..MaxLocked)
             /\ waited \in [Workers -> 0..MaxDelay]

(* A step that leaves the ring and what was handed out alone.              *)
LEMMA Untouched ==
  ASSUME IInv, UNCHANGED <<ring, got>>, Elsewhere'
  PROVE  IInv' /\ UNCHANGED <<Contents, got>>
<1>1. buf' = buf /\ writeTo' = writeTo /\ readFrom' = readFrom /\ count' = count /\ got' = got
  BY DEF ring
<1>2. Ring' /\ Contents' = Contents
  BY <1>1 DEF IInv, Ring, Contents
<1> QED BY <1>1, <1>2 DEF IInv, Elsewhere

(* A send at either end is a send of the abstract queue.                   *)
LEMMA SendStep ==
  ASSUME QueueAssumption, IInv, NEW op, NEW d \in Items, ~IsFull,
         CopyDataToQueue(op, d), UNCHANGED got
  PROVE  Ring' /\ Fifo!Next
<1>1. Ring /\ Len(Contents) < Capacity
  <2>1. Ring /\ count \in 0..Capacity /\ Capacity \in Nat /\ count # Capacity
    BY DEF IInv, Ring, IsFull, QueueAssumption
  <2> QED BY <2>1, ContentsOf
<1>2. CASE CopyToBack(d)
  <2>1. Ring' /\ Contents' = Append(Contents, d)
    BY <1>1, <1>2, BackStep
  <2>2. Fifo!Send
    BY <1>1, <2>1 DEF Fifo!Send
  <2> QED BY <2>1, <2>2 DEF Fifo!Next
<1>3. CASE CopyToFront(d)
  <2>1. Ring' /\ Contents' = << d >> \o Contents
    BY <1>1, <1>3, FrontStep
  <2>2. Fifo!SendToFront
    BY <1>1, <2>1 DEF Fifo!SendToFront
  <2> QED BY <2>1, <2>2 DEF Fifo!Next
<1> QED BY <1>2, <1>3 DEF CopyDataToQueue

(* A receive is a receive of the abstract queue.                           *)
LEMMA ReceiveStep ==
  ASSUME QueueAssumption, IInv, NEW c \in Workers \cup {Isr}, ~IsEmpty, TakeItem(c)
  PROVE  Ring' /\ got' \in [Workers \cup {Isr} -> Stored] /\ Fifo!Next
<1>1. /\ Ring' /\ got' \in [Workers \cup {Isr} -> Stored]
      /\ Contents # << >> /\ Contents' = Tail(Contents)
      /\ got' = [got EXCEPT ![c] = Head(Contents)]
  BY TakeStep DEF IInv
<1>2. Fifo!Receive(c)
  BY <1>1 DEF Fifo!Receive
<1> QED BY <1>1, <1>2 DEF Fifo!Next

(* A peek returns the first item and removes nothing.                      *)
LEMMA PeekStep ==
  ASSUME QueueAssumption, IInv, NEW c \in Workers \cup {Isr}, ~IsEmpty,
         CopyDataFromQueue(c), UNCHANGED ring
  PROVE  Ring' /\ got' \in [Workers \cup {Isr} -> Stored] /\ Fifo!Next
<1>1. Ring /\ count \in 1..Capacity /\ Capacity \in Nat
  BY DEF IInv, Ring, IsEmpty, QueueAssumption
<1>2. /\ Contents \in Seq(Stored) /\ Len(Contents) = count
      /\ Contents[1] = buf[CellAt(readFrom + 1)] /\ CellAt(readFrom + 1) \in Cell
  BY <1>1, ContentsOf
<1>3. Contents # << >> /\ Head(Contents) = buf[CellAt(readFrom + 1)]
  BY <1>1, <1>2
<1>4. got' = [got EXCEPT ![c] = Head(Contents)]
  BY <1>3 DEF CopyDataFromQueue, After, CellAt
<1>5. Head(Contents) \in Stored
  BY <1>1, <1>2, <1>3 DEF Ring
<1>6. got' \in [Workers \cup {Isr} -> Stored]
  BY <1>4, <1>5 DEF IInv
<1>7. Ring' /\ Contents' = Contents
  BY <1>1 DEF ring, Ring, Contents
<1>8. Fifo!Peek(c)
  BY <1>3, <1>4, <1>7 DEF Fifo!Peek
<1> QED BY <1>6, <1>7, <1>8 DEF Fifo!Next

Follows == IInv' /\ (Fifo!Next \/ UNCHANGED <<Contents, got>>)

(* Each step of a task is an operation of the abstract queue or leaves it. *)
LEMMA TaskFollows ==
  ASSUME QueueAssumption, IInv, NEW t \in Workers, TaskStep(t)
  PROVE  Follows
<1>1. /\ Ring /\ Calls /\ got \in [Workers \cup {Isr} -> Stored]
      /\ locks \in (Unlocked..MaxLocked) \X (Unlocked..MaxLocked)
      /\ waited \in [Workers -> 0..MaxDelay] /\ MaxLocked \in Nat
  BY DEF IInv, QueueAssumption
<1>2. CASE TrySend(t)
  <2>1. call[t].item \in Items /\ ~IsFull /\ CopyDataToQueue(call[t].op, call[t].item)
        /\ Return(t) /\ UNCHANGED <<locks, got>>
    BY <1>1, <1>2 DEF TrySend, Calls, CallOf
  <2>2. Ring' /\ Fifo!Next
    BY <2>1, SendStep
  <2>3. Calls' /\ waited' \in [Workers -> 0..MaxDelay]
    BY <1>1, <2>1, ReturnKeeps
  <2> QED BY <1>1, <2>1, <2>2, <2>3 DEF Follows, IInv
<1>3. CASE TryReceive(t)
  <2>1. ~IsEmpty /\ TakeItem(t) /\ Return(t) /\ UNCHANGED locks
    BY <1>3 DEF TryReceive
  <2>2. Ring' /\ got' \in [Workers \cup {Isr} -> Stored] /\ Fifo!Next
    BY <2>1, ReceiveStep
  <2>3. Calls' /\ waited' \in [Workers -> 0..MaxDelay]
    BY <1>1, <2>1, ReturnKeeps
  <2> QED BY <1>1, <2>1, <2>2, <2>3 DEF Follows, IInv
<1>4. CASE TryPeek(t)
  <2>1. ~IsEmpty /\ CopyDataFromQueue(t) /\ Return(t) /\ UNCHANGED <<ring, locks>>
    BY <1>4 DEF TryPeek
  <2>2. Ring' /\ got' \in [Workers \cup {Isr} -> Stored] /\ Fifo!Next
    BY <2>1, PeekStep
  <2>3. Calls' /\ waited' \in [Workers -> 0..MaxDelay]
    BY <1>1, <2>1, ReturnKeeps
  <2> QED BY <1>1, <2>1, <2>2, <2>3 DEF Follows, IInv
<1>5. CASE GiveUp(t) \/ ResumeToFail(t)
  <2>1. Return(t) /\ UNCHANGED <<ring, locks, got>>
    BY <1>5 DEF GiveUp, ResumeToFail
  <2>2. Calls' /\ waited' \in [Workers -> 0..MaxDelay]
    BY <1>1, <2>1, ReturnKeeps
  <2>3. UNCHANGED <<ring, got>> /\ Elsewhere'
    BY <1>1, <2>1, <2>2 DEF Elsewhere
  <2> QED BY <2>3, Untouched DEF Follows
<1>6. CASE PrepareToWait(t) \/ Suspend(t) \/ CheckStuck(t) \/ Place(t)
           \/ ResumeToRetry(t) \/ ResumeToBlock(t) \/ Yield(t)
  <2>1. UNCHANGED <<ring, locks, call, got, waited>> /\ pc[t] # "idle"
        /\ \E step \in Steps \ {"idle"} : Goto(t, step)
    BY <1>6 DEF PrepareToWait, Suspend, CheckStuck, Place, ResumeToRetry, ResumeToBlock, Yield,
                At, Steps
  <2>2. Calls'
    BY <1>1, <2>1, GotoKeeps
  <2>3. UNCHANGED <<ring, got>> /\ Elsewhere'
    BY <1>1, <2>1, <2>2 DEF Elsewhere
  <2> QED BY <2>3, Untouched DEF Follows
<1>7. CASE LockQueue(t)
  <2>1. UNCHANGED <<ring, call, got, waited>> /\ pc[t] # "idle" /\ Goto(t, "checkTime")
        /\ "checkTime" \in Steps \ {"idle"}
    BY <1>7 DEF LockQueue, At, Steps
  <2>2. Calls'
    BY <1>1, <2>1, GotoKeeps
  <2>3. locks' \in (Unlocked..MaxLocked) \X (Unlocked..MaxLocked)
    BY <1>1, <1>7 DEF LockQueue, locks, Unlocked
  <2>4. UNCHANGED <<ring, got>> /\ Elsewhere'
    BY <1>1, <2>1, <2>2, <2>3 DEF Elsewhere
  <2> QED BY <2>4, Untouched DEF Follows
<1>8. CASE CheckForTimeOut(t)
  <2>1. Calls'
    BY <1>1, <1>8, CheckKeeps
  <2>2. UNCHANGED <<ring, locks, got, waited>>
    BY <1>8 DEF CheckForTimeOut
  <2>3. UNCHANGED <<ring, got>> /\ Elsewhere'
    BY <1>1, <2>1, <2>2 DEF Elsewhere
  <2> QED BY <2>3, Untouched DEF Follows
<1>9. CASE \E way \in Ways : UnlockTx(t, way) \/ UnlockRx(t, way)
  <2>1. UNCHANGED <<ring, call, got, waited>> /\ pc[t] # "idle"
        /\ \E step \in Steps \ {"idle"} : Goto(t, step)
    BY <1>9 DEF UnlockTx, UnlockRx, Ways, Way, At, Steps
  <2>2. Calls'
    BY <1>1, <2>1, GotoKeeps
  <2>3. locks' \in (Unlocked..MaxLocked) \X (Unlocked..MaxLocked)
    BY <1>1, <1>9 DEF UnlockTx, UnlockRx, locks, Unlocked
  <2>4. UNCHANGED <<ring, got>> /\ Elsewhere'
    BY <1>1, <2>1, <2>2, <2>3 DEF Elsewhere
  <2> QED BY <2>4, Untouched DEF Follows
<1> QED BY <1>2, <1>3, <1>4, <1>5, <1>6, <1>7, <1>8, <1>9 DEF TaskStep

(* The same holds of the handlers, the tick and the scheduler.             *)
LEMMA NextFollows ==
  ASSUME QueueAssumption, IInv, [Next]_vars
  PROVE  Follows
<1>1. /\ Ring /\ Calls /\ got \in [Workers \cup {Isr} -> Stored]
      /\ locks \in (Unlocked..MaxLocked) \X (Unlocked..MaxLocked)
      /\ waited \in [Workers -> 0..MaxDelay] /\ MaxLocked \in Nat
  BY DEF IInv, QueueAssumption
<1>2. CASE UNCHANGED vars
  <2>1. UNCHANGED <<ring, got>> /\ UNCHANGED <<locks, pc, call, waited>>
    BY <1>2 DEF vars
  <2>2. Elsewhere'
    BY <1>1, <2>1 DEF Elsewhere, Calls, CallOf
  <2> QED BY <2>1, <2>2, Untouched DEF Follows
<1>3. ASSUME NEW t \in Workers, Call(t)
      PROVE  Follows
  <2>1. UNCHANGED <<ring, locks, got, waited>>
    BY <1>3 DEF Call
  <2>2. Calls'
    BY <1>1, <1>3, CallKeeps
  <2>3. UNCHANGED <<ring, got>> /\ Elsewhere'
    BY <1>1, <2>1, <2>2 DEF Elsewhere
  <2> QED BY <2>3, Untouched DEF Follows
<1>4. ASSUME NEW d \in Items, IsrSend(d)
      PROVE  Follows
  <2>1. ~IsFull /\ CopyDataToQueue("send", d) /\ UNCHANGED got
        /\ UNCHANGED <<rxLock, pc, call, waited>>
    BY <1>4 DEF IsrSend, CopyDataToQueue
  <2>2. Ring' /\ Fifo!Next
    BY <2>1, SendStep
  <2>3. locks' \in (Unlocked..MaxLocked) \X (Unlocked..MaxLocked)
    BY <1>1, <1>4, <2>1 DEF IsrSend, locks, Unlocked
  <2>4. Calls'
    BY <1>1, <2>1 DEF Calls, CallOf
  <2> QED BY <1>1, <2>1, <2>2, <2>3, <2>4 DEF Follows, IInv
<1>5. CASE IsrReceive
  <2>1. ~IsEmpty /\ TakeItem(Isr) /\ UNCHANGED <<txLock, pc, call, waited>>
    BY <1>5 DEF IsrReceive
  <2>2. Ring' /\ got' \in [Workers \cup {Isr} -> Stored] /\ Fifo!Next
    BY <2>1, ReceiveStep
  <2>3. locks' \in (Unlocked..MaxLocked) \X (Unlocked..MaxLocked)
    BY <1>1, <1>5, <2>1 DEF IsrReceive, locks, Unlocked
  <2>4. Calls'
    BY <1>1, <2>1 DEF Calls, CallOf
  <2> QED BY <1>1, <2>1, <2>2, <2>3, <2>4 DEF Follows, IInv
<1>6. CASE Timer
  <2>1. UNCHANGED <<ring, got>> /\ UNCHANGED <<locks, pc, call>>
    BY <1>6 DEF Timer
  <2>2. \A t \in Workers : call[t].asked \in 0..MaxDelay
    BY <1>1 DEF Calls, CallOf
  <2>3. waited' \in [Workers -> 0..MaxDelay]
    <3>1. waited' = [t \in Workers |->
                       IF stamp[t] # Nothing /\ waited[t] < call[t].asked
                       THEN waited[t] + 1 ELSE waited[t]]
      BY <1>6 DEF Timer
    <3>2. MaxDelay \in Nat
      BY DEF QueueAssumption, TickAssumption, MaxDelay
    <3>3. \A t \in Workers : waited'[t] \in 0..MaxDelay
      BY <1>1, <2>2, <3>1, <3>2
    <3> QED BY <3>1, <3>3
  <2>4. Elsewhere'
    BY <1>1, <2>1, <2>3 DEF Elsewhere, Calls, CallOf
  <2> QED BY <2>1, <2>4, Untouched DEF Follows
<1> QED BY <1>2, <1>3, <1>4, <1>5, <1>6, TaskFollows DEF Next

(* The invariant holds in every reachable state.                           *)
LEMMA Inductive == ASSUME QueueAssumption PROVE Spec => []IInv
<1>1. Init => IInv
  BY InitHolds
<1>2. IInv /\ [Next]_vars => IInv'
  BY NextFollows DEF Follows
<1> QED BY <1>1, <1>2, PTL DEF Spec

(* Every queue of any length keeps its storage area, its lock counts and   *)
(* what it has handed out within their types: queue.c.                     *)
THEOREM TypeCorrect == ASSUME QueueAssumption PROVE Spec => []TypeOK
<1>1. IInv => TypeOK
  <2> SUFFICES ASSUME IInv PROVE TypeOK
    OBVIOUS
  <2>1. ring \in [0..Capacity - 1 -> Items \cup {Nothing}]
                   \X (0..Capacity - 1) \X (0..Capacity - 1) \X (0..Capacity)
    BY DEF IInv, Ring, ring, Cell, Stored
  <2>2. \A t \in Workers : pc[t] = "idle" <=> call[t] = NoCall
    BY DEF IInv, Calls, NoCall
  <2> QED BY <2>1, <2>2 DEF IInv, TypeOK, Stored
<1> QED BY <1>1, Inductive, PTL

(* queue.c implements a bounded FIFO: whatever tasks, handlers, the tick   *)
(* and the scheduler do, each step is an operation of BoundedFifo on the   *)
(* items between the read and the write pointer, or none.                  *)
THEOREM Implements == ASSUME QueueAssumption PROVE Spec => ImplementsFifo
<1>1. Init => Fifo!Init
  BY InitHolds
<1>2. IInv /\ [Next]_vars => [Fifo!Next]_<<Contents, got>>
  BY NextFollows DEF Follows
<1> QED BY <1>1, <1>2, Inductive, PTL DEF Spec, ImplementsFifo, Fifo!Spec

-------------------------------------------------------------------------------
(***************************************************************************)
(* Theorems about the tasks and handlers at a queue, for every number of   *)
(* tasks and priorities, every length and every width of the tick count:   *)
(* the scheduler's lists stay sound, the most important ready task runs,   *)
(* and no waiter is forgotten.                                             *)
(***************************************************************************)
(* prvUnlockQueue wakes one waiter: it goes from the event list to the     *)
(* pending list.                                                           *)
Wakes1(s, r, e) ==
  /\ Sound(r, Task) /\ SameHomes(s, r)
  /\ r.current = s.current /\ r.suspended = s.suspended /\ r.tick = s.tick
  /\ r.overflows = s.overflows /\ r.missedTicks = s.missedTicks
  /\ r.swapFailed = s.swapFailed /\ r.nextUnblock = s.nextUnblock
  /\ r.waiting = [s.waiting EXCEPT ![e] = Tail(s.waiting[e])]

(* One pass of its loop.                                                   *)
LEMMA WakeNextSound ==
  ASSUME NEW s, Sound(s, Task), s.suspended # 0,
         NEW e \in EventLists, s.waiting[e] # << >>
  PROVE  Wakes1(s, WakeNext(s, e), e)
<1> DEFINE q == RemoveFromEventList(s, e)
           r == WakeNext(s, e)
           yield == q.missedYield \/ UnblocksHigher(s, e)
<1>1. Sound(q, Task) /\ Pends(s, q, e)
  BY EventPends
<1>2. yield \in BOOLEAN
  BY Zenon
<1>3. r = [q EXCEPT !.missedYield = yield]
  BY DEF WakeNext
<1> HIDE DEF q, r, yield
<1>4. q = [f \in Parts |-> q[f]] /\ Typed(q)
  BY <1>1 DEF Sound, Typed, IsRecord
<1>5. /\ IsRecord(r) /\ SameLists(q, r) /\ r.missedYield = yield
      /\ r.current = q.current /\ r.suspended = q.suspended /\ r.tick = q.tick
      /\ r.missedTicks = q.missedTicks /\ r.overflows = q.overflows
      /\ r.swapFailed = q.swapFailed /\ r.nextUnblock = q.nextUnblock
  BY <1>3, <1>4 DEF Parts, IsRecord, SameLists
<1>6. Typed(r)
  BY <1>2, <1>4, <1>5 DEF Typed, SameLists
<1>7. Sound(r, Task)
  BY <1>1, <1>5, <1>6, SameListsSound
<1> QED BY <1>1, <1>5, <1>7 DEF Wakes1, Pends, Still, SameLists, SameHomes, r


(* prvUnlockQueue: as many waiters as handlers were there, or all.         *)
Unlocks(s, r, e, n) ==
  /\ Steady(r, Task) /\ SameHomes(s, r)
  /\ r.current = s.current /\ r.suspended = s.suspended /\ r.tick = s.tick
  /\ r.overflows = s.overflows /\ r.missedTicks = s.missedTicks
  /\ \A f \in EventLists : f # e => r.waiting[f] = s.waiting[f]
  /\ \E D \in SUBSET ToSet(s.waiting[e]) :
       /\ ToSet(r.waiting[e]) = ToSet(s.waiting[e]) \ D
       /\ r.waiting[e] = << >> \/ Cardinality(D) = n

(* The first n of a list without repetitions are n.                        *)
LEMMA FirstOf ==
  ASSUME NEW d \in TaskList, IsInjective(d), NEW n \in 0..Len(d)
  PROVE  Cardinality({d[j] : j \in 1..n}) = n
<1> DEFINE D == {d[j] : j \in 1..n}
           f == [j \in 1..n |-> d[j]]
<1>1. n \in Nat /\ \A i, j \in 1..n : d[i] = d[j] => i = j
  BY ListIs
<1>2. f \in [1..n -> D] /\ \A t \in D : \E j \in 1..n : f[j] = t
  OBVIOUS
<1>3. f \in Surjection(1..n, D)
  BY <1>2 DEF Surjection
<1>4. f \in Injection(1..n, D)
  BY <1>1, <1>2 DEF Injection, IsInjective
<1>5. IsFiniteSet(1..n) /\ Cardinality(1..n) = n
  BY <1>1, FS_Interval
<1> HIDE DEF D, f
<1>6. Cardinality(D) = n
  BY <1>3, <1>4, <1>5, FS_Surjection
<1> QED BY <1>6 DEF D

(* Its whole loop.                                                         *)
LEMMA UnlockListSteady ==
  ASSUME NEW s \in States, Steady(s, Task), s.suspended # 0,
         NEW e \in EventLists, NEW n \in Nat
  PROVE  Unlocks(s, UnlockList(s, e, n), e, n)
<1> DEFINE d == s.waiting[e]
           m == IF n < Len(d) THEN n ELSE Len(d)
           Done(i) == {d[j] : j \in 1..i}
           Good(u, i) == /\ Sound(u, Task) /\ SameHomes(s, u)
                         /\ u.current = s.current /\ u.suspended = s.suspended /\ u.tick = s.tick
                         /\ u.overflows = s.overflows /\ u.swapFailed = s.swapFailed
                         /\ u.nextUnblock = s.nextUnblock /\ u.missedTicks = s.missedTicks
                         /\ \A f \in EventLists : f # e => u.waiting[f] = s.waiting[f]
                         /\ ToSet(u.waiting[e]) = ToSet(d) \ Done(i)
                         /\ Len(u.waiting[e]) = Len(d) - i
                         /\ \A j \in 1..Len(d) - i : u.waiting[e][j] = d[i + j]
           S == [i \in 0..m |-> {u \in States : Good(u, i)}]
           f == [u \in States |-> WakeNext(u, e)]
           Loop(h) == h = [i \in 0..m |-> IF i = 0 THEN s ELSE WakeNext(h[i - 1], e)]
           after == CHOOSE h : Loop(h)
<1>1. d \in TaskList /\ Len(d) \in Nat /\ IsInjective(d) /\ m \in 0..Len(d) /\ m \in Nat
  <2>1. d \in TaskList /\ IsInjective(d)
    BY DEF Steady, Settled, Sound, Typed, Events
  <2> QED BY <2>1, ListIs
<1>2. s \in S[0]
  <2>1. Done(0) = {}
    OBVIOUS
  <2>2. Len(d) = Len(d) - 0 /\ \A j \in 1..Len(d) - 0 : d[j] = d[0 + j]
    BY <1>1
  <2> HIDE DEF Done
  <2>3. SameHomes(s, s) /\ Sound(s, Task)
    BY DEF SameHomes, Steady, Settled
  <2>4. Good(s, 0)
    BY <2>1, <2>2, <2>3
  <2> HIDE DEF Good
  <2>5. 0 \in 0..m
    BY <1>1
  <2> QED BY <2>4, <2>5
<1>3. ASSUME NEW i \in 1..m, NEW u \in S[i - 1] PROVE WakeNext(u, e) \in S[i]
  <2> DEFINE r == WakeNext(u, e)
  <2>1. i - 1 \in 0..m /\ i \in 0..m /\ i - 1 \in Nat /\ i <= Len(d)
    BY <1>1
  <2>2. Good(u, i - 1)
    BY <2>1
  <2>3. u.waiting \in [EventLists -> TaskList] /\ u.waiting[e] \in TaskList /\ IsInjective(u.waiting[e])
    BY <2>2 DEF Sound, Typed, Events
  <2>4. Len(u.waiting[e]) = Len(d) - (i - 1) /\ u.waiting[e] # << >>
    <3>1. Len(u.waiting[e]) = Len(d) - (i - 1) /\ Len(u.waiting[e]) # 0
      BY <1>1, <2>1, <2>2
    <3> QED BY <2>3, <3>1, ListIs
  <2>5. Wakes1(u, r, e)
    BY <2>2, <2>4, WakeNextSound
  <2>6. Head(u.waiting[e]) = d[i]
    <3>1. u.waiting[e][1] = d[(i - 1) + 1]
      BY <1>1, <2>1, <2>2
    <3>2. (i - 1) + 1 = i
      OBVIOUS
    <3> QED BY <2>3, <2>4, <3>1, <3>2, TailList
  <2> HIDE DEF r, S, f, Loop, after
  <2>7. r.waiting[e] = Tail(u.waiting[e]) /\ \A g \in EventLists : g # e => r.waiting[g] = s.waiting[g]
    BY <2>2, <2>3, <2>5 DEF Wakes1
  <2>8. ToSet(r.waiting[e]) = ToSet(d) \ Done(i)
    <3>1. Done(i) = Done(i - 1) \cup {d[i]}
      <4>1. \A x : (\E j \in 1..i : x = d[j]) <=> (\E j \in 1..i - 1 : x = d[j]) \/ x = d[i]
        BY <2>1
      <4> QED BY <4>1
    <3>2. ToSet(Tail(u.waiting[e])) = ToSet(u.waiting[e]) \ {d[i]}
      BY <2>3, <2>4, <2>6, TailList
    <3>3. ToSet(u.waiting[e]) = ToSet(d) \ Done(i - 1)
      BY <2>2
    <3> HIDE DEF Done
    <3> QED BY <2>7, <3>1, <3>2, <3>3
  <2>9. Len(r.waiting[e]) = Len(d) - i /\ \A j \in 1..Len(d) - i : r.waiting[e][j] = d[i + j]
    <3>1. /\ Len(r.waiting[e]) = Len(u.waiting[e]) - 1
          /\ \A j \in 1..Len(u.waiting[e]) - 1 : r.waiting[e][j] = u.waiting[e][j + 1]
      BY <2>3, <2>4, <2>7, TailList
    <3>2. \A j \in 1..Len(d) - (i - 1) : u.waiting[e][j] = d[(i - 1) + j]
      BY <2>2
    <3>3. ASSUME NEW j \in 1..Len(d) - i PROVE r.waiting[e][j] = d[i + j]
      <4>1. /\ j + 1 \in 1..Len(d) - (i - 1) /\ (i - 1) + (j + 1) = i + j
            /\ j \in 1..Len(u.waiting[e]) - 1
        BY <1>1, <2>1, <2>4
      <4> QED BY <3>1, <3>2, <4>1
    <3> QED BY <1>1, <2>1, <2>4, <3>1, <3>3
  <2>10. /\ Sound(r, Task) /\ SameHomes(s, r)
         /\ r.current = s.current /\ r.suspended = s.suspended /\ r.tick = s.tick
         /\ r.overflows = s.overflows /\ r.swapFailed = s.swapFailed
         /\ r.nextUnblock = s.nextUnblock /\ r.missedTicks = s.missedTicks
    BY <2>2, <2>5 DEF Wakes1, SameHomes
  <2>11. r \in States
    BY <2>10, TypedState DEF Sound
  <2>12. Good(r, i)
    BY <2>7, <2>8, <2>9, <2>10
  <2> HIDE DEF Good
  <2> QED BY <2>1, <2>11, <2>12 DEF S, r
<1>4. S \in [0..m -> SUBSET States]
  OBVIOUS
<1>5. UnlockList(s, e, n) = after[m]
  BY DEF UnlockList, Times
<1> HIDE DEF Good, S
<1>6. \A u \in S[m] : Good(u, m)
  BY <1>1 DEF S
<1> HIDE DEF m
<1>7. \A i \in 1..m : \A u \in S[i - 1] : f[u] \in S[i]
  <2> SUFFICES ASSUME NEW i \in 1..m, NEW u \in S[i - 1] PROVE f[u] \in S[i]
    OBVIOUS
  <2>1. u \in States
    BY <1>1, <1>4
  <2>2. f[u] = WakeNext(u, e)
    BY <2>1
  <2>3. WakeNext(u, e) \in S[i]
    BY <1>3
  <2> HIDE DEF f
  <2> QED BY <2>2, <2>3
<1>8. PICK g \in [0..m -> States] : Chained(g, f, m, S, s)
  <2> HIDE DEF f, Loop, after
  <2>1. Leads(f, m, S)
    BY <1>7 DEF Leads
  <2> QED BY <1>1, <1>2, <1>4, <2>1, Passes, Zenon
<1>9. Loop(g)
  <2>1. \A i \in 1..m : g[i] = WakeNext(g[i - 1], e)
    <3> SUFFICES ASSUME NEW i \in 1..m PROVE g[i] = WakeNext(g[i - 1], e)
      OBVIOUS
    <3>1. g[i] = f[g[i - 1]] /\ i - 1 \in 0..m
      BY <1>1, <1>8 DEF Chained
    <3>2. g[i - 1] \in States
      BY <3>1
    <3> HIDE DEF Loop, after
    <3> QED BY <3>1, <3>2, Zenon
  <2> HIDE DEF f
  <2> QED BY <1>1, <1>8, <2>1 DEF Chained
<1>10. Loop(after)
  <2> HIDE DEF Loop
  <2> QED BY <1>9, Zenon
<1> HIDE DEF after
<1>11. after[0] = s /\ \A i \in 1..m : after[i] = WakeNext(after[i - 1], e)
  <2>1. \A i \in 0..m : after[i] = IF i = 0 THEN s ELSE WakeNext(after[i - 1], e)
    BY <1>10, Zenon
  <2> QED BY <1>1, <2>1
<1> HIDE DEF Loop, f
<1>12. after[m] \in S[m]
  <2>1. \A i \in 1..m : after[i - 1] \in S[i - 1] => after[i] \in S[i]
    BY <1>3, <1>11
  <2> QED BY <1>1, <1>2, <1>11, <2>1, Climbs
<1> DEFINE r == UnlockList(s, e, n)
<1>13. Good(r, m)
  BY <1>12, <1>5, <1>6
<1> HIDE DEF r
<1>14. /\ Sound(r, Task) /\ SameHomes(s, r)
       /\ r.current = s.current /\ r.suspended = s.suspended /\ r.tick = s.tick
       /\ r.overflows = s.overflows /\ r.swapFailed = s.swapFailed
       /\ r.nextUnblock = s.nextUnblock /\ r.missedTicks = s.missedTicks
       /\ \A h \in EventLists : h # e => r.waiting[h] = s.waiting[h]
       /\ ToSet(r.waiting[e]) = ToSet(d) \ Done(m) /\ Len(r.waiting[e]) = Len(d) - m
  BY <1>13 DEF Good
<1>15. Steady(r, Task)
  BY <1>14, SuspendedSteady
<1>16. Done(m) \in SUBSET ToSet(d) /\ Cardinality(Done(m)) = m
  BY <1>1, ListIs, FirstOf
<1>17. r.waiting[e] = << >> \/ m = n
  <2>1. r.waiting[e] \in TaskList
    BY <1>14 DEF Sound, Typed
  <2>2. m = n \/ Len(r.waiting[e]) = 0
    BY <1>1, <1>14 DEF m
  <2> QED BY <2>1, <2>2, ListIs
<1> HIDE DEF Done
<1> QED BY <1>14, <1>15, <1>16, <1>17 DEF Unlocks, r


-----------------------------------------------------------------------------
(* The steps of a call during which the scheduler is suspended.            *)
Locking == {"lock", "checkTime", "checkStuck", "place",
            "unlockTxToFail", "unlockRxToFail", "resumeToFail",
            "unlockTxToRetry", "unlockRxToRetry", "resumeToRetry",
            "unlockTxToBlock", "unlockRxToBlock", "resumeToBlock"}
(* The caller is about to wait, or has just put itself into the lists.     *)
Waiting == {"suspend", "lock", "checkTime", "checkStuck", "place"}
Placed == {"unlockTxToBlock", "unlockRxToBlock", "resumeToBlock", "yield"}

(* The scheduler is suspended by the task that runs, and by it alone; the  *)
(* task that runs is ready unless it has just put itself to sleep.         *)
Suspender(s, p) ==
  /\ s.suspended \in {0, 1}
  /\ \A t \in Workers : p[t] \in Locking => s.suspended = 1 /\ s.current = t
  /\ s.suspended = 1 => s.current \in Workers /\ p[s.current] \in Locking
Awake(s, p) == IsRunnable(s, s.current) \/ (s.current \in Workers /\ p[s.current] \in Placed)

Controlled(s, p) ==
  /\ Steady(s, Task) /\ s.priority = BasePriority
  /\ Suspender(s, p) /\ Awake(s, p)
Control == Controlled(k, pc)

(* A caller that goes to wait has ticks left, counted from its stamp.      *)
Stamps == [overflows : 0..OverflowRange - 1, tick : 0..MaxDelay]
TicksLeft ==
  /\ stamp \in [Workers -> Stamps \cup {Nothing}]
  /\ \A t \in Workers :
       /\ call[t].ticks \in 0..MaxDelay
       /\ pc[t] \in Waiting => stamp[t] # Nothing /\ call[t].ticks > 0

(* From lockQueue to its end of prvUnlockQueue each lock counts.           *)
TxHeld == {"checkTime", "checkStuck", "place", "unlockTxToFail", "unlockTxToRetry",
           "unlockTxToBlock"}
RxHeld == TxHeld \cup {"unlockRxToFail", "unlockRxToRetry", "unlockRxToBlock"}
Held ==
  \A t \in Workers : /\ pc[t] \in TxHeld => txLock \in Nat
                     /\ pc[t] \in RxHeld => rxLock \in Nat

SInv == IInv /\ Control /\ TicksLeft /\ Held

(* What a task knows at its step.                                          *)
LEMMA AtStep ==
  ASSUME Control, NEW t \in Workers, NEW step, At(t, step)
  PROVE  /\ step \in Locking => k.suspended = 1
         /\ step \notin Locking => k.suspended = 0
         /\ step \notin Placed => IsRunnable(k, t)
         /\ k.current = t /\ t \in Task /\ t # Idle
<1>1. k.current = t /\ pc[t] = step /\ t \in Task /\ t # Idle
  BY DEF At, Running, Workers
<1>2. Suspender(k, pc) /\ Awake(k, pc)
  BY DEF Control, Controlled
<1> QED BY <1>1, <1>2 DEF Suspender, Awake

(* A step that only moves the task on.                                     *)
LEMMA MovesOn ==
  ASSUME Control, Calls, NEW t \in Workers, NEW from, At(t, from), NEW to,
         from \notin Placed, from \in Locking <=> to \in Locking,
         Goto(t, to), UNCHANGED k
  PROVE  Control'
<1>1. /\ k.current = t /\ IsRunnable(k, t) /\ pc[t] = from
      /\ pc' = [pc EXCEPT ![t] = to] /\ pc \in [Workers -> Steps]
  BY AtStep DEF At, Goto, Calls
<1>2. Steady(k, Task) /\ k.priority = BasePriority /\ Suspender(k, pc)
  BY DEF Control, Controlled
<1>3. \A u \in Workers : pc'[u] = IF u = t THEN to ELSE pc[u]
  BY <1>1
<1>4. Suspender(k, pc')
  BY <1>1, <1>2, <1>3 DEF Suspender
<1>5. Awake(k, pc')
  BY <1>1 DEF Awake
<1> QED BY <1>2, <1>4, <1>5 DEF Control, Controlled

(* The end of a call that woke a waiter.                                   *)
LEMMA WakesOn ==
  ASSUME QueueAssumption, Control, Calls, NEW t \in Workers, NEW e \in EventLists,
         At(t, "try"), Goto(t, "idle"), k' = WakeOne(k, e)
  PROVE  Control'
<1>1. /\ k.current = t /\ IsRunnable(k, t) /\ k.suspended = 0 /\ t \in Task
      /\ pc' = [pc EXCEPT ![t] = "idle"] /\ pc \in [Workers -> Steps] /\ pc[t] = "try"
  BY AtStep DEF At, Goto, Calls, Locking, Placed
<1>2. Steady(k, Task) /\ k.priority = BasePriority /\ Suspender(k, pc)
  BY DEF Control, Controlled
<1>3. WakesFirst(k, k', e, Task) /\ Steady(k', Task)
  BY <1>2, WakeOneSteady DEF QueueAssumption
<1>4. /\ Steady(k', Task) /\ k'.suspended = 0 /\ k'.priority = BasePriority
      /\ IsRunnable(k', k'.current)
  BY <1>1, <1>2, <1>3 DEF WakesFirst
<1>5. \A u \in Workers : pc'[u] = IF u = t THEN "idle" ELSE pc[u]
  BY <1>1
<1>6. Suspender(k', pc')
  BY <1>1, <1>2, <1>4, <1>5 DEF Suspender, Locking
<1>7. Awake(k', pc')
  BY <1>4 DEF Awake
<1> QED BY <1>4, <1>6, <1>7 DEF Control, Controlled

(* A handler that woke a waiter, whoever was interrupted.                  *)
LEMMA HandlerWakes ==
  ASSUME QueueAssumption, Control, NEW e \in EventLists, UNCHANGED pc, k' = WakeOne(k, e)
  PROVE  Control'
<1>1. /\ Steady(k, Task) /\ k.priority = BasePriority /\ Suspender(k, pc) /\ Awake(k, pc)
  BY DEF Control, Controlled
<1>2. k.current \in Task
  BY <1>1 DEF Steady, Settled, Sound, Typed
<1>3. WakesFirst(k, k', e, Task) /\ Steady(k', Task)
  BY <1>1, WakeOneSteady DEF QueueAssumption
<1>4. /\ Steady(k', Task) /\ k'.suspended = k.suspended /\ k'.priority = BasePriority
      /\ \/ k'.current = k.current /\ (IsRunnable(k, k.current) => IsRunnable(k', k.current))
         \/ IsRunnable(k', k'.current) /\ k.suspended = 0
  BY <1>1, <1>2, <1>3 DEF WakesFirst
<1>5. Suspender(k', pc)
  BY <1>1, <1>4 DEF Suspender
<1>6. Awake(k', pc)
  BY <1>1, <1>4 DEF Awake
<1> QED BY <1>4, <1>5, <1>6 DEF Control, Controlled

(* The timer, whoever was interrupted.                                     *)
LEMMA TimerControl ==
  ASSUME QueueAssumption, Control, Timer
  PROVE  Control'
<1>1. /\ Steady(k, Task) /\ k.priority = BasePriority /\ Suspender(k, pc) /\ Awake(k, pc)
      /\ k' = TimerIsr(k) /\ pc' = pc
  BY DEF Control, Controlled, Timer
<1>2. Strikes(k, k', Task) /\ Steady(k', Task)
  BY <1>1, TimerIsrSteady DEF QueueAssumption
<1>3. /\ Steady(k', Task) /\ k'.suspended = k.suspended /\ k'.priority = k.priority
      /\ \/ IsRunnable(k', k'.current) /\ k.suspended = 0
         \/ k'.current = k.current /\ k'.ready = k.ready
  BY <1>2 DEF Strikes, SameLists, Woken
<1>4. Suspender(k', pc)
  BY <1>1, <1>3 DEF Suspender
<1>5. Awake(k', pc)
  BY <1>1, <1>3 DEF Awake, IsRunnable
<1> QED BY <1>1, <1>3, <1>4, <1>5 DEF Control, Controlled


(* vTaskSuspendAll.                                                        *)
LEMMA SuspendControl ==
  ASSUME Control, Calls, NEW t \in Workers, Suspend(t)
  PROVE  Control'
<1>1. /\ k.current = t /\ IsRunnable(k, t) /\ k.suspended = 0
      /\ pc' = [pc EXCEPT ![t] = "lock"] /\ pc \in [Workers -> Steps]
      /\ k' = SuspendAll(k)
  BY AtStep DEF Suspend, Goto, Calls, Locking, Placed
<1>2. Steady(k, Task) /\ k.priority = BasePriority /\ Suspender(k, pc)
  BY DEF Control, Controlled
<1>3. /\ Steady(k', Task) /\ SameLists(k, k') /\ k'.suspended = k.suspended + 1
      /\ k'.current = k.current
  BY <1>1, <1>2, SuspendAllSteady
<1>4. k'.suspended = 1 /\ k'.priority = BasePriority /\ k'.ready = k.ready
  BY <1>1, <1>2, <1>3 DEF SameLists
<1>5. \A u \in Workers : pc'[u] = IF u = t THEN "lock" ELSE pc[u]
  BY <1>1
<1>6. Suspender(k', pc')
  BY <1>1, <1>2, <1>3, <1>4, <1>5 DEF Suspender, Locking
<1>7. Awake(k', pc')
  BY <1>1, <1>2, <1>3, <1>4 DEF Awake, IsRunnable
<1> QED BY <1>3, <1>4, <1>6, <1>7 DEF Control, Controlled

(* vTaskPlaceOnEventList.                                                  *)
LEMMA PlaceControl ==
  ASSUME QueueAssumption, Control, Calls, TicksLeft, NEW t \in Workers, Place(t)
  PROVE  /\ Control'
         /\ Places(k, k', EventList(call[t].op), call[t].ticks)
<1> DEFINE e == EventList(call[t].op)
           n == call[t].ticks
<1>1. /\ k.current = t /\ IsRunnable(k, t) /\ k.suspended = 1 /\ t \in Task /\ t # Idle
      /\ pc' = [pc EXCEPT ![t] = "unlockTxToBlock"] /\ pc \in [Workers -> Steps]
      /\ k' = PlaceOnEventList(k, e, n) /\ pc[t] = "place"
  BY AtStep DEF Place, Goto, Calls, Locking, Placed, At
<1>2. Steady(k, Task) /\ k.priority = BasePriority /\ Suspender(k, pc)
  BY DEF Control, Controlled
<1>3. n \in 1..MaxDelay /\ e \in EventLists
  <2>1. n \in 0..MaxDelay /\ n > 0
    BY <1>1 DEF TicksLeft, Waiting
  <2>2. e \in EventLists
    BY DEF EventList, QueueAssumption
  <2> QED BY <2>1, <2>2
<1> HIDE DEF n, e
<1>4. Steady(k', Task) /\ Places(k, k', e, n)
  BY <1>1, <1>2, <1>3, PlaceOnEventListSteady DEF QueueAssumption
<1>5. k'.current = t /\ k'.suspended = 1 /\ k'.priority = BasePriority
  BY <1>1, <1>2, <1>4 DEF Places, Still
<1>6. \A u \in Workers : pc'[u] = IF u = t THEN "unlockTxToBlock" ELSE pc[u]
  BY <1>1
<1>7. Suspender(k', pc')
  BY <1>1, <1>2, <1>5, <1>6 DEF Suspender, Locking
<1>8. Awake(k', pc')
  BY <1>5, <1>6 DEF Awake, Placed
<1> QED BY <1>4, <1>5, <1>7, <1>8 DEF Control, Controlled, e, n

(* prvUnlockQueue, of either list.                                         *)
LEMMA UnlockControl ==
  ASSUME Control, Calls, NEW t \in Workers, NEW from \in Locking, At(t, from),
         NEW to \in Locking, from \in Placed <=> to \in Placed, Goto(t, to),
         NEW e \in EventLists, NEW n \in Nat, k' = UnlockList(k, e, n)
  PROVE  Control' /\ Unlocks(k, k', e, n)
<1>1. /\ k.current = t /\ k.suspended = 1 /\ pc[t] = from
      /\ pc' = [pc EXCEPT ![t] = to] /\ pc \in [Workers -> Steps]
  BY AtStep DEF At, Goto, Calls
<1>2. Steady(k, Task) /\ k.priority = BasePriority /\ Suspender(k, pc) /\ Awake(k, pc)
  BY DEF Control, Controlled
<1>3. k \in States
  BY <1>2, TypedState DEF Steady, Settled, Sound
<1>4. Unlocks(k, k', e, n)
  BY <1>1, <1>2, <1>3, UnlockListSteady
<1>5. /\ Steady(k', Task) /\ k'.current = t /\ k'.suspended = 1 /\ k'.priority = BasePriority
      /\ k'.ready = k.ready
  BY <1>1, <1>2, <1>4 DEF Unlocks, SameHomes
<1>6. \A u \in Workers : pc'[u] = IF u = t THEN to ELSE pc[u]
  BY <1>1
<1>7. Suspender(k', pc')
  BY <1>1, <1>2, <1>5, <1>6 DEF Suspender
<1>8. Awake(k', pc')
  BY <1>1, <1>2, <1>5, <1>6 DEF Awake, IsRunnable
<1> QED BY <1>4, <1>5, <1>7, <1>8 DEF Control, Controlled

(* xTaskResumeAll: the caller goes on, unless another task was chosen.     *)
LEMMA ResumeControl ==
  ASSUME QueueAssumption, Control, Calls, NEW t \in Workers, NEW from \in Locking, At(t, from),
         NEW to \in Steps \ Locking, Goto(t, to), k' = ResumeAll(k),
         from \in Placed => AlreadyYielded(k) \/ to \in Placed
  PROVE  /\ Control'
         /\ \E D \in SUBSET Blocked(k) : Woken(k, k', D)
<1>1. /\ k.current = t /\ k.suspended = 1 /\ pc[t] = from /\ t \in Task
      /\ from \notin Placed => IsRunnable(k, t)
      /\ pc' = [pc EXCEPT ![t] = to] /\ pc \in [Workers -> Steps]
  BY AtStep DEF At, Goto, Calls
<1>2. Steady(k, Task) /\ k.priority = BasePriority /\ Suspender(k, pc) /\ Awake(k, pc)
  BY DEF Control, Controlled
<1>3. Resumes(k, k', Task) /\ Steady(k', Task)
  BY <1>1, <1>2, ResumeAllSteady DEF QueueAssumption
<1>4. PICK D \in SUBSET Blocked(k) : Woken(k, k', D)
  BY <1>3 DEF Resumes
<1>5. Steady(k', Task) /\ k'.suspended = 0 /\ k'.priority = BasePriority
  BY <1>2, <1>3, <1>4 DEF Resumes, Woken
<1>6. \A u \in Workers : pc'[u] = IF u = t THEN to ELSE pc[u]
  BY <1>1
<1>7. Suspender(k', pc')
  BY <1>1, <1>2, <1>5, <1>6 DEF Suspender
<1>8. Awake(k', pc')
  <2>1. CASE AlreadyYielded(k)
    BY <1>3, <2>1 DEF Resumes, Awake
  <2>2. CASE ~AlreadyYielded(k)
    <3>1. k'.current = t
      BY <1>1, <1>3, <2>2 DEF Resumes
    <3>2. CASE from \in Placed
      BY <1>6, <2>2, <3>1, <3>2 DEF Awake
    <3>3. CASE from \notin Placed
      <4>1. Typed(k)
        BY <1>2 DEF Steady, Settled, Sound
      <4>2. IsRunnable(k', t)
        BY <1>1, <1>4, <3>3, <4>1, RunnableStays
      <4> QED BY <3>1, <4>2 DEF Awake
    <3> QED BY <3>2, <3>3
  <2> QED BY <2>1, <2>2
<1> QED BY <1>4, <1>5, <1>7, <1>8 DEF Control, Controlled

(* The caller yields, and is chosen again if it has been woken.            *)
LEMMA YieldControl ==
  ASSUME QueueAssumption, Control, Calls, NEW t \in Workers, Yield(t)
  PROVE  Control' /\ Woken(k, k', {})
<1>1. /\ k.current = t /\ k.suspended = 0
      /\ pc' = [pc EXCEPT ![t] = "try"] /\ pc \in [Workers -> Steps] /\ pc[t] = "yield"
      /\ k' = SwitchContext(k)
  BY AtStep DEF Yield, At, Goto, Calls, Locking
<1>2. Steady(k, Task) /\ k.priority = BasePriority /\ Suspender(k, pc)
  BY DEF Control, Controlled
<1>3. /\ Steady(k', Task) /\ Woken(k, k', {}) /\ k'.suspended = 0
      /\ IsRunnable(k', k'.current)
  BY <1>1, <1>2, SwitchSteady DEF Steady, Settled, QueueAssumption
<1>4. k'.priority = BasePriority
  BY <1>2, <1>3 DEF Woken
<1>5. \A u \in Workers : pc'[u] = IF u = t THEN "try" ELSE pc[u]
  BY <1>1
<1>6. Suspender(k', pc')
  BY <1>1, <1>2, <1>3, <1>5 DEF Suspender, Locking
<1>7. Awake(k', pc')
  BY <1>3 DEF Awake
<1> QED BY <1>3, <1>4, <1>6, <1>7 DEF Control, Controlled

(* The first task runs, and no call is under way.                          *)
LEMMA InitControl == ASSUME QueueAssumption, Init PROVE Control /\ TicksLeft /\ Held
<1>1. /\ \E lists \in ReadyLists : k = Started(lists)
      /\ pc = [t \in Workers |-> "idle"] /\ call = [t \in Workers |-> NoCall]
      /\ stamp = [t \in Workers |-> Nothing]
  BY DEF Init
<1>2. PICK lists \in ReadyLists : k = Started(lists)
  BY <1>1
<1>3. Starts(k)
  BY <1>2, StartedSteady DEF QueueAssumption
<1>4. Control
  BY <1>1, <1>3 DEF Starts, Control, Controlled, Suspender, Awake, Locking
<1>5. 0 \in 0..MaxDelay
  BY DEF QueueAssumption, TickAssumption, MaxDelay
<1>6. TicksLeft
  BY <1>1, <1>5 DEF TicksLeft, NoCall, Waiting
<1>7. Held
  BY <1>1 DEF Held, TxHeld, RxHeld
<1> QED BY <1>4, <1>6, <1>7

-----------------------------------------------------------------------------
(* A stamp of a steady scheduler.                                          *)
LEMMA StampOf ==
  ASSUME QueueAssumption, Control
  PROVE  SetTimeOutState(k) \in Stamps /\ SetTimeOutState(k) # Nothing
<1>1. k.tick \in 0..MaxDelay /\ k.overflows \in 0..OverflowRange - 1
  BY DEF Control, Controlled, Steady, Settled, Sound, Typed
<1>2. SetTimeOutState(k) \in Stamps
  BY <1>1 DEF SetTimeOutState, Stamps
<1> QED BY <1>2 DEF QueueAssumption, Stamps

(* Steps that leave the ticks and the stamps alone.                        *)
LEMMA TicksOn ==
  ASSUME TicksLeft, Calls, NEW t \in Workers, NEW to, Goto(t, to),
         to \in Waiting => pc[t] \in Waiting, UNCHANGED <<call, stamp>>
  PROVE  TicksLeft'
  BY DEF TicksLeft, Goto, Calls

(* A return.                                                               *)
LEMMA TicksReturn ==
  ASSUME QueueAssumption, TicksLeft, Calls, NEW t \in Workers, Return(t)
  PROVE  TicksLeft'
<1>1. 0 \in 0..MaxDelay
  BY DEF QueueAssumption, TickAssumption, MaxDelay
<1>2. \A u \in Workers : /\ pc'[u] = IF u = t THEN "idle" ELSE pc[u]
                         /\ call'[u] = IF u = t THEN NoCall ELSE call[u]
  BY DEF Return, Goto, Calls
<1>4. stamp' = [stamp EXCEPT ![t] = Nothing]
  BY DEF Return
<1>3. NoCall.ticks = 0
  BY DEF NoCall
<1> QED BY <1>1, <1>2, <1>3, <1>4 DEF TicksLeft, Waiting

(* A new call.                                                             *)
LEMMA TicksCall ==
  ASSUME QueueAssumption, TicksLeft, Calls, NEW t \in Workers, Call(t)
  PROVE  TicksLeft'
<1>1. PICK op \in Programs[t], d \in Items, w \in Waits :
        call' = [call EXCEPT ![t] =
                  [op |-> op, item |-> IF op \in Sending THEN d ELSE Nothing,
                   ticks |-> w, asked |-> w]]
  BY DEF Call
<1>2. w \in 0..MaxDelay
  BY DEF QueueAssumption
<1>3. \A u \in Workers : /\ pc'[u] = IF u = t THEN "try" ELSE pc[u]
                         /\ call'[u].ticks = IF u = t THEN w ELSE call[u].ticks
  BY <1>1 DEF Call, Goto, Calls
<1>4. stamp' = [stamp EXCEPT ![t] = Nothing]
  BY DEF Call
<1> QED BY <1>2, <1>3, <1>4 DEF TicksLeft, Waiting

(* The time-out is set once, when the call first has to wait.              *)
LEMMA TicksPrepare ==
  ASSUME QueueAssumption, Control, TicksLeft, Calls, NEW t \in Workers, PrepareToWait(t)
  PROVE  TicksLeft'
<1>1. SetTimeOutState(k) \in Stamps /\ SetTimeOutState(k) # Nothing
  BY StampOf
<1>2. /\ stamp' = [stamp EXCEPT ![t] = IF @ = Nothing THEN SetTimeOutState(k) ELSE @]
      /\ pc' = [pc EXCEPT ![t] = "suspend"] /\ call' = call /\ call[t].ticks > 0
  BY DEF PrepareToWait, Goto
<1> QED BY <1>1, <1>2 DEF TicksLeft, Calls

(* xTaskCheckForTimeOut leaves at least one tick, or fails the call.       *)
LEMMA TicksCheck ==
  ASSUME QueueAssumption, Control, TicksLeft, Calls, NEW t \in Workers, CheckForTimeOut(t)
  PROVE  TicksLeft'
<1>1. CASE TimedOut(k, stamp[t], call[t].ticks)
  BY <1>1 DEF CheckForTimeOut, TicksLeft, Goto, Calls, Waiting
<1>2. CASE ~TimedOut(k, stamp[t], call[t].ticks)
  <2> DEFINE n == ElapsedSince(k, stamp[t])
  <2>1. stamp[t] \in Stamps /\ call[t].ticks \in 0..MaxDelay
    BY DEF CheckForTimeOut, At, TicksLeft, Waiting
  <2>2. k.tick \in 0..MaxDelay /\ stamp[t].tick \in 0..MaxDelay
    BY <2>1 DEF Control, Controlled, Steady, Settled, Sound, Typed, Stamps
  <2>3. n \in Nat
    <3>1. k.tick \in Int /\ stamp[t].tick \in Int /\ TickRange \in Nat \ {0}
      BY <2>2 DEF QueueAssumption, TickAssumption
    <3> QED BY <3>1 DEF ElapsedSince
  <2>4. n < call[t].ticks
    BY <1>2, <2>1, <2>3 DEF TimedOut
  <2> HIDE DEF n
  <2>5. call[t].ticks - n \in 1..MaxDelay
    BY <2>1, <2>3, <2>4 DEF QueueAssumption, TickAssumption, MaxDelay
  <2>6. /\ call' = [call EXCEPT ![t].ticks = @ - n]
        /\ stamp' = [stamp EXCEPT ![t] = SetTimeOutState(k)]
        /\ pc' = [pc EXCEPT ![t] = "checkStuck"]
    BY <1>2 DEF CheckForTimeOut, Goto, n
  <2>7. SetTimeOutState(k) \in Stamps /\ SetTimeOutState(k) # Nothing
    BY StampOf
  <2>8. \A u \in Workers : /\ call'[u].ticks = IF u = t THEN call[t].ticks - n ELSE call[u].ticks
                           /\ pc'[u] = IF u = t THEN "checkStuck" ELSE pc[u]
                           /\ stamp'[u] = IF u = t THEN SetTimeOutState(k) ELSE stamp[u]
    BY <2>6 DEF Calls, CallOf, TicksLeft
  <2>9. stamp' \in [Workers -> Stamps \cup {Nothing}]
    BY <2>6, <2>7 DEF TicksLeft
  <2>10. \A u \in Workers :
           /\ call'[u].ticks \in 0..MaxDelay
           /\ pc'[u] \in Waiting => stamp'[u] # Nothing /\ call'[u].ticks > 0
    BY <2>5, <2>7, <2>8 DEF TicksLeft
  <2> QED BY <2>9, <2>10 DEF TicksLeft
<1> QED BY <1>1, <1>2

(* Steps that leave the locks alone.                                       *)
LEMMA HeldOn ==
  ASSUME Held, Calls, NEW t \in Workers, NEW to, Goto(t, to),
         to \in TxHeld => pc[t] \in TxHeld, to \in RxHeld => pc[t] \in RxHeld,
         UNCHANGED locks
  PROVE  Held'
  BY DEF Held, Goto, Calls, locks

(* No other task is between locking and unlocking.                         *)
LEMMA OnlyOne ==
  ASSUME Control, NEW t \in Workers, k.current = t, NEW u \in Workers, u # t
  PROVE  pc[u] \notin Locking /\ pc[u] \notin RxHeld /\ pc[u] \notin TxHeld
<1>1. pc[u] \notin Locking
  BY DEF Control, Controlled, Suspender
<1>2. RxHeld \subseteq Locking /\ TxHeld \subseteq Locking
  BY DEF RxHeld, TxHeld, Locking
<1> QED BY <1>1, <1>2

(* Unlocking the second list, or both.                                     *)
LEMMA HeldAlone ==
  ASSUME Control, Calls, NEW t \in Workers, k.current = t, NEW to, Goto(t, to),
         to \in TxHeld => txLock' \in Nat, to \in RxHeld => rxLock' \in Nat
  PROVE  Held'
<1>1. \A u \in Workers : pc'[u] = IF u = t THEN to ELSE pc[u]
  BY DEF Goto, Calls
<1>2. \A u \in Workers : u # t => pc[u] \notin RxHeld /\ pc[u] \notin TxHeld
  BY OnlyOne
<1> QED BY <1>1, <1>2 DEF Held


-----------------------------------------------------------------------------
(* Each step keeps the scheduler controlled.                               *)
SchedKeeps == Control' /\ TicksLeft' /\ Held'

(* A step of a call that leaves the scheduler alone, before the queue is   *)
(* locked.                                                                 *)
LEMMA TrySched ==
  ASSUME QueueAssumption, SInv, NEW t \in Workers,
         Call(t) \/ GiveUp(t) \/ PrepareToWait(t)
  PROVE  SchedKeeps
<1> USE DEF SInv, IInv
<1>1. CASE Call(t)
  <2>1. Control'
    BY <1>1, MovesOn DEF Call, Locking, Placed
  <2>2. TicksLeft'
    BY <1>1, TicksCall
  <2>3. Held'
    BY <1>1, HeldOn DEF Call, TxHeld, RxHeld
  <2> QED BY <2>1, <2>2, <2>3 DEF SchedKeeps
<1>2. CASE GiveUp(t)
  <2>1. Control'
    BY <1>2, MovesOn DEF GiveUp, Return, Locking, Placed
  <2>2. TicksLeft'
    BY <1>2, TicksReturn DEF GiveUp
  <2>3. Held'
    BY <1>2, HeldOn DEF GiveUp, Return, TxHeld, RxHeld
  <2> QED BY <2>1, <2>2, <2>3 DEF SchedKeeps
<1>3. CASE PrepareToWait(t)
  <2>1. Control'
    BY <1>3, MovesOn DEF PrepareToWait, Locking, Placed
  <2>2. TicksLeft'
    BY <1>3, TicksPrepare
  <2>3. Held'
    BY <1>3, HeldOn DEF PrepareToWait, TxHeld, RxHeld
  <2> QED BY <2>1, <2>2, <2>3 DEF SchedKeeps
<1> QED BY <1>1, <1>2, <1>3

(* The operations themselves, which wake a waiter.                         *)
LEMMA OperateSched ==
  ASSUME QueueAssumption, SInv, NEW t \in Workers, NEW e \in EventLists,
         At(t, "try"), Return(t), k' = WakeOne(k, e), UNCHANGED locks
  PROVE  SchedKeeps
<1>1. Control'
  BY WakesOn DEF Return, SInv, IInv
<1>2. TicksLeft'
  BY TicksReturn DEF SInv, IInv
<1>3. Held'
  BY HeldOn DEF Return, TxHeld, RxHeld, SInv, IInv
<1> QED BY <1>1, <1>2, <1>3 DEF SchedKeeps

(* Waiting, up to the place in the list.                                   *)
LEMMA WaitSched ==
  ASSUME QueueAssumption, SInv, NEW t \in Workers,
         Suspend(t) \/ LockQueue(t) \/ CheckForTimeOut(t) \/ CheckStuck(t) \/ Place(t)
  PROVE  SchedKeeps
<1> USE DEF SInv, IInv
<1>1. CASE Suspend(t)
  <2>1. Control'
    BY <1>1, SuspendControl
  <2>2. TicksLeft'
    BY <1>1, TicksOn DEF Suspend, At, Waiting
  <2>3. Held'
    BY <1>1, HeldOn DEF Suspend, TxHeld, RxHeld
  <2> QED BY <2>1, <2>2, <2>3 DEF SchedKeeps
<1>2. CASE LockQueue(t)
  <2>1. Control'
    BY <1>2, MovesOn DEF LockQueue, Locking, Placed
  <2>2. TicksLeft'
    BY <1>2, TicksOn DEF LockQueue, At, Waiting
  <2>3. txLock' \in Nat /\ rxLock' \in Nat
    <3>1. txLock \in Unlocked..MaxLocked /\ rxLock \in Unlocked..MaxLocked
      BY DEF locks
    <3> QED BY <1>2, <3>1 DEF LockQueue, QueueAssumption, Unlocked
  <2>4. Held'
    BY <1>2, <2>3, HeldAlone DEF LockQueue, At, Running
  <2> QED BY <2>1, <2>2, <2>4 DEF SchedKeeps
<1>3. CASE CheckForTimeOut(t)
  <2>1. At(t, "checkTime") /\ UNCHANGED <<k, locks>>
    BY <1>3 DEF CheckForTimeOut
  <2>2. Goto(t, "checkStuck") \/ Goto(t, "unlockTxToFail")
    BY <1>3 DEF CheckForTimeOut
  <2>3. Control'
    BY <2>1, <2>2, MovesOn DEF Locking, Placed
  <2>4. TicksLeft'
    BY <1>3, TicksCheck
  <2>5. Held'
    BY <2>1, <2>2, HeldOn DEF At, TxHeld, RxHeld
  <2> QED BY <2>3, <2>4, <2>5 DEF SchedKeeps
<1>4. CASE CheckStuck(t)
  <2>1. At(t, "checkStuck") /\ UNCHANGED <<k, locks, call, stamp>>
    BY <1>4 DEF CheckStuck
  <2>2. Goto(t, "place") \/ Goto(t, "unlockTxToRetry")
    BY <1>4 DEF CheckStuck
  <2>3. Control'
    BY <2>1, <2>2, MovesOn DEF Locking, Placed
  <2>4. TicksLeft'
    BY <2>1, <2>2, TicksOn DEF At, Waiting
  <2>5. Held'
    BY <2>1, <2>2, HeldOn DEF At, TxHeld, RxHeld
  <2> QED BY <2>3, <2>4, <2>5 DEF SchedKeeps
<1>5. CASE Place(t)
  <2>1. Control'
    BY <1>5, PlaceControl
  <2>2. TicksLeft'
    BY <1>5, TicksOn DEF Place, Waiting
  <2>3. Held'
    BY <1>5, HeldOn DEF Place, At, TxHeld, RxHeld
  <2> QED BY <2>1, <2>2, <2>3 DEF SchedKeeps
<1> QED BY <1>1, <1>2, <1>3, <1>4, <1>5

(* The lock counts of the queue, when they are handed to prvUnlockQueue.   *)
LEMMA LockCounts ==
  ASSUME Held, NEW t \in Workers
  PROVE  /\ \A way \in Ways : At(t, way.tx) => txLock \in Nat /\ rxLock \in Nat
         /\ \A way \in Ways : At(t, way.rx) => rxLock \in Nat
  BY DEF Ways, Way, At, Held, TxHeld, RxHeld

(* Where the three ways of unlocking lead.                                 *)
LEMMA WaySteps ==
  ASSUME NEW way \in Ways
  PROVE  /\ way.tx \in Locking /\ way.rx \in Locking /\ way.resume \in Locking
         /\ way.tx \in Placed <=> way.rx \in Placed
         /\ way.rx \in Placed <=> way.resume \in Placed
         /\ way.rx \notin Waiting /\ way.resume \notin Waiting
         /\ way.tx \in TxHeld /\ way.rx \notin TxHeld /\ way.rx \in RxHeld
         /\ way.resume \notin RxHeld /\ way.resume \notin TxHeld
  BY DEF Ways, Way, Locking, Placed, Waiting, TxHeld, RxHeld

(* Unlocking keeps what the scheduler needs and wakes as many as are       *)
(* counted.                                                                *)
LEMMA UnlockSched ==
  ASSUME QueueAssumption, SInv, NEW t \in Workers, NEW way \in Ways,
         UnlockTx(t, way) \/ UnlockRx(t, way)
  PROVE  /\ SchedKeeps
         /\ UnlockTx(t, way) => txLock \in Nat /\ Unlocks(k, k', "toReceive", txLock)
         /\ UnlockRx(t, way) => rxLock \in Nat /\ Unlocks(k, k', "toSend", rxLock)
<1> USE DEF SInv, IInv
<1>1. "toReceive" \in EventLists /\ "toSend" \in EventLists
  BY DEF QueueAssumption
<1>2. ASSUME UnlockTx(t, way)
      PROVE  SchedKeeps /\ txLock \in Nat /\ Unlocks(k, k', "toReceive", txLock)
  <2>1. /\ At(t, way.tx) /\ Goto(t, way.rx) /\ k' = UnlockList(k, "toReceive", txLock)
        /\ UNCHANGED <<call, stamp, rxLock>>
    BY <1>2 DEF UnlockTx
  <2>2. txLock \in Nat /\ rxLock \in Nat
    BY <2>1, LockCounts
  <2>3. Control' /\ Unlocks(k, k', "toReceive", txLock)
    BY <1>1, <2>1, <2>2, WaySteps, UnlockControl
  <2>4. TicksLeft'
    BY <2>1, WaySteps, TicksOn
  <2>5. Held'
    BY <2>1, <2>2, WaySteps, HeldAlone DEF At, Running
  <2> QED BY <2>2, <2>3, <2>4, <2>5 DEF SchedKeeps
<1>3. ASSUME UnlockRx(t, way)
      PROVE  SchedKeeps /\ rxLock \in Nat /\ Unlocks(k, k', "toSend", rxLock)
  <2>1. /\ At(t, way.rx) /\ Goto(t, way.resume) /\ k' = UnlockList(k, "toSend", rxLock)
        /\ UNCHANGED <<call, stamp>>
    BY <1>3 DEF UnlockRx
  <2>2. rxLock \in Nat
    BY <2>1, LockCounts
  <2>3. Control' /\ Unlocks(k, k', "toSend", rxLock)
    BY <1>1, <2>1, <2>2, WaySteps, UnlockControl
  <2>4. TicksLeft'
    BY <2>1, WaySteps, TicksOn
  <2>5. Held'
    BY <2>1, WaySteps, HeldAlone DEF At, Running
  <2> QED BY <2>2, <2>3, <2>4, <2>5 DEF SchedKeeps
<1> QED BY <1>2, <1>3


(* The end of the suspension, and the yield of a task that has to wait.    *)
LEMMA ResumeSched ==
  ASSUME QueueAssumption, SInv, NEW t \in Workers,
         ResumeToFail(t) \/ ResumeToRetry(t) \/ ResumeToBlock(t) \/ Yield(t)
  PROVE  /\ SchedKeeps
         /\ \E D \in SUBSET Blocked(k) : Woken(k, k', D)
<1> USE DEF SInv, IInv
<1>1. CASE ResumeToFail(t)
  <2>1. /\ At(t, "resumeToFail") /\ Return(t) /\ Goto(t, "idle") /\ k' = ResumeAll(k)
        /\ UNCHANGED locks
    BY <1>1 DEF ResumeToFail, Return
  <2>2. /\ "resumeToFail" \in Locking /\ "resumeToFail" \notin Placed
        /\ "idle" \in Steps \ Locking /\ "idle" \notin TxHeld /\ "idle" \notin RxHeld
    BY DEF Locking, Placed, Steps, TxHeld, RxHeld
  <2>3. Control' /\ \E D \in SUBSET Blocked(k) : Woken(k, k', D)
    BY <2>1, <2>2, ResumeControl
  <2>4. TicksLeft'
    BY <2>1, TicksReturn
  <2>5. Held'
    BY <2>1, <2>2, HeldOn
  <2> QED BY <2>3, <2>4, <2>5 DEF SchedKeeps
<1>2. CASE ResumeToRetry(t)
  <2>1. /\ At(t, "resumeToRetry") /\ Goto(t, "try") /\ k' = ResumeAll(k)
        /\ UNCHANGED <<locks, call, stamp>>
    BY <1>2 DEF ResumeToRetry
  <2>2. /\ "resumeToRetry" \in Locking /\ "resumeToRetry" \notin Placed
        /\ "try" \in Steps \ Locking /\ "try" \notin TxHeld /\ "try" \notin RxHeld
        /\ "try" \notin Waiting
    BY DEF Locking, Placed, Steps, TxHeld, RxHeld, Waiting
  <2>3. Control' /\ \E D \in SUBSET Blocked(k) : Woken(k, k', D)
    BY <2>1, <2>2, ResumeControl
  <2>4. TicksLeft'
    BY <2>1, <2>2, TicksOn
  <2>5. Held'
    BY <2>1, <2>2, HeldOn
  <2> QED BY <2>3, <2>4, <2>5 DEF SchedKeeps
<1>3. CASE ResumeToBlock(t)
  <2> DEFINE to == IF AlreadyYielded(k) THEN "try" ELSE "yield"
  <2>1. /\ At(t, "resumeToBlock") /\ Goto(t, to) /\ k' = ResumeAll(k)
        /\ UNCHANGED <<locks, call, stamp>>
    BY <1>3 DEF ResumeToBlock
  <2>2. /\ "resumeToBlock" \in Locking
        /\ to \in Steps \ Locking /\ to \notin TxHeld /\ to \notin RxHeld /\ to \notin Waiting
        /\ AlreadyYielded(k) \/ to \in Placed
    BY DEF Locking, Placed, Steps, TxHeld, RxHeld, Waiting
  <2> HIDE DEF to
  <2>3. Control' /\ \E D \in SUBSET Blocked(k) : Woken(k, k', D)
    BY <2>1, <2>2, ResumeControl
  <2>4. TicksLeft'
    BY <2>1, <2>2, TicksOn
  <2>5. Held'
    BY <2>1, <2>2, HeldOn
  <2> QED BY <2>3, <2>4, <2>5 DEF SchedKeeps
<1>4. CASE Yield(t)
  <2>1. Control' /\ Woken(k, k', {})
    BY <1>4, YieldControl
  <2>2. TicksLeft'
    BY <1>4, TicksOn DEF Yield, Waiting
  <2>3. Held'
    BY <1>4, HeldOn DEF Yield, TxHeld, RxHeld
  <2>4. \E D \in SUBSET Blocked(k) : Woken(k, k', D)
    BY <2>1
  <2> QED BY <2>1, <2>2, <2>3, <2>4 DEF SchedKeeps
<1> QED BY <1>1, <1>2, <1>3, <1>4

(* The handlers.                                                           *)
LEMMA HandlerSched ==
  ASSUME QueueAssumption, SInv, (\E d \in Items : IsrSend(d)) \/ IsrReceive
  PROVE  SchedKeeps
<1> USE DEF SInv, IInv
<1>1. "toReceive" \in EventLists /\ "toSend" \in EventLists
  BY DEF QueueAssumption
<1>2. UNCHANGED <<pc, call, stamp>>
  BY DEF IsrSend, IsrReceive
<1>3. \/ k' = k \/ k' = WakeOne(k, "toReceive") \/ k' = WakeOne(k, "toSend")
  BY DEF IsrSend, IsrReceive
<1>4. Control'
  <2>1. k' = k => Control'
    BY <1>2 DEF Control
  <2> QED BY <1>1, <1>2, <1>3, <2>1, HandlerWakes
<1>5. TicksLeft'
  BY <1>2 DEF TicksLeft
<1>6. Held'
  <2>1. (txLock' = txLock \/ (txLock # Unlocked /\ txLock' = txLock + 1))
        /\ (rxLock' = rxLock \/ (rxLock # Unlocked /\ rxLock' = rxLock + 1))
    BY DEF IsrSend, IsrReceive
  <2>2. txLock \in Nat => txLock' \in Nat
    BY <2>1
  <2>3. rxLock \in Nat => rxLock' \in Nat
    BY <2>1
  <2> QED BY <1>2, <2>2, <2>3 DEF Held
<1> QED BY <1>4, <1>5, <1>6 DEF SchedKeeps

(* Every step.                                                             *)
LEMMA NextSched ==
  ASSUME QueueAssumption, SInv, [Next]_vars
  PROVE  SchedKeeps
<1>1. ASSUME NEW t \in Workers, Call(t) \/ TaskStep(t) PROVE SchedKeeps
  <2>1. CASE TrySend(t) \/ TryReceive(t) \/ TryPeek(t)
    <3>1. "toReceive" \in EventLists /\ "toSend" \in EventLists
      BY DEF QueueAssumption
    <3>2. /\ At(t, "try") /\ Return(t) /\ UNCHANGED locks
          /\ k' = WakeOne(k, "toReceive") \/ k' = WakeOne(k, "toSend")
      BY <2>1 DEF TrySend, TryReceive, TryPeek
    <3> QED BY <3>1, <3>2, OperateSched
  <2>2. CASE Call(t) \/ GiveUp(t) \/ PrepareToWait(t)
    BY <2>2, TrySched
  <2>3. CASE Suspend(t) \/ LockQueue(t) \/ CheckForTimeOut(t) \/ CheckStuck(t) \/ Place(t)
    BY <2>3, WaitSched
  <2>4. CASE \E way \in Ways : UnlockTx(t, way) \/ UnlockRx(t, way)
    BY <2>4, UnlockSched
  <2>5. CASE ResumeToFail(t) \/ ResumeToRetry(t) \/ ResumeToBlock(t) \/ Yield(t)
    BY <2>5, ResumeSched
  <2> QED BY <1>1, <2>1, <2>2, <2>3, <2>4, <2>5 DEF TaskStep
<1>2. CASE (\E d \in Items : IsrSend(d)) \/ IsrReceive
  BY <1>2, HandlerSched
<1>3. CASE Timer
  <2>1. Control'
    BY <1>3, TimerControl DEF SInv
  <2>2. UNCHANGED <<pc, call, stamp, locks>>
    BY <1>3 DEF Timer
  <2>3. TicksLeft' /\ Held'
    BY <2>2 DEF TicksLeft, Held, SInv, locks
  <2> QED BY <2>1, <2>3 DEF SchedKeeps
<1>4. CASE UNCHANGED vars
  <2>1. UNCHANGED <<k, pc, call, stamp, txLock, rxLock>>
    BY <1>4 DEF vars, locks
  <2> QED BY <2>1 DEF SchedKeeps, Control, TicksLeft, Held, SInv
<1> QED BY <1>1, <1>2, <1>3, <1>4 DEF Next

(* The invariant holds in every reachable state.                           *)
LEMMA SchedInductive == ASSUME QueueAssumption PROVE Spec => []SInv
<1>1. Init => SInv
  BY InitHolds, InitControl DEF SInv
<1>2. SInv /\ [Next]_vars => SInv'
  <2> SUFFICES ASSUME SInv, [Next]_vars PROVE SInv'
    OBVIOUS
  <2>1. IInv'
    BY NextFollows DEF SInv, Follows
  <2> QED BY <2>1, NextSched DEF SInv, SchedKeeps
<1> QED BY <1>1, <1>2, PTL DEF Spec

(* However operations, time-outs, ticks and handlers interleave, each task *)
(* is in the ready list of its priority or in a delayed list, the lists of *)
(* waiters agree with them, a task of the highest ready priority runs, and *)
(* no list of a turn of the count that ends holds a task: tasks.c.         *)
THEOREM SchedulerIsSound == ASSUME QueueAssumption PROVE Spec => []SchedulerSound
<1>1. SInv => SchedulerSound
  <2> SUFFICES ASSUME SInv PROVE SchedulerSound
    OBVIOUS
  <2>1. Steady(k, Task) /\ k.suspended \in {0, 1}
    BY DEF SInv, Control, Controlled, Suspender
  <2>2. k.pending # << >> => k.suspended > 0
    BY <2>1 DEF Steady, Settled
  <2>3. ListsSound(k, Task)
    BY <2>1, <2>2, SoundLists DEF Steady, Settled
  <2>4. RunsHighest(k) /\ ~k.swapFailed
    BY <2>1 DEF Steady, Settled, Highest, RunsHighest, Timed
  <2> QED BY <2>3, <2>4 DEF SchedulerSound
<1> QED BY <1>1, SchedInductive, PTL


-----------------------------------------------------------------------------
(* No lost wake-up.  A waiter is in the list of its operation, and is on   *)
(* its way there or will try again when it is woken.                       *)
Listed ==
  \A e \in EventLists : \A t \in ToSet(k.waiting[e]) :
    t \in Workers /\ pc[t] \in Placed \cup {"try"} /\ EventList(call[t].op) = e

(* The tasks that are bound to try again.                                  *)
Retrying == {"try", "unlockTxToRetry", "unlockRxToRetry", "resumeToRetry"} \cup Placed
InLists(s) == UNION {ToSet(s.waiting[f]) : f \in EventLists}
Trying(e) ==
  {t \in Workers : EventList(call[t].op) = e /\ pc[t] \in Retrying /\ t \notin InLists(k)}

(* What there is for the tasks in an event list, and what handlers did     *)
(* since the queue was locked.                                             *)
Supply(e) == IF e = "toSend" THEN Capacity - count ELSE count
Lock(e) == IF e = "toSend" THEN rxLock ELSE txLock
Counted(e) == IF Lock(e) = Unlocked THEN 0 ELSE Lock(e)

(* While a task is in a list, there is no more for it than others are      *)
(* about to try for or the unlocking will wake tasks for; and a task goes  *)
(* into a list only when handlers have counted all there is.               *)
Covers(e) ==
  k.waiting[e] # << >> => Supply(e) <= Cardinality(Trying(e)) + Counted(e)
CoversAll == \A e \in EventLists : Covers(e)
CountedBefore ==
  \A t \in Workers :
    pc[t] = "place" => Supply(EventList(call[t].op)) <= Counted(EventList(call[t].op))
Covered == CoversAll /\ CountedBefore

WInv == SInv /\ Listed /\ Covered

(* The tasks that a step takes out of the event lists.                     *)
Loses(r, s, D) == \A f \in EventLists : ToSet(s.waiting[f]) = ToSet(r.waiting[f]) \ D
Arrivals(e, D) == ToSet(k.waiting[e]) \cap D

StillTry(X) == \A u \in Workers \ X : /\ pc[u] \in Retrying => pc'[u] \in Retrying
                                       /\ call'[u].op = call[u].op

(* They are bound to try again, as those that were before.                 *)
LEMMA Gains ==
  ASSUME QueueAssumption, SInv, Listed, NEW X,
         StillTry(X),
         NEW D, Loses(k, k', D), NEW e \in EventLists
  PROVE  (Trying(e) \cup Arrivals(e, D)) \ X \subseteq Trying(e)'
<1> SUFFICES ASSUME NEW u \in (Trying(e) \cup Arrivals(e, D)) \ X PROVE u \in Trying(e)'
  OBVIOUS
<1>1. u \in Workers /\ pc[u] \in Retrying /\ EventList(call[u].op) = e
  BY DEF Trying, Arrivals, Listed, Retrying
<1>2. pc'[u] \in Retrying /\ EventList(call'[u].op) = e
  BY <1>1 DEF StillTry
<1>3. u \notin InLists(k')
  <2>1. CASE u \in Trying(e)
    BY <2>1 DEF Trying, InLists, Loses
  <2>2. CASE u \in Arrivals(e, D)
    BY <2>2 DEF Arrivals, InLists, Loses
  <2> QED BY <2>1, <2>2
<1> QED BY <1>1, <1>2, <1>3 DEF Trying

(* How many there are.                                                     *)
LEMMA TryingCount ==
  ASSUME QueueAssumption, SInv, Listed, NEW e \in EventLists, NEW D
  PROVE  /\ IsFiniteSet(Trying(e)) /\ Cardinality(Trying(e)) \in Nat
         /\ IsFiniteSet(Arrivals(e, D)) /\ Cardinality(Arrivals(e, D)) \in Nat
         /\ IsFiniteSet(Trying(e) \cup Arrivals(e, D))
         /\ Cardinality(Trying(e) \cup Arrivals(e, D))
              = Cardinality(Trying(e)) + Cardinality(Arrivals(e, D))
<1>1. IsFiniteSet(Workers)
  BY FS_Subset DEF QueueAssumption, TaskAssumption, Workers
<1>2. Trying(e) \subseteq Workers /\ Arrivals(e, D) \subseteq Workers
  BY DEF Trying, Arrivals, Listed
<1>3. Trying(e) \cap Arrivals(e, D) = {}
  BY DEF Trying, Arrivals, InLists
<1> HIDE DEF Trying, Arrivals
<1>4. IsFiniteSet(Trying(e)) /\ IsFiniteSet(Arrivals(e, D))
  BY <1>1, <1>2, FS_Subset
<1>5. Cardinality({}) = 0
  BY FS_EmptySet
<1>6. /\ Cardinality(Trying(e)) \in Nat /\ Cardinality(Arrivals(e, D)) \in Nat
  BY <1>4, FS_CardinalityType
<1> DEFINE A == Trying(e)
           B == Arrivals(e, D)
<1> HIDE DEF A, B
<1>7. /\ IsFiniteSet(A \cup B)
      /\ Cardinality(A \cup B) = Cardinality(A) + Cardinality(B) - Cardinality(A \cap B)
  BY <1>4, FS_Union DEF A, B
<1>8. Cardinality(A \cap B) = 0
  BY <1>3, <1>5 DEF A, B
<1>9. Cardinality(A \cup B) = Cardinality(A) + Cardinality(B)
  BY <1>6, <1>7, <1>8 DEF A, B
<1> QED BY <1>4, <1>6, <1>7, <1>9 DEF A, B

(* A step that keeps the others trying.                                    *)
LEMMA GainsAll ==
  ASSUME QueueAssumption, SInv, Listed, NEW X,
         StillTry(X),
         NEW D, Loses(k, k', D), NEW e \in EventLists,
         (Trying(e) \cup Arrivals(e, D)) \cap X = {}
  PROVE  Cardinality(Trying(e)') >= Cardinality(Trying(e)) + Cardinality(Arrivals(e, D))
<1>1. Trying(e) \cup Arrivals(e, D) \subseteq Trying(e)'
  BY Gains
<1>2. IsFiniteSet(Workers)
  BY FS_Subset DEF QueueAssumption, TaskAssumption, Workers
<1>3. Trying(e)' \subseteq Workers
  BY DEF Trying
<1>4. IsFiniteSet(Trying(e)') /\ Cardinality(Trying(e)') \in Nat
  BY <1>2, <1>3, FS_Subset, FS_CardinalityType
<1>5. /\ Cardinality(Trying(e) \cup Arrivals(e, D))
           = Cardinality(Trying(e)) + Cardinality(Arrivals(e, D))
      /\ Cardinality(Trying(e)) \in Nat /\ Cardinality(Arrivals(e, D)) \in Nat
  BY TryingCount
<1>6. Cardinality(Trying(e) \cup Arrivals(e, D)) <= Cardinality(Trying(e)')
  BY <1>1, <1>4, FS_Subset
<1> QED BY <1>4, <1>5, <1>6

(* A step that ends one task's call.                                       *)
LEMMA GainsLess ==
  ASSUME QueueAssumption, SInv, Listed, NEW t,
         StillTry({t}),
         NEW D, Loses(k, k', D), NEW e \in EventLists
  PROVE  Cardinality(Trying(e)') >= Cardinality(Trying(e)) + Cardinality(Arrivals(e, D)) - 1
<1> DEFINE S == Trying(e) \cup Arrivals(e, D)
<1>1. S \ {t} \subseteq Trying(e)'
  BY Gains
<1>2. IsFiniteSet(Workers)
  BY FS_Subset DEF QueueAssumption, TaskAssumption, Workers
<1>3. Trying(e)' \subseteq Workers
  BY DEF Trying
<1>4. IsFiniteSet(Trying(e)') /\ Cardinality(Trying(e)') \in Nat
  BY <1>2, <1>3, FS_Subset, FS_CardinalityType
<1>5. /\ IsFiniteSet(S)
      /\ Cardinality(S) = Cardinality(Trying(e)) + Cardinality(Arrivals(e, D))
      /\ Cardinality(Trying(e)) \in Nat /\ Cardinality(Arrivals(e, D)) \in Nat
  BY TryingCount
<1> HIDE DEF S
<1>6. IsFiniteSet(S \ {t}) /\ Cardinality(S \ {t}) >= Cardinality(S) - 1
  <2>1. Cardinality(S) \in Nat
    BY <1>5
  <2>2. /\ IsFiniteSet(S \ {t})
        /\ Cardinality(S \ {t}) = IF t \in S THEN Cardinality(S) - 1 ELSE Cardinality(S)
    BY <1>5, FS_RemoveElement
  <2> QED BY <2>1, <2>2
<1>7. Cardinality(S \ {t}) <= Cardinality(Trying(e)')
  BY <1>1, <1>4, FS_Subset
<1>8. Cardinality(S \ {t}) \in Nat
  BY <1>6, FS_CardinalityType
<1> QED BY <1>4, <1>5, <1>6, <1>7, <1>8


-----------------------------------------------------------------------------
(* Who leaves the event lists.                                             *)
Woke(s, e) == IF s.waiting[e] = << >> THEN {} ELSE {Head(s.waiting[e])}

(* The first waiter of the list, and nobody else, leaves the event lists.  *)
LEMMA WakeOneLoses ==
  ASSUME QueueAssumption, Control, NEW e \in EventLists, k' = WakeOne(k, e)
  PROVE  /\ Loses(k, k', Woke(k, e))
         /\ k.waiting[e] # << >> => Cardinality(Arrivals(e, Woke(k, e))) = 1
         /\ \A f \in EventLists : f # e => Arrivals(f, Woke(k, e)) = {}
<1>1. Steady(k, Task)
  BY DEF Control, Controlled
<1>2. WakesFirst(k, k', e, Task)
  BY <1>1, WakeOneSteady DEF QueueAssumption
<1>3. Loses(k, k', Woke(k, e))
  BY <1>2 DEF WakesFirst, Loses, Woke
<1>4. /\ k.waiting[e] \in TaskList
      /\ \A f \in EventLists : f # e => ToSet(k.waiting[f]) \cap ToSet(k.waiting[e]) = {}
  BY <1>1 DEF Steady, Settled, Sound, Typed, Events
<1>5. k.waiting[e] # << >> => Head(k.waiting[e]) \in ToSet(k.waiting[e])
  BY <1>4, TailList
<1>6. k.waiting[e] # << >> => Arrivals(e, Woke(k, e)) = {Head(k.waiting[e])}
  BY <1>5 DEF Arrivals, Woke
<1>7. \A f \in EventLists : f # e => Arrivals(f, Woke(k, e)) = {}
  BY <1>4, <1>5 DEF Arrivals, Woke
<1> QED BY <1>3, <1>6, <1>7, FS_Singleton

(* Unlocking one list.                                                     *)
LEMMA UnlocksLoses ==
  ASSUME Control, NEW e \in EventLists, NEW n \in Nat, Unlocks(k, k', e, n)
  PROVE  \E D : /\ Loses(k, k', D)
                /\ k'.waiting[e] # << >> => Cardinality(Arrivals(e, D)) = n
                /\ \A f \in EventLists : f # e => Arrivals(f, D) = {}
<1>1. PICK D \in SUBSET ToSet(k.waiting[e]) :
        /\ ToSet(k'.waiting[e]) = ToSet(k.waiting[e]) \ D
        /\ k'.waiting[e] = << >> \/ Cardinality(D) = n
  BY DEF Unlocks
<1>2. \A f \in EventLists : f # e => ToSet(k.waiting[f]) \cap ToSet(k.waiting[e]) = {}
  BY DEF Control, Controlled, Steady, Settled, Sound, Events
<1>3. \A f \in EventLists : f # e => k'.waiting[f] = k.waiting[f]
  BY DEF Unlocks
<1>4. Loses(k, k', D)
  BY <1>1, <1>2, <1>3 DEF Loses
<1>5. Arrivals(e, D) = D /\ \A f \in EventLists : f # e => Arrivals(f, D) = {}
  BY <1>1, <1>2 DEF Arrivals
<1> QED BY <1>1, <1>4, <1>5

(* What was not empty before a step that takes tasks out was not empty.    *)
LEMMA LosesEmpty ==
  ASSUME Control, Control', NEW D, Loses(k, k', D), NEW e \in EventLists, k'.waiting[e] # << >>
  PROVE  k.waiting[e] # << >>
<1>1. k.waiting[e] \in TaskList /\ k'.waiting[e] \in TaskList
  BY DEF Control, Controlled, Steady, Settled, Sound, Typed
<1>2. ToSet(k'.waiting[e]) # {}
  BY <1>1, ListIs
<1>3. ToSet(k.waiting[e]) # {}
  BY <1>2 DEF Loses
<1> QED BY <1>1, <1>3, ListIs

(* The task that runs is in no list, unless it has just gone there.        *)
LEMMA RunnerUnlisted ==
  ASSUME Control, NEW t \in Workers, k.current = t, pc[t] \notin Placed
  PROVE  t \notin InLists(k)
<1>1. Steady(k, Task) /\ IsRunnable(k, t) /\ t \in Task
  BY DEF Control, Controlled, Awake, Workers
<1>2. k.priority[t] \in Priorities
  BY <1>1 DEF Steady, Settled, Sound, Typed
<1>3. t \notin Blocked(k)
  BY <1>1, <1>2 DEF Steady, Settled, Sound, Homed, IsRunnable
<1> QED BY <1>1, <1>3 DEF Steady, Settled, Sound, Waiters, InLists

(* The other workers stay where they are.                                  *)
Others(t) == \A u \in Workers \ {t} : pc'[u] = pc[u] /\ call'[u].op = call[u].op

(* The waiters that stay are where they were.                              *)
LEMMA ListedKeeps ==
  ASSUME SInv, Listed, NEW t, Others(t), NEW D, Loses(k, k', D),
         t \in InLists(k) => pc'[t] \in Placed \cup {"try"} /\ call'[t].op = call[t].op
  PROVE  Listed'
<1> SUFFICES ASSUME NEW e \in EventLists, NEW u \in ToSet(k'.waiting[e])
             PROVE  /\ u \in Workers /\ pc'[u] \in Placed \cup {"try"}
                    /\ EventList(call'[u].op) = e
  BY DEF Listed
<1>1. u \in ToSet(k.waiting[e]) /\ u \in InLists(k)
  BY DEF Loses, InLists
<1>2. u \in Workers /\ pc[u] \in Placed \cup {"try"} /\ EventList(call[u].op) = e
  BY <1>1 DEF Listed
<1>3. CASE u = t
  BY <1>1, <1>2, <1>3
<1>4. CASE u # t
  BY <1>2, <1>4 DEF Others
<1> QED BY <1>2, <1>3, <1>4

(* What is gained on one side may be lost on the other.                    *)
LEMMA SupplyTypes ==
  ASSUME QueueAssumption, IInv, NEW e \in EventLists
  PROVE  Supply(e) \in Nat /\ Counted(e) \in Nat
<1>1. count \in Nat /\ Capacity - count \in Nat
  BY DEF IInv, Ring, QueueAssumption
<1>2. txLock \in Unlocked..MaxLocked /\ rxLock \in Unlocked..MaxLocked /\ MaxLocked \in Nat
  BY DEF IInv, locks, QueueAssumption
<1>3. Counted(e) \in Nat
  BY <1>2 DEF Counted, Lock, Unlocked
<1> QED BY <1>1, <1>3 DEF Supply

(* The same after a step.                                                  *)
LEMMA SupplyNext ==
  ASSUME QueueAssumption, IInv', NEW e \in EventLists
  PROVE  Supply(e)' \in Nat /\ Counted(e)' \in Nat
<1>1. count' \in Nat /\ Capacity - count' \in Nat
  <2>1. count' \in 0..Capacity
    BY DEF IInv, Ring
  <2>2. Capacity \in Nat
    BY DEF QueueAssumption
  <2>3. \A C \in Nat : \A c \in 0..C : c \in Nat /\ C - c \in Nat
    OBVIOUS
  <2> QED BY <2>1, <2>2, <2>3
<1>2. txLock' \in Unlocked..MaxLocked /\ rxLock' \in Unlocked..MaxLocked /\ MaxLocked \in Nat
  BY DEF IInv, locks, QueueAssumption
<1>3. Counted(e)' \in Nat
  BY <1>2 DEF Counted, Lock, Unlocked
<1> QED BY <1>1, <1>3 DEF Supply

(* The tasks that try after a step can be counted.                         *)
LEMMA TryingFinite ==
  ASSUME QueueAssumption, NEW e
  PROVE  Cardinality(Trying(e)') \in Nat
<1>1. IsFiniteSet(Workers)
  BY FS_Subset DEF QueueAssumption, TaskAssumption, Workers
<1>2. Trying(e)' \subseteq Workers
  BY DEF Trying
<1> QED BY <1>1, <1>2, FS_Subset, FS_CardinalityType

(* A list stays covered if what is added for its waiters is matched by     *)
(* tasks that begin to try.                                                *)
LEMMA CoversOn ==
  ASSUME QueueAssumption, IInv, IInv', Control, Control', NEW e \in EventLists, Covers(e),
         NEW D, Loses(k, k', D), NEW gain \in Int,
         Cardinality(Trying(e)) \in Nat, Cardinality(Trying(e)') \in Nat,
         Cardinality(Trying(e)') >= Cardinality(Trying(e)) + gain,
         Supply(e)' - Counted(e)' <= Supply(e) - Counted(e) + gain
  PROVE  Covers(e)'
<1> SUFFICES ASSUME k'.waiting[e] # << >>
             PROVE  Supply(e)' <= Cardinality(Trying(e)') + Counted(e)'
  BY DEF Covers
<1>1. k.waiting[e] # << >>
  BY LosesEmpty
<1>2. Supply(e) <= Cardinality(Trying(e)) + Counted(e)
  BY <1>1 DEF Covers
<1>3. Supply(e) \in Nat /\ Counted(e) \in Nat
  BY SupplyTypes
<1>4. Supply(e)' \in Nat /\ Counted(e)' \in Nat
  BY SupplyNext
<1> QED BY <1>2, <1>3, <1>4


-----------------------------------------------------------------------------
(* The steps, one kind after the other.                                    *)
WaitersKeep == Listed' /\ CoversAll'

(* A step that moves one task on and changes neither what there is for the *)
(* waiters nor what is counted.                                            *)
SameSupply == \A e \in EventLists : Supply(e)' = Supply(e) /\ Counted(e)' = Counted(e)

(* A step of one task moves no other.                                      *)
LEMMA GotoOthers ==
  ASSUME Calls, NEW t \in Workers, NEW to, Goto(t, to)
  PROVE  pc'[t] = to /\ \A u \in Workers \ {t} : pc'[u] = pc[u]
  BY DEF Goto, Calls

(* Nor does the end of its call.                                           *)
LEMMA ReturnOthers ==
  ASSUME Calls, NEW t \in Workers, Return(t)
  PROVE  Others(t) /\ pc'[t] = "idle"
<1>1. Goto(t, "idle") /\ call' = [call EXCEPT ![t] = NoCall]
  BY DEF Return
<1>2. \A u \in Workers \ {t} : call'[u] = call[u]
  BY <1>1 DEF Calls
<1> QED BY <1>1, <1>2, GotoOthers DEF Others

(* While it does not try.                                                  *)
LEMMA QuietKeeps ==
  ASSUME QueueAssumption, WInv, IInv', Control', NEW t \in Workers, k.current = t,
         pc[t] \notin Retrying, Others(t), SameSupply, NEW D, Loses(k, k', D)
  PROVE  WaitersKeep
<1> USE DEF WInv, SInv
<1>1. t \notin InLists(k)
  BY RunnerUnlisted DEF Retrying
<1>2. Listed'
  BY <1>1, ListedKeeps
<1>4. StillTry({t})
  BY DEF Others, StillTry
<1>3. ASSUME NEW e \in EventLists PROVE Covers(e)'
  <2>1. (Trying(e) \cup Arrivals(e, D)) \cap {t} = {}
    BY <1>1 DEF Trying, Arrivals, InLists
  <2>2. Cardinality(Trying(e)') >= Cardinality(Trying(e)) + Cardinality(Arrivals(e, D))
    BY <1>4, <2>1, GainsAll
  <2>3. Cardinality(Trying(e)) \in Nat /\ Cardinality(Arrivals(e, D)) \in Nat
    BY TryingCount
  <2>4. Cardinality(Trying(e)') \in Nat
    BY TryingFinite
  <2>5. Cardinality(Trying(e)') >= Cardinality(Trying(e)) + 0
    BY <2>2, <2>3, <2>4
  <2>6. Supply(e) \in Nat /\ Counted(e) \in Nat /\ Covers(e)
    BY SupplyTypes DEF Covered, CoversAll
  <2>7. Supply(e)' - Counted(e)' <= Supply(e) - Counted(e) + 0
    BY <2>6 DEF SameSupply
  <2> QED BY <2>3, <2>4, <2>5, <2>6, <2>7, CoversOn
<1> QED BY <1>2, <1>3 DEF WaitersKeep, CoversAll

(* While it tries, or is bound to.                                         *)
LEMMA TriesOn ==
  ASSUME QueueAssumption, WInv, IInv', Control', NEW t \in Workers, Others(t),
         pc'[t] \in Placed \cup {"try"}, call'[t].op = call[t].op,
         SameSupply, NEW D, Loses(k, k', D)
  PROVE  WaitersKeep
<1> USE DEF WInv, SInv
<1>1. Listed'
  BY ListedKeeps
<1>3. StillTry({})
  <2>1. \A u \in Workers : u # t => pc'[u] = pc[u] /\ call'[u].op = call[u].op
    BY DEF Others
  <2>2. pc'[t] \in Retrying
    BY DEF Retrying
  <2> QED BY <2>1, <2>2 DEF StillTry
<1>2. ASSUME NEW e \in EventLists PROVE Covers(e)'
  <2>2. Cardinality(Trying(e)') >= Cardinality(Trying(e)) + Cardinality(Arrivals(e, D))
    BY <1>3, GainsAll
  <2>3. Cardinality(Trying(e)) \in Nat /\ Cardinality(Arrivals(e, D)) \in Nat
    BY TryingCount
  <2>4. Cardinality(Trying(e)') \in Nat
    BY TryingFinite
  <2>5. Cardinality(Trying(e)') >= Cardinality(Trying(e)) + 0
    BY <2>2, <2>3, <2>4
  <2>6. Supply(e) \in Nat /\ Counted(e) \in Nat /\ Covers(e)
    BY SupplyTypes DEF Covered, CoversAll
  <2>7. Supply(e)' - Counted(e)' <= Supply(e) - Counted(e) + 0
    BY <2>6 DEF SameSupply
  <2> QED BY <2>3, <2>4, <2>5, <2>6, <2>7, CoversOn
<1> QED BY <1>1, <1>2 DEF WaitersKeep, CoversAll

(* The operations: one less to try for, or one more waiter woken.          *)
LEMMA OperationKeeps ==
  ASSUME QueueAssumption, WInv, IInv', Control', NEW t \in Workers, At(t, "try"), Return(t),
         NEW w \in EventLists, k' = WakeOne(k, w), UNCHANGED locks,
         \A e \in EventLists :
           Supply(e)' <= Supply(e) + (IF e = w THEN 1 ELSE 0)
                                   - (IF e = EventList(call[t].op) THEN 1 ELSE 0)
  PROVE  WaitersKeep
<1> USE DEF WInv, SInv
<1> DEFINE D == Woke(k, w)
<1>1. /\ Loses(k, k', D)
      /\ k.waiting[w] # << >> => Cardinality(Arrivals(w, D)) = 1
      /\ \A f \in EventLists : f # w => Arrivals(f, D) = {}
  BY WakeOneLoses
<1>2. Others(t) /\ t \notin InLists(k)
  BY ReturnOthers, RunnerUnlisted DEF At, Running, Placed, IInv
<1> HIDE DEF D
<1>3. Listed'
  BY <1>1, <1>2, ListedKeeps
<1>5. StillTry({t})
  BY <1>2 DEF Others, StillTry
<1>4. ASSUME NEW e \in EventLists PROVE Covers(e)'
  <2> DEFINE arrived == Cardinality(Arrivals(e, D))
             leaves == IF e = EventList(call[t].op) THEN 1 ELSE 0
  <2>1. Cardinality(Trying(e)') >= Cardinality(Trying(e)) + arrived - leaves
    <3>1. Cardinality(Trying(e)') >= Cardinality(Trying(e)) + arrived - 1
      BY <1>1, <1>5, GainsLess
    <3>2. CASE e # EventList(call[t].op)
      <4>1. (Trying(e) \cup Arrivals(e, D)) \cap {t} = {}
        BY <1>2, <3>2 DEF Trying, Arrivals, InLists
      <4>2. Cardinality(Trying(e)') >= Cardinality(Trying(e)) + arrived
        BY <1>1, <1>5, <4>1, GainsAll
      <4>3. Cardinality(Trying(e)) \in Nat /\ arrived \in Nat
        BY TryingCount
      <4> QED BY <3>2, <4>2, <4>3
    <3> QED BY <3>1, <3>2
  <2>2. Cardinality(Trying(e)) \in Nat /\ arrived \in Nat
    BY TryingCount
  <2>3. Cardinality(Trying(e)') \in Nat
    BY TryingFinite
  <2>4. Supply(e) \in Nat /\ Counted(e) \in Nat /\ Covers(e) /\ Counted(e)' = Counted(e)
    BY SupplyTypes DEF Covered, CoversAll, Counted, Lock, locks
  <2>5. Supply(e)' \in Nat
    BY SupplyNext
  <2>6. CASE e = w /\ k.waiting[w] = << >>
    <3>1. k'.waiting[e] = << >>
      BY <1>1, <2>6, LosesEmpty
    <3> QED BY <3>1 DEF Covers
  <2>7. CASE e # w \/ k.waiting[w] # << >>
    <3>1. arrived = IF e = w THEN 1 ELSE 0
      BY <1>1, <2>7, FS_EmptySet
    <3>2. Supply(e)' - Counted(e)' <= Supply(e) - Counted(e) + (arrived - leaves)
      BY <2>4, <2>5, <3>1
    <3>3. Cardinality(Trying(e)') >= Cardinality(Trying(e)) + (arrived - leaves)
      BY <2>1, <2>2, <2>3
    <3>4. arrived - leaves \in Int
      BY <2>2
    <3> HIDE DEF arrived, leaves
    <3> QED BY <1>1, <2>2, <2>3, <2>4, <3>2, <3>3, <3>4, CoversOn
  <2> QED BY <2>6, <2>7
<1> QED BY <1>3, <1>4 DEF WaitersKeep, CoversAll


(* Unlocking a list wakes a task for each of the handlers' operations.     *)
LEMMA UnlockKeeps ==
  ASSUME QueueAssumption, WInv, IInv', Control', NEW t \in Workers, NEW way \in Ways,
         UnlockTx(t, way) \/ UnlockRx(t, way)
  PROVE  WaitersKeep
<1> USE DEF WInv, SInv
<1>1. \/ k.current = t /\ At(t, way.tx) /\ Goto(t, way.rx)
      \/ k.current = t /\ At(t, way.rx) /\ Goto(t, way.resume)
  <2>1. CASE UnlockTx(t, way)
    BY <2>1 DEF UnlockTx, At, Running
  <2>2. CASE UnlockRx(t, way)
    BY <2>2 DEF UnlockRx, At, Running
  <2> QED BY <2>1, <2>2
<1>2. call' = call /\ count' = count
  BY DEF UnlockTx, UnlockRx, ring
<1>3. Others(t) /\ pc'[t] \in {way.rx, way.resume} /\ pc[t] \in {way.tx, way.rx}
  BY <1>1, <1>2, GotoOthers DEF Others, At, IInv
<1>4. /\ pc[t] \in Retrying => pc'[t] \in Retrying
      /\ pc[t] \in Placed => pc'[t] \in Placed
  BY <1>1, GotoOthers DEF Ways, Way, Retrying, Placed, At, IInv
<1>5. PICK e \in EventLists, n \in Nat :
        /\ Unlocks(k, k', e, n) /\ Counted(e) = n /\ Counted(e)' = 0
        /\ \A f \in EventLists : f # e => Counted(f)' = Counted(f)
  <2>1. CASE UnlockTx(t, way)
    <3>1. txLock \in Nat /\ Unlocks(k, k', "toReceive", txLock)
      BY <2>1, UnlockSched
    <3>2. txLock' = Unlocked /\ rxLock' = rxLock
      BY <2>1 DEF UnlockTx
    <3>3. "toReceive" \in EventLists /\ \A f \in EventLists : f # "toReceive" => f = "toSend"
      BY DEF QueueAssumption
    <3>4. Counted("toReceive") = txLock /\ Counted("toReceive")' = 0
      BY <3>1, <3>2 DEF Counted, Lock, Unlocked
    <3>5. Counted("toSend")' = Counted("toSend")
      BY <3>2 DEF Counted, Lock
    <3> QED BY <3>1, <3>3, <3>4, <3>5
  <2>2. CASE UnlockRx(t, way)
    <3>1. rxLock \in Nat /\ Unlocks(k, k', "toSend", rxLock)
      BY <2>2, UnlockSched
    <3>2. rxLock' = Unlocked /\ txLock' = txLock
      BY <2>2 DEF UnlockRx
    <3>3. "toSend" \in EventLists /\ \A f \in EventLists : f # "toSend" => f = "toReceive"
      BY DEF QueueAssumption
    <3>4. Counted("toSend") = rxLock /\ Counted("toSend")' = 0
      BY <3>1, <3>2 DEF Counted, Lock, Unlocked
    <3>5. Counted("toReceive")' = Counted("toReceive")
      BY <3>2 DEF Counted, Lock
    <3> QED BY <3>1, <3>3, <3>4, <3>5
  <2> QED BY <2>1, <2>2
<1>6. PICK D : /\ Loses(k, k', D)
               /\ k'.waiting[e] # << >> => Cardinality(Arrivals(e, D)) = n
               /\ \A f \in EventLists : f # e => Arrivals(f, D) = {}
  BY <1>5, UnlocksLoses
<1>7. Listed'
  <2>1. t \in InLists(k) => pc'[t] \in Placed
    BY <1>1, <1>4, RunnerUnlisted
  <2> QED BY <1>2, <1>3, <1>6, <2>1, ListedKeeps
<1>8. StillTry({})
  BY <1>2, <1>3, <1>4 DEF Others, StillTry
<1>9. ASSUME NEW f \in EventLists PROVE Covers(f)'
  <2>1. Cardinality(Trying(f)') >= Cardinality(Trying(f)) + Cardinality(Arrivals(f, D))
    BY <1>6, <1>8, GainsAll
  <2>2. /\ Cardinality(Trying(f)) \in Nat /\ Cardinality(Arrivals(f, D)) \in Nat
        /\ Cardinality(Trying(f)') \in Nat
    BY TryingCount, TryingFinite
  <2>3. /\ Supply(f) \in Nat /\ Counted(f) \in Nat /\ Covers(f) /\ Supply(f)' = Supply(f)
        /\ Counted(f)' \in Nat
    BY <1>2, SupplyTypes, SupplyNext DEF Covered, CoversAll, Supply
  <2>4. CASE k'.waiting[f] = << >>
    BY <2>4 DEF Covers
  <2>5. CASE k'.waiting[f] # << >>
    <3>1. Cardinality(Arrivals(f, D)) = IF f = e THEN n ELSE 0
      BY <1>6, <2>5, FS_EmptySet
    <3>2. Supply(f)' - Counted(f)' <= Supply(f) - Counted(f) + Cardinality(Arrivals(f, D))
      BY <1>5, <2>3, <3>1
    <3> QED BY <1>6, <2>1, <2>2, <2>3, <3>2, CoversOn
  <2> QED BY <2>4, <2>5
<1> QED BY <1>7, <1>9 DEF WaitersKeep, CoversAll

(* A task that goes into a list leaves nothing behind for it.              *)
LEMMA PlaceKeeps ==
  ASSUME QueueAssumption, WInv, IInv', Control', NEW t \in Workers, Place(t)
  PROVE  WaitersKeep
<1> USE DEF WInv, SInv
<1> DEFINE e == EventList(call[t].op)
<1>1. /\ At(t, "place") /\ k.current = t /\ pc[t] = "place" /\ Goto(t, "unlockTxToBlock")
      /\ call' = call /\ count' = count /\ txLock' = txLock /\ rxLock' = rxLock
  BY DEF Place, At, Running, ring, locks
<1>2. Others(t) /\ pc'[t] = "unlockTxToBlock"
  BY <1>1, GotoOthers DEF Others, IInv
<1>3. Places(k, k', e, call[t].ticks)
  BY PlaceControl DEF IInv
<1>4. e \in EventLists
  BY DEF EventList, QueueAssumption
<1>5. Supply(e) <= Counted(e)
  BY <1>1 DEF Covered, CountedBefore
<1> HIDE DEF e
<1>6. /\ ToSet(k'.waiting[e]) = ToSet(k.waiting[e]) \cup {t}
      /\ \A f \in EventLists : f # e => k'.waiting[f] = k.waiting[f]
  BY <1>1, <1>3 DEF Places
<1>7. Listed'
  <2> SUFFICES ASSUME NEW f \in EventLists, NEW u \in ToSet(k'.waiting[f])
               PROVE  /\ u \in Workers /\ pc'[u] \in Placed \cup {"try"}
                      /\ EventList(call'[u].op) = f
    BY DEF Listed
  <2>1. CASE u = t
    <3>1. t \notin InLists(k)
      BY <1>1, RunnerUnlisted DEF Placed
    <3>2. f = e
      BY <1>6, <2>1, <3>1 DEF InLists
    <3>3. pc'[u] \in Placed
      BY <1>2, <2>1 DEF Placed
    <3> QED BY <1>1, <2>1, <3>2, <3>3 DEF e
  <2>2. CASE u # t
    <3>1. u \in ToSet(k.waiting[f])
      BY <1>6, <2>2
    <3>2. u \in Workers /\ pc[u] \in Placed \cup {"try"} /\ EventList(call[u].op) = f
      BY <3>1 DEF Listed
    <3> QED BY <1>1, <1>2, <2>2, <3>2 DEF Others
  <2> QED BY <2>1, <2>2
<1>8. ASSUME NEW f \in EventLists PROVE Covers(f)'
  <2>1. /\ Supply(f) \in Nat /\ Counted(f) \in Nat /\ Covers(f)
        /\ Supply(f)' = Supply(f) /\ Counted(f)' = Counted(f)
    BY <1>1, SupplyTypes DEF Covered, CoversAll, Supply, Counted, Lock
  <2>2. Cardinality(Trying(f)') \in Nat
    BY TryingFinite
  <2>3. CASE f = e
    BY <1>5, <2>1, <2>2, <2>3 DEF Covers
  <2>4. CASE f # e
    <3>1. k'.waiting[f] = k.waiting[f]
      BY <1>6, <2>4
    <3>2. Trying(f) \subseteq Trying(f)'
      <4> SUFFICES ASSUME NEW u \in Trying(f) PROVE u \in Trying(f)'
        OBVIOUS
      <4>1. u \in Workers /\ EventList(call[u].op) = f /\ pc[u] \in Retrying /\ u \notin InLists(k)
        BY DEF Trying
      <4>2. u # t
        BY <1>1, <4>1 DEF Retrying, Placed
      <4>3. u \notin InLists(k')
        BY <1>6, <4>1, <4>2 DEF InLists
      <4> QED BY <1>1, <1>2, <4>1, <4>2, <4>3 DEF Trying, Others
    <3>3. Cardinality(Trying(f)) <= Cardinality(Trying(f)') /\ Cardinality(Trying(f)) \in Nat
      <4>1. IsFiniteSet(Workers)
        BY FS_Subset DEF QueueAssumption, TaskAssumption, Workers
      <4>2. Trying(f)' \subseteq Workers
        BY DEF Trying
      <4>3. IsFiniteSet(Trying(f)') /\ IsFiniteSet(Trying(f))
        BY <3>2, <4>1, <4>2, FS_Subset
      <4> QED BY <3>2, <4>3, FS_Subset, FS_CardinalityType
    <3> QED BY <2>1, <2>2, <3>1, <3>3 DEF Covers
  <2> QED BY <2>3, <2>4
<1> QED BY <1>7, <1>8 DEF WaitersKeep, CoversAll

(* A handler that adds to what there is for the tasks in list w wakes one  *)
(* of them, or counts itself while the queue is locked.                    *)
Adds(w) ==
  /\ UNCHANGED <<pc, call>>
  /\ \/ Lock(w) = Unlocked /\ k' = WakeOne(k, w) /\ Counted(w)' = Counted(w)
     \/ Lock(w) # Unlocked /\ k' = k /\ Counted(w)' = Counted(w) + 1
  /\ Supply(w)' = Supply(w) + 1
  /\ \A e \in EventLists : e # w => Supply(e)' <= Supply(e) /\ Counted(e)' = Counted(e)

(* Nobody who waits for it is forgotten.                                   *)
LEMMA AddsKeeps ==
  ASSUME QueueAssumption, WInv, IInv', Control', NEW w \in EventLists, Adds(w)
  PROVE  WaitersKeep /\ CountedBefore'
<1> USE DEF WInv, SInv
<1>1. StillTry({}) /\ Others(Idle)
  BY DEF Adds, StillTry, Others
<1>2. ASSUME NEW e \in EventLists
      PROVE  /\ Supply(e) \in Nat /\ Counted(e) \in Nat /\ Covers(e)
             /\ Supply(e)' \in Nat /\ Counted(e)' \in Nat
  BY SupplyTypes, SupplyNext DEF Covered, CoversAll
<1>3. CountedBefore'
  <2> SUFFICES ASSUME NEW t \in Workers, pc[t] = "place"
               PROVE  Supply(EventList(call[t].op))' <= Counted(EventList(call[t].op))'
    BY DEF CountedBefore, Adds
  <2> DEFINE e == EventList(call[t].op)
  <2>1. e \in EventLists /\ Supply(e) <= Counted(e)
    BY DEF Covered, CountedBefore, EventList, QueueAssumption
  <2>2. Lock(e) # Unlocked
    <3>1. txLock \in Nat /\ rxLock \in Nat
      BY DEF Held, TxHeld, RxHeld
    <3> QED BY <3>1 DEF Lock, Unlocked
  <2> HIDE DEF e
  <2>3. CASE e = w
    BY <1>2, <2>1, <2>2, <2>3 DEF Adds, e
  <2>4. CASE e # w
    BY <1>2, <2>1, <2>4 DEF Adds, e
  <2> QED BY <2>3, <2>4
<1>4. PICK D : /\ Loses(k, k', D)
               /\ Lock(w) = Unlocked /\ k.waiting[w] # << >> => Cardinality(Arrivals(w, D)) = 1
               /\ Counted(w)' = Counted(w) \/ (Counted(w)' = Counted(w) + 1 /\ Lock(w) # Unlocked)
  <2>1. CASE Lock(w) = Unlocked
    <3>1. k' = WakeOne(k, w) /\ Counted(w)' = Counted(w)
      BY <2>1 DEF Adds
    <3>2. /\ Loses(k, k', Woke(k, w))
          /\ k.waiting[w] # << >> => Cardinality(Arrivals(w, Woke(k, w))) = 1
      BY <3>1, WakeOneLoses
    <3> QED BY <3>1, <3>2
  <2>2. CASE Lock(w) # Unlocked
    <3>1. k' = k
      BY <2>2 DEF Adds
    <3>2. Loses(k, k', {})
      BY <3>1 DEF Loses
    <3> QED BY <2>2, <3>2 DEF Adds
  <2> QED BY <2>1, <2>2
<1>5. Listed'
  <2>1. Idle \notin InLists(k)
    BY DEF InLists, Listed, Workers
  <2> QED BY <1>1, <1>4, <2>1, ListedKeeps
<1>6. ASSUME NEW e \in EventLists PROVE Covers(e)'
  <2> DEFINE arrived == Cardinality(Arrivals(e, D))
  <2>1. Cardinality(Trying(e)') >= Cardinality(Trying(e)) + arrived
    BY <1>1, <1>4, GainsAll
  <2>2. /\ Cardinality(Trying(e)) \in Nat /\ arrived \in Nat /\ arrived \in Int
        /\ Cardinality(Trying(e)') \in Nat
    <3>1. Cardinality(Trying(e)) \in Nat /\ arrived \in Nat
      BY TryingCount
    <3> HIDE DEF arrived
    <3> QED BY <3>1, TryingFinite
  <2>3. CASE k.waiting[e] = << >>
    <3>1. k'.waiting[e] = << >>
      BY <1>4, <2>3, LosesEmpty
    <3> QED BY <3>1 DEF Covers
  <2>4. CASE k.waiting[e] # << >>
    <3>1. Supply(e)' - Counted(e)' <= Supply(e) - Counted(e) + arrived
      <4>1. CASE e # w
        BY <1>2, <2>2, <4>1 DEF Adds
      <4>2. CASE e = w /\ Lock(w) = Unlocked
        <5>1. arrived = 1
          BY <1>4, <2>4, <4>2
        <5>2. Supply(e)' = Supply(e) + 1 /\ Counted(e)' = Counted(e)
          BY <4>2 DEF Adds
        <5> QED BY <1>2, <5>1, <5>2
      <4>3. CASE e = w /\ Lock(w) # Unlocked
        <5>1. Supply(e)' = Supply(e) + 1 /\ Counted(e)' = Counted(e) + 1
          BY <4>3 DEF Adds
        <5> QED BY <1>2, <2>2, <5>1
      <4> QED BY <4>1, <4>2, <4>3
    <3> HIDE DEF arrived
    <3> QED BY <1>2, <1>4, <2>1, <2>2, <3>1, CoversOn
  <2> QED BY <2>3, <2>4
<1> QED BY <1>3, <1>5, <1>6 DEF WaitersKeep, CoversAll

(* Both handlers are of this kind.                                         *)
LEMMA HandlerAdds ==
  ASSUME QueueAssumption, IInv, (\E d \in Items : IsrSend(d)) \/ IsrReceive
  PROVE  \E w \in EventLists : Adds(w)
<1>1. count \in Nat /\ Capacity \in Nat
  <2>1. count \in 0..Capacity /\ Capacity \in Nat
    BY DEF IInv, Ring, QueueAssumption
  <2> QED BY <2>1
<1>2. /\ "toReceive" \in EventLists /\ "toSend" \in EventLists
      /\ \A f \in EventLists : f # "toReceive" => f = "toSend"
  BY DEF QueueAssumption
<1>3. /\ txLock # Unlocked => txLock \in Nat
      /\ rxLock # Unlocked => rxLock \in Nat
  <2>1. txLock \in Unlocked..MaxLocked /\ rxLock \in Unlocked..MaxLocked /\ MaxLocked \in Nat
    BY DEF IInv, locks, QueueAssumption
  <2> QED BY <2>1 DEF Unlocked
<1>4. ASSUME NEW d \in Items, IsrSend(d) PROVE Adds("toReceive")
  <2>1. count' = count + 1 /\ pc' = pc /\ call' = call /\ rxLock' = rxLock
    BY <1>4 DEF IsrSend, CopyToBack
  <2>2. /\ Supply("toReceive")' = Supply("toReceive") + 1
        /\ Supply("toSend")' <= Supply("toSend")
        /\ Counted("toSend")' = Counted("toSend")
    BY <1>1, <2>1 DEF Supply, Counted, Lock
  <2>3. CASE txLock = Unlocked
    <3>1. k' = WakeOne(k, "toReceive") /\ txLock' = txLock
      BY <1>4, <2>3 DEF IsrSend
    <3>2. Lock("toReceive") = Unlocked /\ Counted("toReceive")' = Counted("toReceive")
      BY <2>3, <3>1 DEF Counted, Lock
    <3> QED BY <1>2, <2>1, <2>2, <3>1, <3>2 DEF Adds
  <2>4. CASE txLock # Unlocked
    <3>1. k' = k /\ txLock' = txLock + 1
      BY <1>4, <2>4 DEF IsrSend
    <3>2. Lock("toReceive") # Unlocked /\ Counted("toReceive")' = Counted("toReceive") + 1
      BY <1>3, <2>4, <3>1 DEF Counted, Lock, Unlocked
    <3> QED BY <1>2, <2>1, <2>2, <3>1, <3>2 DEF Adds
  <2> QED BY <2>3, <2>4
<1>5. ASSUME IsrReceive PROVE Adds("toSend")
  <2>1. count' = count - 1 /\ pc' = pc /\ call' = call /\ txLock' = txLock
    BY <1>5 DEF IsrReceive, TakeItem
  <2>2. /\ Supply("toSend")' = Supply("toSend") + 1
        /\ Supply("toReceive")' <= Supply("toReceive")
        /\ Counted("toReceive")' = Counted("toReceive")
    BY <1>1, <2>1 DEF Supply, Counted, Lock
  <2>3. CASE rxLock = Unlocked
    <3>1. k' = WakeOne(k, "toSend") /\ rxLock' = rxLock
      BY <1>5, <2>3 DEF IsrReceive
    <3>2. Lock("toSend") = Unlocked /\ Counted("toSend")' = Counted("toSend")
      BY <2>3, <3>1 DEF Counted, Lock
    <3> QED BY <1>2, <2>1, <2>2, <3>1, <3>2 DEF Adds
  <2>4. CASE rxLock # Unlocked
    <3>1. k' = k /\ rxLock' = rxLock + 1
      BY <1>5, <2>4 DEF IsrReceive
    <3>2. Lock("toSend") # Unlocked /\ Counted("toSend")' = Counted("toSend") + 1
      BY <1>3, <2>4, <3>1 DEF Counted, Lock, Unlocked
    <3> QED BY <1>2, <2>1, <2>2, <3>1, <3>2 DEF Adds
  <2> QED BY <2>3, <2>4
<1> QED BY <1>2, <1>4, <1>5

(* The timer may end waits, and adds nothing.                              *)
LEMMA TimerKeeps ==
  ASSUME QueueAssumption, WInv, IInv', Control', Timer
  PROVE  WaitersKeep
<1> USE DEF WInv, SInv
<1>1. UNCHANGED <<pc, call, count, txLock, rxLock>> /\ k' = TimerIsr(k)
  BY DEF Timer, ring, locks
<1>2. StillTry({}) /\ Others(Idle)
  BY <1>1 DEF StillTry, Others
<1>3. Strikes(k, k', Task)
  BY <1>1, TimerIsrSteady DEF QueueAssumption, Control, Controlled
<1>4. PICK D : Loses(k, k', D)
  <2>1. CASE \E D \in SUBSET Blocked(k) : Woken(k, k', D)
    BY <2>1 DEF Woken, Loses
  <2>2. CASE SameLists(k, k')
    <3>1. Loses(k, k', {})
      BY <2>2 DEF SameLists, Loses
    <3> QED BY <3>1
  <2> QED BY <1>3, <2>1, <2>2 DEF Strikes
<1>5. Listed'
  <2>1. Idle \notin InLists(k)
    BY DEF InLists, Listed, Workers
  <2> QED BY <1>2, <1>4, <2>1, ListedKeeps
<1>6. ASSUME NEW e \in EventLists PROVE Covers(e)'
  <2>1. Cardinality(Trying(e)') >= Cardinality(Trying(e)) + Cardinality(Arrivals(e, D))
    BY <1>2, <1>4, GainsAll
  <2>2. /\ Cardinality(Trying(e)) \in Nat /\ Cardinality(Arrivals(e, D)) \in Nat
        /\ Cardinality(Trying(e)') \in Nat
    BY TryingCount, TryingFinite
  <2>3. Cardinality(Trying(e)') >= Cardinality(Trying(e)) + 0
    BY <2>1, <2>2
  <2>4. /\ Supply(e) \in Nat /\ Counted(e) \in Nat /\ Covers(e)
        /\ Supply(e)' = Supply(e) /\ Counted(e)' = Counted(e)
    BY <1>1, SupplyTypes DEF Covered, CoversAll, Supply, Counted, Lock
  <2>5. Supply(e)' - Counted(e)' <= Supply(e) - Counted(e) + 0
    BY <2>4
  <2> QED BY <1>4, <2>2, <2>3, <2>4, <2>5, CoversOn
<1> QED BY <1>5, <1>6 DEF WaitersKeep, CoversAll

(* While a task runs, no other is about to go into a list.                 *)
LEMMA CountedOn ==
  ASSUME IInv, Control, NEW t \in Workers, k.current = t, NEW to, Goto(t, to),
         to = "place" => Supply(EventList(call[t].op))' <= Counted(EventList(call[t].op))'
                         /\ call'[t].op = call[t].op
  PROVE  CountedBefore'
<1> SUFFICES ASSUME NEW u \in Workers, pc'[u] = "place"
             PROVE  Supply(EventList(call[u].op))' <= Counted(EventList(call[u].op))'
  BY DEF CountedBefore
<1>1. pc'[t] = to /\ \A v \in Workers \ {t} : pc'[v] = pc[v]
  BY GotoOthers DEF IInv
<1>2. u = t
  <2>1. \A v \in Workers : v # t => pc[v] # "place"
    BY OnlyOne DEF Locking
  <2> QED BY <1>1, <2>1
<1> QED BY <1>1, <1>2

(* An operation that is not possible has nothing to take.                  *)
LEMMA StuckSupply ==
  ASSUME QueueAssumption, IInv, NEW t \in Workers, Stuck(call[t].op)
  PROVE  EventList(call[t].op) \in EventLists /\ Supply(EventList(call[t].op)) = 0
<1>1. EventList(call[t].op) \in EventLists
  BY DEF EventList, QueueAssumption
<1>2. CASE call[t].op \in Sending
  <2>1. Capacity \in Nat /\ count = Capacity
    BY <1>2 DEF QueueAssumption, Stuck, IsFull
  <2> QED BY <1>1, <1>2, <2>1 DEF EventList, Supply
<1>3. CASE call[t].op \notin Sending
  BY <1>1, <1>3 DEF EventList, Supply, Stuck, IsEmpty
<1> QED BY <1>2, <1>3

(* A task that stops trying because there is nothing.                      *)
LEMMA LeaveKeeps ==
  ASSUME QueueAssumption, WInv, IInv', Control', NEW t \in Workers, At(t, "try"),
         Stuck(call[t].op), Others(t), UNCHANGED <<k, ring, locks>>
  PROVE  WaitersKeep
<1> USE DEF WInv, SInv
<1> DEFINE w == EventList(call[t].op)
<1>1. t \notin InLists(k)
  BY RunnerUnlisted DEF At, Running, Placed
<1>2. Loses(k, k', {})
  BY DEF Loses
<1>3. Listed'
  BY <1>1, <1>2, ListedKeeps
<1>4. StillTry({t})
  BY DEF Others, StillTry
<1>5. w \in EventLists /\ Supply(w) = 0
  BY StuckSupply
<1>6. ASSUME NEW e \in EventLists PROVE Covers(e)'
  <2>1. /\ Supply(e) \in Nat /\ Counted(e) \in Nat /\ Covers(e)
        /\ Supply(e)' = Supply(e) /\ Counted(e)' = Counted(e)
    BY SupplyTypes DEF Covered, CoversAll, Supply, Counted, Lock, ring, locks
  <2>2. Cardinality(Trying(e)') \in Nat
    BY TryingFinite
  <2>3. CASE e = w
    BY <1>5, <2>1, <2>2, <2>3 DEF Covers
  <2>4. CASE e # w
    <3>1. (Trying(e) \cup Arrivals(e, {})) \cap {t} = {}
      BY <2>4 DEF Trying, Arrivals
    <3>2. Cardinality(Trying(e)') >= Cardinality(Trying(e)) + Cardinality(Arrivals(e, {}))
      BY <1>2, <1>4, <3>1, GainsAll
    <3>3. Cardinality(Trying(e)) \in Nat /\ Cardinality(Arrivals(e, {})) \in Nat
      BY TryingCount
    <3>4. Cardinality(Trying(e)') >= Cardinality(Trying(e)) + 0
      BY <2>2, <3>2, <3>3
    <3>5. Supply(e)' - Counted(e)' <= Supply(e) - Counted(e) + 0
      BY <2>1
    <3> QED BY <1>2, <2>1, <2>2, <3>3, <3>4, <3>5, CoversOn
  <2> QED BY <2>3, <2>4
<1> QED BY <1>3, <1>6 DEF WaitersKeep, CoversAll

(* A first attempt.                                                        *)
LEMMA TryKeeps ==
  ASSUME QueueAssumption, WInv, IInv', Control', NEW t \in Workers,
         \/ TrySend(t) \/ TryReceive(t) \/ TryPeek(t)
         \/ GiveUp(t) \/ PrepareToWait(t) \/ Call(t)
  PROVE  WaitersKeep /\ CountedBefore'
<1> USE DEF WInv, SInv
<1>1. count \in Nat /\ Capacity \in Nat
  <2>1. count \in 0..Capacity /\ Capacity \in Nat
    BY DEF IInv, Ring, QueueAssumption
  <2> QED BY <2>1
<1>2. /\ "toReceive" \in EventLists /\ "toSend" \in EventLists
      /\ \A f \in EventLists : f # "toReceive" => f = "toSend"
  BY DEF QueueAssumption
<1>3. CASE TrySend(t)
  <2>1. /\ At(t, "try") /\ Return(t) /\ UNCHANGED locks /\ k' = WakeOne(k, "toReceive")
        /\ call[t].op \in Sending /\ count' = count + 1
    BY <1>3 DEF TrySend, CopyDataToQueue, CopyToBack, CopyToFront
  <2>2. EventList(call[t].op) = "toSend"
    BY <2>1 DEF EventList
  <2>3. Supply("toReceive")' = Supply("toReceive") + 1 /\ Supply("toSend")' = Supply("toSend") - 1
        /\ Supply("toReceive") \in Nat /\ Supply("toSend") \in Int
    BY <1>1, <2>1 DEF Supply
  <2>4. \A e \in EventLists :
          Supply(e)' <= Supply(e) + (IF e = "toReceive" THEN 1 ELSE 0)
                                  - (IF e = EventList(call[t].op) THEN 1 ELSE 0)
    BY <1>2, <2>2, <2>3
  <2>5. WaitersKeep
    BY <1>2, <2>1, <2>4, OperationKeeps
  <2> QED BY <2>1, <2>5, CountedOn DEF At, Running, Return
<1>4. CASE TryReceive(t)
  <2>1. /\ At(t, "try") /\ Return(t) /\ UNCHANGED locks /\ k' = WakeOne(k, "toSend")
        /\ call[t].op = "receive" /\ count' = count - 1
    BY <1>4 DEF TryReceive, TakeItem
  <2>2. EventList(call[t].op) = "toReceive"
    BY <2>1 DEF EventList, Sending
  <2>3. Supply("toReceive")' = Supply("toReceive") - 1 /\ Supply("toSend")' = Supply("toSend") + 1
        /\ Supply("toReceive") \in Nat /\ Supply("toSend") \in Int
    BY <1>1, <2>1 DEF Supply
  <2>4. \A e \in EventLists :
          Supply(e)' <= Supply(e) + (IF e = "toSend" THEN 1 ELSE 0)
                                  - (IF e = EventList(call[t].op) THEN 1 ELSE 0)
    BY <1>2, <2>2, <2>3
  <2>5. WaitersKeep
    BY <1>2, <2>1, <2>4, OperationKeeps
  <2> QED BY <2>1, <2>5, CountedOn DEF At, Running, Return
<1>5. CASE TryPeek(t)
  <2>1. /\ At(t, "try") /\ Return(t) /\ UNCHANGED locks /\ k' = WakeOne(k, "toReceive")
        /\ call[t].op = "peek" /\ count' = count
    BY <1>5 DEF TryPeek, ring
  <2>2. EventList(call[t].op) = "toReceive"
    BY <2>1 DEF EventList, Sending
  <2>3. Supply("toReceive")' = Supply("toReceive") /\ Supply("toSend")' = Supply("toSend")
        /\ Supply("toReceive") \in Nat /\ Supply("toSend") \in Int
    BY <1>1, <2>1 DEF Supply
  <2>4. \A e \in EventLists :
          Supply(e)' <= Supply(e) + (IF e = "toReceive" THEN 1 ELSE 0)
                                  - (IF e = EventList(call[t].op) THEN 1 ELSE 0)
    BY <1>2, <2>2, <2>3
  <2>5. WaitersKeep
    BY <1>2, <2>1, <2>4, OperationKeeps
  <2> QED BY <2>1, <2>5, CountedOn DEF At, Running, Return
<1>6. CASE GiveUp(t)
  <2>1. /\ At(t, "try") /\ Stuck(call[t].op) /\ UNCHANGED <<k, ring, locks>> /\ Return(t)
    BY <1>6 DEF GiveUp
  <2>2. WaitersKeep
    BY <2>1, ReturnOthers, LeaveKeeps DEF IInv
  <2> QED BY <2>1, <2>2, CountedOn DEF At, Running, Return
<1>7. CASE PrepareToWait(t)
  <2>1. /\ At(t, "try") /\ Stuck(call[t].op) /\ UNCHANGED <<k, ring, locks, call>>
        /\ Goto(t, "suspend")
    BY <1>7 DEF PrepareToWait
  <2>2. Others(t)
    BY <2>1, GotoOthers DEF IInv, Others
  <2>3. WaitersKeep
    BY <2>1, <2>2, LeaveKeeps
  <2> QED BY <2>1, <2>3, CountedOn DEF At, Running
<1>8. CASE Call(t)
  <2>1. /\ k.current = t /\ pc[t] = "idle" /\ UNCHANGED <<k, ring, locks>> /\ Goto(t, "try")
    BY <1>8 DEF Call, At, Running
  <2>2. \A u \in Workers \ {t} : call'[u] = call[u]
    BY <1>8 DEF Call, IInv, Calls
  <2>3. Others(t)
    BY <2>1, <2>2, GotoOthers DEF IInv, Others
  <2>4. SameSupply /\ Loses(k, k', {})
    BY <2>1 DEF SameSupply, Supply, Counted, Lock, ring, locks, Loses
  <2>5. pc[t] \notin Retrying
    BY <2>1 DEF Retrying, Placed
  <2>6. WaitersKeep
    BY <2>1, <2>3, <2>4, <2>5, QuietKeeps
  <2> QED BY <2>1, <2>6, CountedOn
<1> QED BY <1>3, <1>4, <1>5, <1>6, <1>7, <1>8

(* On the way to the list.                                                 *)
LEMMA WaitKeeps ==
  ASSUME QueueAssumption, WInv, IInv', Control', NEW t \in Workers,
         Suspend(t) \/ LockQueue(t) \/ CheckForTimeOut(t) \/ CheckStuck(t)
  PROVE  WaitersKeep /\ CountedBefore'
<1> USE DEF WInv, SInv
<1>1. /\ k.current = t /\ count' = count
      /\ pc[t] \in {"suspend", "lock", "checkTime", "checkStuck"}
      /\ \E to : Goto(t, to) /\ (to = "place" => CheckStuck(t))
  <2>1. CASE Suspend(t)
    BY <2>1 DEF Suspend, At, Running, ring
  <2>2. CASE LockQueue(t)
    BY <2>2 DEF LockQueue, At, Running, ring
  <2>3. CASE CheckForTimeOut(t)
    BY <2>3 DEF CheckForTimeOut, At, Running, ring
  <2>4. CASE CheckStuck(t)
    BY <2>4 DEF CheckStuck, At, Running, ring
  <2> QED BY <2>1, <2>2, <2>3, <2>4
<1>2. pc[t] \notin Retrying
  BY <1>1 DEF Retrying, Placed
<1>3. \A u \in Workers \ {t} : call'[u] = call[u]
  BY DEF Suspend, LockQueue, CheckForTimeOut, CheckStuck, IInv, Calls
<1>4. Others(t)
  BY <1>1, <1>3, GotoOthers DEF IInv, Others
<1>5. k'.waiting = k.waiting
  <2>1. CASE Suspend(t)
    <3>1. IsRecord(k)
      BY DEF Control, Controlled, Steady, Settled, Sound, Typed
    <3> QED BY <2>1, <3>1 DEF Suspend, SuspendAll, IsRecord, Parts
  <2>2. CASE ~Suspend(t)
    BY <2>2 DEF LockQueue, CheckForTimeOut, CheckStuck
  <2> QED BY <2>1, <2>2
<1>6. Loses(k, k', {})
  BY <1>5 DEF Loses
<1>7. Counted("toSend")' = Counted("toSend") /\ Counted("toReceive")' = Counted("toReceive")
  <2>1. CASE LockQueue(t)
    BY <2>1 DEF LockQueue, Counted, Lock, Unlocked
  <2>2. CASE ~LockQueue(t)
    BY <2>2 DEF Suspend, CheckForTimeOut, CheckStuck, Counted, Lock, locks
  <2> QED BY <2>1, <2>2
<1>8. SameSupply
  BY <1>1, <1>7 DEF SameSupply, Supply, QueueAssumption
<1>9. WaitersKeep
  BY <1>1, <1>2, <1>4, <1>6, <1>8, QuietKeeps
<1>10. CountedBefore'
  <2>1. CASE CheckStuck(t)
    <3> DEFINE to == IF Stuck(call[t].op) THEN "place" ELSE "unlockTxToRetry"
    <3>1. Goto(t, to) /\ call' = call
      BY <2>1 DEF CheckStuck
    <3>2. to = "place" => Supply(EventList(call[t].op))' <= Counted(EventList(call[t].op))'
      <4> SUFFICES ASSUME Stuck(call[t].op)
                   PROVE  Supply(EventList(call[t].op))' <= Counted(EventList(call[t].op))'
        OBVIOUS
      <4>1. PICK e \in EventLists : e = EventList(call[t].op) /\ Supply(e) = 0
        BY StuckSupply
      <4>2. Supply(e)' = 0 /\ Counted(e)' \in Nat
        BY <1>8, <4>1, SupplyNext DEF SameSupply
      <4>3. Supply(e)' <= Counted(e)' /\ EventList(call[t].op)' = e
        BY <3>1, <4>1, <4>2
      <4> QED BY <4>3 DEF Supply, Counted, Lock
    <3> HIDE DEF to
    <3> QED BY <1>1, <3>1, <3>2, CountedOn
  <2>2. CASE ~CheckStuck(t)
    <3>1. PICK to : Goto(t, to) /\ to # "place"
      BY <1>1, <2>2
    <3> QED BY <1>1, <3>1, CountedOn
  <2> QED BY <2>1, <2>2
<1> QED BY <1>9, <1>10

(* Back from the suspension, and a change of tasks.                        *)
LEMMA ResumeKeeps ==
  ASSUME QueueAssumption, WInv, IInv', Control', NEW t \in Workers,
         ResumeToFail(t) \/ ResumeToRetry(t) \/ ResumeToBlock(t) \/ Yield(t)
  PROVE  WaitersKeep /\ CountedBefore'
<1> USE DEF WInv, SInv
<1>1. k.current = t /\ count' = count /\ txLock' = txLock /\ rxLock' = rxLock
  <2>1. k.current = t
    BY DEF ResumeToFail, ResumeToRetry, ResumeToBlock, Yield, At, Running
  <2>2. UNCHANGED <<ring, locks>>
    BY DEF ResumeToFail, ResumeToRetry, ResumeToBlock, Yield
  <2> QED BY <2>1, <2>2 DEF ring, locks
<1>2. PICK D : Loses(k, k', D)
  <2>1. PICK D \in SUBSET Blocked(k) : Woken(k, k', D)
    BY ResumeSched
  <2> QED BY <2>1 DEF Woken, Loses
<1>3. SameSupply
  BY <1>1 DEF SameSupply, Supply, Counted, Lock
<1>4. CASE ResumeToFail(t)
  <2>1. Return(t) /\ pc[t] = "resumeToFail"
    BY <1>4 DEF ResumeToFail, At
  <2>2. Others(t) /\ pc[t] \notin Retrying
    BY <2>1, ReturnOthers DEF IInv, Retrying, Placed
  <2>3. WaitersKeep
    BY <1>1, <1>2, <1>3, <2>2, QuietKeeps
  <2> QED BY <1>1, <2>1, <2>3, CountedOn DEF Return
<1>5. CASE ResumeToRetry(t) \/ ResumeToBlock(t) \/ Yield(t)
  <2>1. Goto(t, "try") \/ Goto(t, "yield")
    BY <1>5 DEF ResumeToRetry, ResumeToBlock, Yield
  <2>2. call' = call
    BY <1>5 DEF ResumeToRetry, ResumeToBlock, Yield
  <2>3. PICK to \in {"try", "yield"} : Goto(t, to)
    BY <2>1
  <2>4. Others(t) /\ pc'[t] \in Placed \cup {"try"}
    BY <2>2, <2>3, GotoOthers DEF IInv, Others, Placed
  <2>5. WaitersKeep
    BY <1>2, <1>3, <2>2, <2>4, TriesOn
  <2> QED BY <1>1, <2>3, <2>5, CountedOn
<1> QED BY <1>4, <1>5

(* Every step.                                                             *)
LEMMA NextKeeps ==
  ASSUME QueueAssumption, WInv, [Next]_vars, SInv'
  PROVE  Listed' /\ Covered'
<1> SUFFICES WaitersKeep /\ CountedBefore'
  BY DEF WaitersKeep, Covered
<1>1. IInv' /\ Control'
  BY DEF SInv
<1>2. ASSUME NEW t \in Workers, Call(t) \/ TaskStep(t)
      PROVE  WaitersKeep /\ CountedBefore'
  <2>1. CASE \/ TrySend(t) \/ TryReceive(t) \/ TryPeek(t)
             \/ GiveUp(t) \/ PrepareToWait(t) \/ Call(t)
    BY <1>1, <2>1, TryKeeps
  <2>2. CASE Suspend(t) \/ LockQueue(t) \/ CheckForTimeOut(t) \/ CheckStuck(t)
    BY <1>1, <2>2, WaitKeeps
  <2>3. CASE Place(t)
    <3>1. k.current = t /\ Goto(t, "unlockTxToBlock")
      BY <2>3 DEF Place, At, Running
    <3>2. CountedBefore'
      BY <3>1, CountedOn DEF WInv, SInv
    <3> QED BY <1>1, <2>3, <3>2, PlaceKeeps
  <2>4. ASSUME NEW way \in Ways, UnlockTx(t, way) \/ UnlockRx(t, way)
        PROVE  WaitersKeep /\ CountedBefore'
    <3>1. k.current = t /\ (Goto(t, way.rx) \/ Goto(t, way.resume))
      BY <2>4 DEF UnlockTx, UnlockRx, At, Running
    <3>2. way.rx # "place" /\ way.resume # "place"
      BY DEF Ways, Way
    <3>3. CountedBefore'
      <4>1. PICK to : Goto(t, to) /\ to # "place"
        BY <3>1, <3>2
      <4> QED BY <3>1, <4>1, CountedOn DEF WInv, SInv
    <3> QED BY <1>1, <2>4, <3>3, UnlockKeeps
  <2>5. CASE ResumeToFail(t) \/ ResumeToRetry(t) \/ ResumeToBlock(t) \/ Yield(t)
    BY <1>1, <2>5, ResumeKeeps
  <2> QED BY <1>2, <2>1, <2>2, <2>3, <2>4, <2>5 DEF TaskStep
<1>3. CASE (\E d \in Items : IsrSend(d)) \/ IsrReceive
  BY <1>1, <1>3, HandlerAdds, AddsKeeps DEF WInv, SInv
<1>4. CASE Timer
  <2>1. UNCHANGED <<pc, call, count, txLock, rxLock>>
    BY <1>4 DEF Timer, ring, locks
  <2>2. CountedBefore'
    BY <2>1 DEF WInv, Covered, CountedBefore, Supply, Counted, Lock
  <2> QED BY <1>1, <1>4, <2>2, TimerKeeps
<1>5. CASE UNCHANGED vars
  <2>1. UNCHANGED <<k, pc, call, count, txLock, rxLock>>
    BY <1>5 DEF vars, ring, locks
  <2>2. Listed' /\ CoversAll' /\ CountedBefore'
    BY <2>1 DEF WInv, Listed, Covered, CoversAll, Covers, CountedBefore, Supply, Counted, Lock,
                Trying, InLists
  <2> QED BY <2>2 DEF WaitersKeep
<1> QED BY <1>2, <1>3, <1>4, <1>5 DEF Next

(* The invariant holds in every reachable state.                           *)
LEMMA WaitersInductive == ASSUME QueueAssumption PROVE Spec => []WInv
<1>1. Init => WInv
  <2> SUFFICES ASSUME Init PROVE WInv
    OBVIOUS
  <2>1. SInv
    BY InitHolds, InitControl DEF SInv
  <2>2. PICK lists \in ReadyLists : k = Started(lists)
    BY DEF Init
  <2>3. \A e \in EventLists : k.waiting[e] = << >>
    BY <2>2, StartedSteady DEF Starts, QueueAssumption
  <2>4. \A e \in EventLists : k.waiting[e] \in TaskList
    BY <2>1 DEF SInv, Control, Controlled, Steady, Settled, Sound, Typed
  <2>5. Listed
    BY <2>3, <2>4, ListIs DEF Listed
  <2>6. Covered
    BY <2>3 DEF Covered, CoversAll, Covers, CountedBefore, Init
  <2> QED BY <2>1, <2>5, <2>6 DEF WInv
<1>2. WInv /\ [Next]_vars => WInv'
  <2> SUFFICES ASSUME WInv, [Next]_vars PROVE WInv'
    OBVIOUS
  <2>1. SInv /\ IInv'
    BY NextFollows DEF WInv, SInv, Follows
  <2>2. SInv'
    BY <2>1, NextSched DEF SInv, SchedKeeps
  <2> QED BY <2>2, NextKeeps DEF WInv
<1> QED BY <1>1, <1>2, PTL DEF Spec

(* A task stays in the list of the waiting receivers or senders of an      *)
(* unlocked queue only if at least as many others as there are items or    *)
(* free cells are on their way to try again: whatever the order in which   *)
(* tasks and handlers send, receive, time out and wake each other,         *)
(* queue.c forgets no waiter.                                              *)
THEOREM WakeupNeverLost == ASSUME QueueAssumption PROVE Spec => []NoLostWakeup
<1>1. WInv => NoLostWakeup
  <2> SUFFICES ASSUME WInv PROVE NoLostWakeup
    OBVIOUS
  <2> USE DEF WInv, SInv
  <2>1. "toReceive" \in EventLists /\ "toSend" \in EventLists
    BY DEF QueueAssumption
  <2>2. IsFiniteSet(Workers)
    BY FS_Subset DEF QueueAssumption, TaskAssumption, Workers
  <2>3. \A t \in Task : t \notin InLists(k) => WaitingFor(k, t) = {}
    <3>1. \A e \in EventLists : k.waiting[e] \in TaskList
      BY DEF Control, Controlled, Steady, Settled, Sound, Typed
    <3>2. \A e \in EventLists : \A t : Contains(k.waiting[e], t) <=> t \in ToSet(k.waiting[e])
      BY <3>1, ListIs
    <3> QED BY <3>2 DEF InLists, WaitingFor
  <2>4. \A t \in Workers : pc[t] \in Retrying =>
          /\ pc[t] \notin {"unlockTxToFail", "unlockRxToFail", "resumeToFail"}
          /\ pc[t] # "idle"
    BY DEF Retrying, Placed
  <2>5. \A t \in Workers : pc[t] # "idle" => call[t].op \in Operations
    BY DEF IInv, Calls, CallOf
  <2>6. Trying("toReceive") \subseteq {t \in Workers : WillTry(t, {"receive", "peek"})}
    BY <2>3, <2>4, <2>5 DEF Trying, WillTry, EventList, Operations, Sending, Workers
  <2>7. Trying("toSend") \subseteq {t \in Workers : WillTry(t, Sending)}
    BY <2>3, <2>4, <2>5 DEF Trying, WillTry, EventList, Workers
  <2>8. ASSUME NEW S, NEW R \in SUBSET Workers, S \subseteq R
        PROVE  Cardinality(S) <= Cardinality(R) /\ Cardinality(S) \in Nat /\ Cardinality(R) \in Nat
    <3>1. IsFiniteSet(R) /\ IsFiniteSet(S)
      BY <2>2, <2>8, FS_Subset
    <3> QED BY <2>8, <3>1, FS_Subset, FS_CardinalityType
  <2>9. ASSUME txLock = Unlocked, k.waiting["toReceive"] # << >>
        PROVE  count <= Cardinality({t \in Workers : WillTry(t, {"receive", "peek"})})
    <3>1. Supply("toReceive") <= Cardinality(Trying("toReceive")) + Counted("toReceive")
      BY <2>1, <2>9 DEF Covered, CoversAll, Covers
    <3>2. Supply("toReceive") = count /\ Counted("toReceive") = 0
      BY <2>9 DEF Supply, Counted, Lock
    <3>3. count \in Nat
      BY <2>1, <3>2, SupplyTypes
    <3> DEFINE R == {t \in Workers : WillTry(t, {"receive", "peek"})}
    <3>4. R \in SUBSET Workers /\ Trying("toReceive") \subseteq R
      BY <2>6
    <3> HIDE DEF R
    <3>5. /\ Cardinality(Trying("toReceive")) <= Cardinality(R)
          /\ Cardinality(Trying("toReceive")) \in Nat /\ Cardinality(R) \in Nat
      BY <2>8, <3>4
    <3>6. count <= Cardinality(R)
      BY <3>1, <3>2, <3>3, <3>5
    <3> QED BY <3>6 DEF R
  <2>10. ASSUME rxLock = Unlocked, k.waiting["toSend"] # << >>
         PROVE  Capacity - count <= Cardinality({t \in Workers : WillTry(t, Sending)})
    <3>1. Supply("toSend") <= Cardinality(Trying("toSend")) + Counted("toSend")
      BY <2>1, <2>10 DEF Covered, CoversAll, Covers
    <3>2. Supply("toSend") = Capacity - count /\ Counted("toSend") = 0
      BY <2>10 DEF Supply, Counted, Lock
    <3>3. Capacity - count \in Nat
      BY <2>1, <3>2, SupplyTypes
    <3> DEFINE R == {t \in Workers : WillTry(t, Sending)}
    <3>4. R \in SUBSET Workers /\ Trying("toSend") \subseteq R
      BY <2>7
    <3> HIDE DEF R
    <3>5. /\ Cardinality(Trying("toSend")) <= Cardinality(R)
          /\ Cardinality(Trying("toSend")) \in Nat /\ Cardinality(R) \in Nat
      BY <2>8, <3>4
    <3>6. Capacity - count <= Cardinality(R)
      BY <3>1, <3>2, <3>3, <3>5
    <3> QED BY <3>6 DEF R
  <2> QED BY <2>9, <2>10 DEF NoLostWakeup
<1> QED BY <1>1, WaitersInductive, PTL

(* What the run "kernel" checks of a queue.                                *)
THEOREM QueueIsSound == ASSUME QueueAssumption PROVE Spec => []QueueSound
<1>1. TypeOK /\ NoLostWakeup /\ SchedulerSound => QueueSound
  BY DEF QueueSound
<1> QED BY <1>1, TypeCorrect, SchedulerIsSound, WakeupNeverLost, PTL


(***************************************************************************)
(* The time a call waits.  The stamp is renewed at every check, and the    *)
(* ticks that are left shrink by what had passed: together they always say *)
(* how long the caller has waited, whatever woke and delayed it in between *)
(* and wherever the counts wrapped.                                        *)
(***************************************************************************)
(* Ticks the count shows since the stamp: those since the call began to    *)
(* wait, without the missed ones and those that earlier checks took off.   *)
Gone(t) == waited[t] - k.missedTicks - (call[t].asked - call[t].ticks)
Failing == {"unlockTxToFail", "unlockRxToFail", "resumeToFail"}
MeasuredOf(t) ==
  /\ call[t].ticks <= call[t].asked
  /\ pc[t] = "idle" => waited[t] = 0
  /\ stamp[t] = Nothing => waited[t] = 0 /\ call[t].ticks = call[t].asked
  /\ stamp[t] # Nothing /\ waited[t] < call[t].asked
       => Gone(t) \in Nat /\ Passed(k, stamp[t], Gone(t))
  /\ pc[t] \in Failing => waited[t] >= call[t].asked
Measured == \A t \in Workers : MeasuredOf(t)

MInv == SInv /\ Measured

SameCall(u) == call'[u] = call[u] /\ stamp'[u] = stamp[u] /\ waited'[u] = waited[u]
SameClock ==
  k'.tick = k.tick /\ k'.overflows = k.overflows /\ k'.missedTicks = k.missedTicks

(* What is known of the numbers.                                           *)
LEMMA Numbers ==
  ASSUME QueueAssumption, SInv, NEW u \in Workers
  PROVE  /\ waited[u] \in 0..MaxDelay /\ call[u].ticks \in 0..MaxDelay
         /\ call[u].asked \in 0..MaxDelay
         /\ stamp[u] # Nothing => stamp[u] \in TimeOuts
         /\ k.missedTicks \in Nat /\ k.tick \in 0..MaxDelay /\ k.overflows \in 0..OverflowRange - 1
         /\ TickRange \in Nat /\ TickRange > 1 /\ MaxDelay = TickRange - 1
<1>1. waited[u] \in 0..MaxDelay /\ CallOf(call[u])
  BY DEF SInv, IInv, Calls
<1>2. call[u].ticks \in 0..MaxDelay /\ (stamp[u] # Nothing => stamp[u] \in TimeOuts)
  BY DEF SInv, TicksLeft, Stamps, TimeOuts
<1>3. Typed(k)
  BY DEF SInv, Control, Controlled, Steady, Settled, Sound
<1>4. /\ k.missedTicks \in Nat /\ k.tick \in 0..MaxDelay
      /\ k.overflows \in 0..OverflowRange - 1
  BY <1>3 DEF Typed
<1>5. TickRange \in Nat /\ TickRange > 1 /\ MaxDelay = TickRange - 1
  BY DEF QueueAssumption, TickAssumption, MaxDelay
<1> QED BY <1>1, <1>2, <1>4, <1>5 DEF CallOf

(* Steps during which no time is counted.                                  *)
LEMMA MeasuredStays ==
  ASSUME NEW u \in Workers, MeasuredOf(u), SameClock, SameCall(u),
         pc'[u] = "idle" => waited[u] = 0,
         pc'[u] \in Failing => waited[u] >= call[u].asked
  PROVE  MeasuredOf(u)'
<1>1. Gone(u)' = Gone(u)
  BY DEF Gone, SameClock, SameCall
<1>2. ASSUME NEW n, Passed(k, stamp[u], n) PROVE Passed(k, stamp[u], n)'
  BY <1>2 DEF Passed, SameClock, SameCall
<1> QED BY <1>1, <1>2 DEF MeasuredOf, SameCall

(* The other tasks, while t takes such a step.                             *)
LEMMA OthersStay ==
  ASSUME Measured, NEW t \in Workers, SameClock,
         \A u \in Workers \ {t} : SameCall(u) /\ pc'[u] = pc[u], MeasuredOf(t)'
  PROVE  Measured'
<1> SUFFICES ASSUME NEW u \in Workers, u # t PROVE MeasuredOf(u)'
  BY DEF Measured
<1>1. MeasuredOf(u) /\ SameCall(u) /\ pc'[u] = pc[u]
  BY DEF Measured
<1> QED BY <1>1, MeasuredStays DEF MeasuredOf

(* A step to another place of the call.                                    *)
LEMMA MeasuredGoto ==
  ASSUME SInv, Measured, NEW t \in Workers, SameClock, NEW to, Goto(t, to),
         to # "idle", to \in Failing => pc[t] \in Failing, UNCHANGED <<call, stamp, waited>>
  PROVE  Measured'
<1>1. \A u \in Workers : SameCall(u) /\ pc'[u] = IF u = t THEN to ELSE pc[u]
  BY DEF SInv, IInv, Calls, Goto, SameCall
<1>2. MeasuredOf(t)
  BY DEF Measured
<1>3. MeasuredOf(t)'
  BY <1>1, <1>2, MeasuredStays DEF MeasuredOf
<1> QED BY <1>1, <1>3, OthersStay

(* What a return leaves of the caller.                                     *)
LEMMA ReturnedCall ==
  ASSUME SInv, NEW t \in Workers, Return(t)
  PROVE  /\ pc'[t] = "idle" /\ call'[t] = NoCall /\ stamp'[t] = Nothing /\ waited'[t] = 0
         /\ \A u \in Workers \ {t} : SameCall(u) /\ pc'[u] = pc[u]
<1>1. /\ pc \in [Workers -> Steps] /\ call = [u \in Workers |-> call[u]]
      /\ stamp \in [Workers -> Stamps \cup {Nothing}] /\ waited \in [Workers -> 0..MaxDelay]
  BY DEF SInv, IInv, Calls, TicksLeft
<1> QED BY <1>1 DEF Return, Goto, SameCall

(* Outside a call nothing is measured.                                     *)
LEMMA NoneMeasured ==
  ASSUME NEW t \in Workers, pc'[t] = "idle", call'[t] = NoCall, stamp'[t] = Nothing, waited'[t] = 0
  PROVE  MeasuredOf(t)'
<1>1. call'[t].ticks = 0 /\ call'[t].asked = 0
  BY DEF NoCall
<1>2. pc'[t] \notin Failing
  BY DEF Failing
<1> QED BY <1>1, <1>2 DEF MeasuredOf

(* A return from a critical section that gave or took an item, or gave up. *)
LEMMA MeasuredReturn ==
  ASSUME SInv, Measured, NEW t \in Workers, SameClock, Return(t)
  PROVE  Measured'
  BY ReturnedCall, NoneMeasured, OthersStay

(* Waking the first waiter takes no time.                                  *)
LEMMA WakeOneClock ==
  ASSUME QueueAssumption, SInv, NEW e \in EventLists, k' = WakeOne(k, e)
  PROVE  SameClock
<1>1. Steady(k, Task)
  BY DEF SInv, Control, Controlled
<1>2. WakesFirst(k, k', e, Task)
  BY <1>1, WakeOneSteady DEF QueueAssumption
<1> QED BY <1>2 DEF WakesFirst, SameClock

(* A new call.                                                             *)
LEMMA MeasuredCall ==
  ASSUME QueueAssumption, SInv, Measured, NEW t \in Workers, Call(t)
  PROVE  Measured'
<1>1. PICK op \in Programs[t], d \in Items, w \in Waits :
        call' = [call EXCEPT ![t] =
                  [op |-> op, item |-> IF op \in Sending THEN d ELSE Nothing,
                   ticks |-> w, asked |-> w]]
  BY DEF Call
<1>2. /\ pc \in [Workers -> Steps] /\ call = [u \in Workers |-> call[u]]
      /\ stamp \in [Workers -> Stamps \cup {Nothing}]
  BY DEF SInv, IInv, Calls, TicksLeft
<1>3. /\ stamp' = [stamp EXCEPT ![t] = Nothing] /\ pc' = [pc EXCEPT ![t] = "try"]
      /\ UNCHANGED <<k, waited>> /\ pc[t] = "idle"
  BY DEF Call, Goto, At
<1>4. \A u \in Workers \ {t} : SameCall(u) /\ pc'[u] = pc[u]
  BY <1>1, <1>2, <1>3 DEF SameCall
<1>5. /\ call'[t].ticks = w /\ call'[t].asked = w /\ stamp'[t] = Nothing /\ pc'[t] = "try"
  BY <1>1, <1>2, <1>3
<1>6. waited'[t] = 0
  BY <1>3 DEF Measured, MeasuredOf
<1>7. w \in Int
  BY DEF QueueAssumption
<1>8. MeasuredOf(t)'
  BY <1>5, <1>6, <1>7 DEF MeasuredOf, Failing
<1>9. SameClock
  BY <1>3 DEF SameClock
<1> QED BY <1>4, <1>8, <1>9, OthersStay

(* The first stamp of a call.                                              *)
LEMMA MeasuredPrepare ==
  ASSUME QueueAssumption, SInv, Measured, NEW t \in Workers, PrepareToWait(t)
  PROVE  Measured'
<1>1. /\ pc \in [Workers -> Steps] /\ stamp \in [Workers -> Stamps \cup {Nothing}]
  BY DEF SInv, IInv, Calls, TicksLeft
<1>2. /\ stamp' = [stamp EXCEPT ![t] = IF @ = Nothing THEN SetTimeOutState(k) ELSE @]
      /\ pc' = [pc EXCEPT ![t] = "suspend"] /\ UNCHANGED <<k, call, waited>>
      /\ At(t, "try")
  BY DEF PrepareToWait, Goto
<1>3. SameClock
  BY <1>2 DEF SameClock
<1>4. \A u \in Workers \ {t} : SameCall(u) /\ pc'[u] = pc[u]
  BY <1>1, <1>2 DEF SameCall
<1>5. MeasuredOf(t) /\ pc'[t] = "suspend" /\ "suspend" \notin Failing
  BY <1>1, <1>2 DEF Measured, Failing
<1>6. CASE stamp[t] # Nothing
  <2>1. SameCall(t)
    BY <1>1, <1>2, <1>6 DEF SameCall
  <2>2. MeasuredOf(t)'
    BY <1>3, <1>5, <2>1, MeasuredStays
  <2> QED BY <1>3, <1>4, <2>2, OthersStay
<1>7. CASE stamp[t] = Nothing
  <2>1. stamp'[t] = SetTimeOutState(k)
    BY <1>1, <1>2, <1>7
  <2>2. k.missedTicks = 0
    <3>1. k.suspended = 0
      BY <1>2, AtStep DEF SInv, Locking
    <3> QED BY <3>1 DEF SInv, Control, Controlled, Steady, Settled
  <2>3. waited[t] = 0 /\ call[t].ticks = call[t].asked
    BY <1>5, <1>7 DEF MeasuredOf
  <2>4. Gone(t) = 0
    BY <2>2, <2>3, Numbers DEF Gone
  <2>5. Gone(t)' = 0
    BY <1>2, <2>4 DEF Gone
  <2>6. Passed(k, stamp[t], 0)'
    BY <1>2, <2>1, Numbers DEF Passed, SetTimeOutState
  <2>7. MeasuredOf(t)'
    BY <1>2, <1>5, <2>3, <2>5, <2>6, Numbers DEF MeasuredOf
  <2> QED BY <1>3, <1>4, <2>7, OthersStay
<1> QED BY <1>6, <1>7

(* The check.  While ticks are left the stamp tells exactly what passed;   *)
(* it is taken off and the stamp renewed.  When it says that the time is   *)
(* over, as many ticks as were asked for have passed.                      *)
LEMMA MeasuredCheck ==
  ASSUME QueueAssumption, SInv, Measured, NEW t \in Workers, CheckForTimeOut(t)
  PROVE  Measured'
<1> DEFINE n == call[t].ticks
           e == Gone(t)
<1>1. /\ pc \in [Workers -> Steps] /\ stamp \in [Workers -> Stamps \cup {Nothing}]
      /\ call = [u \in Workers |-> call[u]] /\ CallOf(call[t])
  BY DEF SInv, IInv, Calls, TicksLeft
<1>2. At(t, "checkTime") /\ UNCHANGED <<k, waited>>
  BY DEF CheckForTimeOut
<1>3. stamp[t] # Nothing /\ stamp[t] \in TimeOuts /\ n \in 1..MaxDelay
  <2>1. pc[t] \in Waiting
    BY <1>2 DEF At, Waiting
  <2> QED BY <2>1, Numbers DEF SInv, TicksLeft
<1>4. SameClock
  BY <1>2 DEF SameClock
<1>5. MeasuredOf(t)
  BY DEF Measured
<1>6. waited[t] < call[t].asked => /\ e \in 0..TickRange /\ Passed(k, stamp[t], e)
                                   /\ (TimedOut(k, stamp[t], n) <=> e >= n)
  <2> SUFFICES ASSUME waited[t] < call[t].asked
               PROVE  /\ e \in 0..TickRange /\ Passed(k, stamp[t], e)
                      /\ (TimedOut(k, stamp[t], n) <=> e >= n)
    OBVIOUS
  <2>1. e \in Nat /\ Passed(k, stamp[t], e)
    BY <1>3, <1>5 DEF MeasuredOf
  <2>2. e \in 0..TickRange
    BY <1>5, <2>1, Numbers DEF MeasuredOf, Gone
  <2> HIDE DEF e, n
  <2>3. TickAssumption /\ k.tick \in 0..MaxDelay /\ k.overflows \in 0..OverflowRange - 1
    BY Numbers DEF QueueAssumption
  <2>4. TimedOut(k, stamp[t], n) <=> e >= n
    BY <1>3, <2>1, <2>2, <2>3, StampsExact
  <2> QED BY <2>1, <2>2, <2>4
<1>7. CASE TimedOut(k, stamp[t], n)
  <2>1. UNCHANGED <<call, stamp>> /\ Goto(t, "unlockTxToFail")
    BY <1>7 DEF CheckForTimeOut
  <2>2. \A u \in Workers : SameCall(u) /\ pc'[u] = IF u = t THEN "unlockTxToFail" ELSE pc[u]
    BY <1>1, <1>2, <2>1 DEF SameCall, Goto
  <2>3. waited[t] >= call[t].asked
    BY <1>5, <1>6, <1>7, Numbers DEF Gone, MeasuredOf
  <2>4. MeasuredOf(t)'
    BY <1>4, <1>5, <2>2, <2>3, MeasuredStays
  <2> QED BY <1>4, <2>2, <2>4, OthersStay
<1>8. CASE ~TimedOut(k, stamp[t], n)
  <2> DEFINE m == ElapsedSince(k, stamp[t])
  <2>1. /\ call' = [call EXCEPT ![t].ticks = @ - m]
        /\ stamp' = [stamp EXCEPT ![t] = SetTimeOutState(k)]
        /\ pc' = [pc EXCEPT ![t] = "checkStuck"]
    BY <1>8 DEF CheckForTimeOut, Goto
  <2>2. /\ \A u \in Workers \ {t} : SameCall(u) /\ pc'[u] = pc[u]
        /\ stamp'[t] = SetTimeOutState(k) /\ pc'[t] = "checkStuck"
        /\ call'[t].ticks = n - m /\ call'[t].asked = call[t].asked
    BY <1>1, <1>2, <2>1 DEF SameCall, CallOf
  <2>3. m \in Nat
    <3>1. k.tick \in Int /\ stamp[t].tick \in Int /\ TickRange \in Nat \ {0}
      BY <1>3, Numbers DEF TimeOuts
    <3> QED BY <3>1 DEF ElapsedSince
  <2>4. SetTimeOutState(k) # Nothing
    BY StampOf DEF SInv
  <2>5. waited[t] < call[t].asked => m = e
    <3> SUFFICES ASSUME waited[t] < call[t].asked PROVE m = e
      OBVIOUS
    <3>1. e \in 0..TickRange /\ Passed(k, stamp[t], e) /\ e < n
      BY <1>3, <1>6, <1>8
    <3>2. m = (k.tick - stamp[t].tick) % TickRange
      BY DEF ElapsedSince
    <3> HIDE DEF e, n, m
    <3>3. e \in 0..TickRange - 1
      BY <1>3, <3>1, Numbers
    <3>4. k.tick - stamp[t].tick = e \/ k.tick - stamp[t].tick = e - TickRange
      BY <1>3, <3>1, Numbers DEF Passed, TimeOuts
    <3> DEFINE R == TickRange
    <3>5. R \in Nat /\ R > 1 /\ e \in 0..R - 1
      BY <3>3, Numbers
    <3> HIDE DEF R
    <3>6. e % R = e /\ (e - R) % R = e
      BY <3>5
    <3> QED BY <3>2, <3>4, <3>6 DEF R
  <2>6. waited[t] < call[t].asked => Gone(t)' = 0
    BY <1>2, <1>3, <2>2, <2>3, <2>5, Numbers DEF Gone
  <2>7. Passed(k, stamp[t], 0)'
    BY <1>2, <2>2, Numbers DEF Passed, SetTimeOutState
  <2> HIDE DEF m, e
  <2>8. MeasuredOf(t)'
    BY <1>2, <1>3, <1>5, <2>2, <2>3, <2>4, <2>6, <2>7, Numbers DEF MeasuredOf, Failing
  <2> QED BY <1>4, <2>2, <2>8, OthersStay
<1> QED BY <1>7, <1>8

(* The end of a suspension counts the ticks that were missed.              *)
LEMMA ResumeMeasured ==
  ASSUME QueueAssumption, SInv, Measured, NEW t \in Workers, NEW from \in Locking, At(t, from),
         k' = ResumeAll(k), NEW u \in Workers, SameCall(u),
         pc'[u] = "idle" => waited[u] = 0,
         pc'[u] \in Failing => waited[u] >= call[u].asked
  PROVE  MeasuredOf(u)'
<1> DEFINE e == Gone(u)
           n == k.missedTicks
<1>1. Goes(k, k', n) /\ k'.missedTicks = 0
  <2>1. Steady(k, Task) /\ k.suspended = 1
    BY AtStep DEF SInv, Control, Controlled
  <2>2. Resumes(k, k', Task)
    BY <2>1, ResumeAllSteady DEF QueueAssumption
  <2> QED BY <2>2 DEF Resumes
<1>2. MeasuredOf(u)
  BY DEF Measured
<1>3. ASSUME stamp[u] # Nothing, waited[u] < call[u].asked
      PROVE  Gone(u)' \in Nat /\ Passed(k, stamp[u], Gone(u))'
  <2>1. e \in Nat /\ Passed(k, stamp[u], e)
    BY <1>2, <1>3 DEF MeasuredOf
  <2>2. n \in Nat /\ e + n <= TickRange /\ Gone(u)' = e + n
    BY <1>1, <1>2, <1>3, Numbers DEF MeasuredOf, Gone, SameCall
  <2>3. stamp[u] \in TimeOuts
    BY <1>3, Numbers
  <2> HIDE DEF e, n
  <2>4. Passed(k', stamp[u], e + n)
    BY <1>1, <2>1, <2>2, <2>3 DEF Goes
  <2>5. Passed(k', stamp'[u], e + n)
    BY <2>4 DEF Passed, SameCall
  <2> QED BY <2>1, <2>2, <2>5
<1> HIDE DEF e, n
<1> QED BY <1>2, <1>3 DEF MeasuredOf, SameCall

(* The timer: a tick is counted, or missed.                                *)
LEMMA TimerMeasured ==
  ASSUME QueueAssumption, SInv, Measured, Timer
  PROVE  Measured'
<1> SUFFICES ASSUME NEW u \in Workers PROVE MeasuredOf(u)'
  BY DEF Measured
<1> DEFINE e == Gone(u)
<1>1. /\ k' = TimerIsr(k) /\ UNCHANGED <<pc, call, stamp>>
      /\ waited'[u] = IF stamp[u] # Nothing /\ waited[u] < call[u].asked
                      THEN waited[u] + 1 ELSE waited[u]
  BY DEF Timer
<1>2. Strikes(k, k', Task)
  BY <1>1, TimerIsrSettled DEF QueueAssumption, SInv, Control, Controlled, Steady
<1>3. MeasuredOf(u)
  BY DEF Measured
<1>4. pc[u] = "idle" => call[u].asked = 0 /\ waited[u] = 0
  BY <1>3 DEF MeasuredOf, SInv, IInv, Calls, NoCall
<1>5. ASSUME stamp[u] # Nothing, waited[u] + 1 < call[u].asked
      PROVE  Gone(u)' \in Nat /\ Passed(k, stamp[u], Gone(u))'
  <2>1. e \in Nat /\ Passed(k, stamp[u], e)
    BY <1>3, <1>5, Numbers DEF MeasuredOf
  <2>2. stamp[u] \in TimeOuts /\ waited'[u] = waited[u] + 1
    BY <1>1, <1>5, Numbers
  <2>3. CASE k.suspended = 0
    <3>1. k.missedTicks = 0
      BY <2>3 DEF SInv, Control, Controlled, Steady, Settled
    <3>2. k'.missedTicks = 0
      BY <1>2, <2>3 DEF Strikes, Keeps, Settled
    <3>3. Later(k, k', 1)
      BY <1>2, <2>3 DEF Strikes
    <3>4. Gone(u)' = e + 1 /\ e + 1 <= TickRange
      BY <1>1, <1>3, <1>5, <2>2, <3>1, <3>2, Numbers DEF Gone, MeasuredOf
    <3> HIDE DEF e
    <3>5. Passed(k', stamp[u], e + 1)
      BY <2>1, <2>2, <3>3, <3>4 DEF Later
    <3>6. Passed(k', stamp'[u], e + 1)
      BY <1>1, <3>5 DEF Passed
    <3> QED BY <2>1, <3>4, <3>6
  <2>4. CASE k.suspended # 0
    <3>1. /\ k'.tick = k.tick /\ k'.overflows = k.overflows
          /\ k'.missedTicks = k.missedTicks + 1
      BY <1>2, <2>4 DEF Strikes
    <3>2. Gone(u)' = e
      BY <1>1, <2>2, <3>1, Numbers DEF Gone
    <3> HIDE DEF e
    <3>3. Passed(k', stamp'[u], e)
      BY <1>1, <2>1, <3>1 DEF Passed
    <3> QED BY <2>1, <3>2, <3>3
  <2> QED BY <2>3, <2>4
<1> HIDE DEF e
<1> QED BY <1>1, <1>3, <1>4, <1>5, Numbers DEF MeasuredOf

(* The steps of a call before and after it is in the lists.                *)
LEMMA WaitMeasured ==
  ASSUME QueueAssumption, SInv, Measured, NEW t \in Workers,
         Suspend(t) \/ LockQueue(t) \/ CheckStuck(t) \/ Place(t) \/ Yield(t)
  PROVE  Measured'
<1>1. PICK to \in {"lock", "checkTime", "place", "unlockTxToRetry", "unlockTxToBlock", "try"} :
        Goto(t, to)
  BY DEF Suspend, LockQueue, CheckStuck, Place, Yield
<1>2. to # "idle" /\ to \notin Failing /\ UNCHANGED <<call, stamp, waited>>
  BY <1>1 DEF Failing, Suspend, LockQueue, CheckStuck, Place, Yield
<1>3. Steady(k, Task)
  BY DEF SInv, Control, Controlled
<1>4. SameClock
  <2>1. CASE Suspend(t)
    <3>1. k' = SuspendAll(k)
      BY <2>1 DEF Suspend
    <3>2. Settled(k, Task)
      BY <1>3 DEF Steady
    <3> QED BY <3>1, <3>2, SuspendAllSettled DEF SameClock
  <2>2. CASE LockQueue(t) \/ CheckStuck(t)
    BY <2>2 DEF LockQueue, CheckStuck, SameClock
  <2>3. CASE Place(t)
    <3>1. Places(k, k', EventList(call[t].op), call[t].ticks)
      BY <2>3, PlaceControl DEF SInv, IInv
    <3> QED BY <3>1 DEF Places, Still, SameClock
  <2>4. CASE Yield(t)
    <3>1. k' = SwitchContext(k) /\ At(t, "yield")
      BY <2>4 DEF Yield
    <3>2. k.suspended = 0
      BY <3>1, AtStep DEF SInv, Locking
    <3>3. /\ Sound(k, Task) /\ Timed(k) /\ IdleReady(k) /\ k.pending = << >>
          /\ k.missedTicks = 0
      BY <1>3, <3>2 DEF Steady, Settled
    <3> DEFINE r == SwitchContext(k)
    <3>4. Steady(r, Task) /\ r.suspended = 0 /\ r.tick = k.tick /\ r.overflows = k.overflows
      BY <3>2, <3>3, SwitchSteady DEF QueueAssumption
    <3> HIDE DEF r
    <3>5. r.missedTicks = 0
      BY <3>4 DEF Steady, Settled
    <3> QED BY <3>1, <3>3, <3>4, <3>5 DEF SameClock, r
  <2> QED BY <2>1, <2>2, <2>3, <2>4
<1> QED BY <1>1, <1>2, <1>4, MeasuredGoto

(* Unlocking the queue.                                                    *)
LEMMA UnlockMeasured ==
  ASSUME QueueAssumption, SInv, Measured, NEW t \in Workers, NEW way \in Ways,
         UnlockTx(t, way) \/ UnlockRx(t, way)
  PROVE  Measured'
<1>1. SameClock
  BY UnlockSched DEF Unlocks, SameClock
<1>2. PICK to : Goto(t, to) /\ to # "idle" /\ (to \in Failing => pc[t] \in Failing)
  BY DEF UnlockTx, UnlockRx, At, Ways, Way, Failing
<1>3. UNCHANGED <<call, stamp, waited>>
  BY DEF UnlockTx, UnlockRx
<1> QED BY <1>1, <1>2, <1>3, MeasuredGoto

(* The end of the suspension.                                              *)
LEMMA ResumesMeasured ==
  ASSUME QueueAssumption, SInv, Measured, NEW t \in Workers,
         ResumeToFail(t) \/ ResumeToRetry(t) \/ ResumeToBlock(t)
  PROVE  Measured'
<1>1. CASE ResumeToFail(t)
  <2>1. At(t, "resumeToFail") /\ "resumeToFail" \in Locking /\ k' = ResumeAll(k) /\ Return(t)
    BY <1>1 DEF ResumeToFail, Locking
  <2>2. /\ pc'[t] = "idle" /\ call'[t] = NoCall /\ stamp'[t] = Nothing /\ waited'[t] = 0
        /\ \A u \in Workers \ {t} : SameCall(u) /\ pc'[u] = pc[u]
    BY <2>1, ReturnedCall
  <2>3. MeasuredOf(t)'
    BY <2>2, NoneMeasured
  <2>4. ASSUME NEW u \in Workers \ {t} PROVE MeasuredOf(u)'
    <3>1. MeasuredOf(u) /\ SameCall(u) /\ pc'[u] = pc[u]
      BY <2>2 DEF Measured
    <3> QED BY <2>1, <3>1, ResumeMeasured DEF MeasuredOf
  <2> QED BY <2>3, <2>4 DEF Measured
<1>2. CASE ResumeToRetry(t) \/ ResumeToBlock(t)
  <2>1. PICK from \in Locking : At(t, from) /\ k' = ResumeAll(k)
    BY <1>2 DEF ResumeToRetry, ResumeToBlock, Locking
  <2>2. PICK to \in {"try", "yield"} : Goto(t, to)
    BY <1>2 DEF ResumeToRetry, ResumeToBlock
  <2>3. UNCHANGED <<call, stamp, waited>>
    BY <1>2 DEF ResumeToRetry, ResumeToBlock
  <2>4. \A u \in Workers : SameCall(u) /\ pc'[u] = IF u = t THEN to ELSE pc[u]
    BY <2>2, <2>3 DEF SInv, IInv, Calls, Goto, SameCall
  <2>5. to # "idle" /\ to \notin Failing
    BY DEF Failing
  <2>6. ASSUME NEW u \in Workers PROVE MeasuredOf(u)'
    <3>1. MeasuredOf(u)
      BY DEF Measured
    <3> QED BY <2>1, <2>4, <2>5, <3>1, ResumeMeasured DEF MeasuredOf
  <2> QED BY <2>6 DEF Measured
<1> QED BY <1>1, <1>2

(* Every step.                                                             *)
LEMMA NextMeasured ==
  ASSUME QueueAssumption, SInv, Measured, [Next]_vars
  PROVE  Measured'
<1>1. ASSUME NEW t \in Workers, Call(t) \/ TaskStep(t) PROVE Measured'
  <2>1. CASE TrySend(t) \/ TryReceive(t) \/ TryPeek(t)
    <3>1. "toReceive" \in EventLists /\ "toSend" \in EventLists
      BY DEF QueueAssumption
    <3>2. Return(t) /\ (k' = WakeOne(k, "toReceive") \/ k' = WakeOne(k, "toSend"))
      BY <2>1 DEF TrySend, TryReceive, TryPeek
    <3> QED BY <3>1, <3>2, WakeOneClock, MeasuredReturn
  <2>2. CASE GiveUp(t)
    BY <2>2, MeasuredReturn DEF GiveUp, SameClock
  <2>3. CASE Call(t) \/ PrepareToWait(t) \/ CheckForTimeOut(t)
    BY <2>3, MeasuredCall, MeasuredPrepare, MeasuredCheck
  <2>4. CASE Suspend(t) \/ LockQueue(t) \/ CheckStuck(t) \/ Place(t) \/ Yield(t)
    BY <2>4, WaitMeasured
  <2>5. CASE \E way \in Ways : UnlockTx(t, way) \/ UnlockRx(t, way)
    BY <2>5, UnlockMeasured
  <2>6. CASE ResumeToFail(t) \/ ResumeToRetry(t) \/ ResumeToBlock(t)
    BY <2>6, ResumesMeasured
  <2> QED BY <1>1, <2>1, <2>2, <2>3, <2>4, <2>5, <2>6 DEF TaskStep
<1>2. CASE (\E d \in Items : IsrSend(d)) \/ IsrReceive
  <2>1. "toReceive" \in EventLists /\ "toSend" \in EventLists
    BY DEF QueueAssumption
  <2>2. UNCHANGED <<pc, call, stamp, waited>>
        /\ (k' = k \/ k' = WakeOne(k, "toReceive") \/ k' = WakeOne(k, "toSend"))
    BY <1>2 DEF IsrSend, IsrReceive
  <2>3. SameClock
    <3>1. k' = k => SameClock
      BY DEF SameClock
    <3> QED BY <2>1, <2>2, <3>1, WakeOneClock
  <2>4. ASSUME NEW u \in Workers PROVE MeasuredOf(u)'
    <3>1. MeasuredOf(u) /\ SameCall(u) /\ pc'[u] = pc[u]
      BY <2>2 DEF Measured, SameCall
    <3> QED BY <2>3, <3>1, MeasuredStays DEF MeasuredOf
  <2> QED BY <2>4 DEF Measured
<1>3. CASE Timer
  BY <1>3, TimerMeasured
<1>4. CASE UNCHANGED vars
  BY <1>4 DEF vars, Measured, MeasuredOf, Gone, Passed
<1> QED BY <1>1, <1>2, <1>3, <1>4 DEF Next

(* The measure holds in every reachable state.                             *)
LEMMA MeasuredInductive == ASSUME QueueAssumption PROVE Spec => []MInv
<1>1. Init => Measured
  BY DEF Init, Measured, MeasuredOf, NoCall, Failing
<1>2. MInv /\ SInv' /\ [Next]_vars => MInv'
  BY NextMeasured DEF MInv
<1> QED BY <1>1, <1>2, SchedInductive, PTL DEF Spec, MInv

(* A call with a block time fails only after that many ticks, whatever     *)
(* woke and delayed the caller in between and wherever the tick count      *)
(* wrapped: xQueueGenericSend and xQueueGenericReceive with                *)
(* xTaskCheckForTimeOut, for every block time and width of the count.      *)
THEOREM FailsOnlyInTime == ASSUME QueueAssumption PROVE Spec => FailsInTime
<1>1. MInv => FailsLate
  <2> SUFFICES ASSUME MInv, NEW t \in Workers, ResumeToFail(t)
               PROVE  waited[t] >= call[t].asked
    BY DEF FailsLate
  <2>1. pc[t] \in Failing
    BY DEF ResumeToFail, At, Failing
  <2> QED BY <2>1 DEF MInv, Measured, MeasuredOf
<1> QED BY <1>1, MeasuredInductive, PTL DEF Spec, FailsInTime
===============================================================================
