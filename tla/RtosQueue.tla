------------------------------- MODULE RtosQueue -------------------------------
(***************************************************************************)
(* kernel/queue.c: a queue of fixed-size items, used by tasks, which may   *)
(* wait with a time-out, and by interrupt handlers, which may not.  Every  *)
(* critical section of the code is one action; between two of them the     *)
(* timer and other handlers may strike.  A task that has to wait suspends  *)
(* the scheduler and locks the queue, so that handlers leave the event     *)
(* lists alone and count in txLock and rxLock what they did; unlocking     *)
(* wakes as many waiters.                                                  *)
(*                                                                         *)
(* lwIP's mailboxes and semaphores and the driver's locks are such queues. *)
(***************************************************************************)
EXTENDS Kernel

CONSTANTS
  Items,      \* what is sent
  Nothing,    \* what a client has before its first receive
  Isr,        \* the client that stands for the interrupt handlers
  Capacity,   \* uxLength
  Programs,   \* the operations each task may call: a subset of Operations
  Waits,      \* the block times used, in ticks; 0 does not block
  MaxMissed,  \* bound on the ticks during one suspension of the scheduler
  MaxLocked   \* bound on the operations of handlers while the queue is locked

Operations == {"send", "sendToFront", "receive", "peek"}
Sending == {"send", "sendToFront"}
Workers == Task \ {Idle}
Unlocked == -1

QueueAssumption ==
  /\ TaskAssumption /\ TickAssumption
  /\ Capacity \in Nat \ {0}
  /\ Nothing \notin Items /\ Isr \notin Task
  /\ Nothing \notin [overflows : 0..OverflowRange - 1, tick : 0..MaxDelay]
  /\ Programs \in [Workers -> SUBSET Operations]
  /\ Waits \subseteq 0..MaxDelay
  /\ EventLists = {"toSend", "toReceive"}
  /\ MaxLocked \in Nat

VARIABLES
  k,        \* the scheduler, see Kernel
  buf,      \* the storage area, one cell for each item
  writeTo,  \* pcWriteTo, as the index of a cell
  readFrom, \* pcReadFrom: the cell before the next one to read
  count,    \* uxMessagesWaiting
  txLock, rxLock,
  pc,       \* where each worker is in its call; "idle" outside
  call,     \* the operation, the item and the ticks left to wait
  stamp,    \* xTimeOut; Nothing until it is set
  got,      \* the last item each client received
  waited    \* ticks since each worker set its time-out, up to what it asked

ring == <<buf, writeTo, readFrom, count>>
locks == <<txLock, rxLock>>
vars == <<k, ring, locks, pc, call, stamp, got, waited>>

NoCall == [op |-> "none", item |-> Nothing, ticks |-> 0, asked |-> 0]

Init ==
  /\ \E lists \in ReadyLists : k = Started(lists)
  /\ buf = [i \in 0..Capacity - 1 |-> Nothing]
  /\ writeTo = 0 /\ readFrom = Capacity - 1 /\ count = 0
  /\ txLock = Unlocked /\ rxLock = Unlocked
  /\ pc = [t \in Workers |-> "idle"]
  /\ call = [t \in Workers |-> NoCall]
  /\ stamp = [t \in Workers |-> Nothing]
  /\ got = [c \in Workers \cup {Isr} |-> Nothing]
  /\ waited = [t \in Workers |-> 0]

-----------------------------------------------------------------------------
After(i) == (i + 1) % Capacity
Before(i) == (i + Capacity - 1) % Capacity
IsFull == count = Capacity
IsEmpty == count = 0

CopyToBack(d) ==
  /\ buf' = [buf EXCEPT ![writeTo] = d]
  /\ writeTo' = After(writeTo)
  /\ count' = count + 1
  /\ UNCHANGED readFrom

(* Mutant: the item goes where the next read is, not in front of it.       *)
CopyToFrontLate(d) ==
  /\ buf' = [buf EXCEPT ![After(readFrom)] = d]
  /\ readFrom' = Before(readFrom)
  /\ count' = count + 1
  /\ UNCHANGED writeTo

CopyToFront(d) ==
  /\ buf' = [buf EXCEPT ![readFrom] = d]
  /\ readFrom' = Before(readFrom)
  /\ count' = count + 1
  /\ UNCHANGED writeTo

CopyDataToQueue(op, d) == IF op = "send" THEN CopyToBack(d) ELSE CopyToFront(d)

CopyDataFromQueue(c) == got' = [got EXCEPT ![c] = buf[After(readFrom)]]

TakeItem(c) ==
  /\ CopyDataFromQueue(c)
  /\ readFrom' = After(readFrom)
  /\ count' = count - 1
  /\ UNCHANGED <<buf, writeTo>>

-----------------------------------------------------------------------------
Running(t) == k.current = t
At(t, step) == Running(t) /\ pc[t] = step
Goto(t, step) == pc' = [pc EXCEPT ![t] = step]
EventList(op) == IF op \in Sending THEN "toSend" ELSE "toReceive"
Stuck(op) == IF op \in Sending THEN IsFull ELSE IsEmpty

Call(t) ==
  /\ At(t, "idle")
  /\ \E op \in Programs[t], d \in Items, w \in Waits :
       call' = [call EXCEPT ![t] =
                  [op |-> op, item |-> IF op \in Sending THEN d ELSE Nothing,
                   ticks |-> w, asked |-> w]]
  /\ stamp' = [stamp EXCEPT ![t] = Nothing]
  /\ Goto(t, "try")
  /\ UNCHANGED <<k, ring, locks, got, waited>>

Return(t) ==
  /\ Goto(t, "idle")
  /\ waited' = [waited EXCEPT ![t] = 0]
  /\ call' = [call EXCEPT ![t] = NoCall]
  /\ stamp' = [stamp EXCEPT ![t] = Nothing]

(* The first critical section of xQueueGenericSend and of                  *)
(* xQueueGenericReceive: the operation, if it is possible.                 *)
TrySend(t) ==
  /\ At(t, "try") /\ call[t].op \in Sending /\ ~IsFull
  /\ CopyDataToQueue(call[t].op, call[t].item)
  /\ k' = WakeOne(k, "toReceive")
  /\ Return(t)
  /\ UNCHANGED <<locks, got>>

TryReceive(t) ==
  /\ At(t, "try") /\ call[t].op = "receive" /\ ~IsEmpty
  /\ TakeItem(t)
  /\ k' = WakeOne(k, "toSend")
  /\ Return(t)
  /\ UNCHANGED locks

(* A peek leaves the item, and passes the wake-up on.                      *)
TryPeek(t) ==
  /\ At(t, "try") /\ call[t].op = "peek" /\ ~IsEmpty
  /\ CopyDataFromQueue(t)
  /\ k' = WakeOne(k, "toReceive")
  /\ Return(t)
  /\ UNCHANGED <<ring, locks>>

GiveUp(t) ==
  /\ At(t, "try") /\ Stuck(call[t].op) /\ call[t].ticks = 0
  /\ Return(t)
  /\ UNCHANGED <<k, ring, locks, got>>

PrepareToWait(t) ==
  /\ At(t, "try") /\ Stuck(call[t].op) /\ call[t].ticks > 0
  /\ stamp' = [stamp EXCEPT ![t] = IF @ = Nothing THEN SetTimeOutState(k) ELSE @]
  /\ Goto(t, "suspend")
  /\ UNCHANGED <<k, ring, locks, call, got, waited>>

Suspend(t) ==
  /\ At(t, "suspend")
  /\ k' = SuspendAll(k)
  /\ Goto(t, "lock")
  /\ UNCHANGED <<ring, locks, call, stamp, got, waited>>

LockQueue(t) ==
  /\ At(t, "lock")
  /\ rxLock' = IF rxLock = Unlocked THEN 0 ELSE rxLock
  /\ txLock' = IF txLock = Unlocked THEN 0 ELSE txLock
  /\ Goto(t, "checkTime")
  /\ UNCHANGED <<k, ring, call, stamp, got, waited>>

(* Mutant: the ticks left are reduced but the stamp is not renewed.        *)
CheckForTimeOutTwice(t) ==
  /\ At(t, "checkTime")
  /\ IF TimedOut(k, stamp[t], call[t].ticks)
     THEN /\ Goto(t, "unlockTxToFail")
          /\ UNCHANGED call
     ELSE /\ Goto(t, "checkStuck")
          /\ call' = [call EXCEPT ![t].ticks = @ - ElapsedSince(k, stamp[t])]
  /\ UNCHANGED <<k, ring, locks, stamp, got, waited>>

CheckForTimeOut(t) ==
  /\ At(t, "checkTime")
  /\ IF TimedOut(k, stamp[t], call[t].ticks)
     THEN /\ Goto(t, "unlockTxToFail")
          /\ UNCHANGED <<call, stamp>>
     ELSE /\ Goto(t, "checkStuck")
          /\ call' = [call EXCEPT ![t].ticks = @ - ElapsedSince(k, stamp[t])]
          /\ stamp' = [stamp EXCEPT ![t] = SetTimeOutState(k)]
  /\ UNCHANGED <<k, ring, locks, got, waited>>

CheckStuck(t) ==
  /\ At(t, "checkStuck")
  /\ Goto(t, IF Stuck(call[t].op) THEN "place" ELSE "unlockTxToRetry")
  /\ UNCHANGED <<k, ring, locks, call, stamp, got, waited>>

(* With the scheduler suspended and the queue locked no handler touches    *)
(* the lists this changes.                                                 *)
Place(t) ==
  /\ At(t, "place")
  /\ k' = PlaceOnEventList(k, EventList(call[t].op), call[t].ticks)
  /\ Goto(t, "unlockTxToBlock")
  /\ UNCHANGED <<ring, locks, call, stamp, got, waited>>

(* prvUnlockQueue: one waiter for each item that came or went, as long as  *)
(* there are any.                                                          *)
WakeNext(s, e) ==
  [RemoveFromEventList(s, e) EXCEPT !.missedYield = @ \/ UnblocksHigher(s, e)]

UnlockList(s, e, n) ==
  LET m == IF n < Len(s.waiting[e]) THEN n ELSE Len(s.waiting[e])
      Wake(u) == WakeNext(u, e)
  IN Times(m, Wake, s)

Way(tx, rx, resume) == [tx |-> tx, rx |-> rx, resume |-> resume]
Ways == {Way("unlockTxToFail", "unlockRxToFail", "resumeToFail"),
         Way("unlockTxToRetry", "unlockRxToRetry", "resumeToRetry"),
         Way("unlockTxToBlock", "unlockRxToBlock", "resumeToBlock")}

UnlockTx(t, way) ==
  /\ At(t, way.tx)
  /\ k' = UnlockList(k, "toReceive", txLock)
  /\ txLock' = Unlocked
  /\ Goto(t, way.rx)
  /\ UNCHANGED <<ring, rxLock, call, stamp, got, waited>>

(* Mutant: unlocking forgets the items that were taken meanwhile.          *)
UnlockRxSilent(t, way) ==
  /\ At(t, way.rx)
  /\ rxLock' = Unlocked
  /\ Goto(t, way.resume)
  /\ UNCHANGED <<k, ring, txLock, call, stamp, got, waited>>

UnlockRx(t, way) ==
  /\ At(t, way.rx)
  /\ k' = UnlockList(k, "toSend", rxLock)
  /\ rxLock' = Unlocked
  /\ Goto(t, way.resume)
  /\ UNCHANGED <<ring, txLock, call, stamp, got, waited>>

ResumeToFail(t) ==
  /\ At(t, "resumeToFail")
  /\ k' = ResumeAll(k)
  /\ Return(t)
  /\ UNCHANGED <<ring, locks, got>>

ResumeToRetry(t) ==
  /\ At(t, "resumeToRetry")
  /\ k' = ResumeAll(k)
  /\ Goto(t, "try")
  /\ UNCHANGED <<ring, locks, call, stamp, got, waited>>

ResumeToBlock(t) ==
  /\ At(t, "resumeToBlock")
  /\ k' = ResumeAll(k)
  /\ Goto(t, IF AlreadyYielded(k) THEN "try" ELSE "yield")
  /\ UNCHANGED <<ring, locks, call, stamp, got, waited>>

Yield(t) ==
  /\ At(t, "yield")
  /\ k' = SwitchContext(k)
  /\ Goto(t, "try")
  /\ UNCHANGED <<ring, locks, call, stamp, got, waited>>

TaskStep(t) ==
  \/ TrySend(t) \/ TryReceive(t) \/ TryPeek(t) \/ GiveUp(t) \/ PrepareToWait(t)
  \/ Suspend(t) \/ LockQueue(t) \/ CheckForTimeOut(t) \/ CheckStuck(t) \/ Place(t)
  \/ \E way \in Ways : UnlockTx(t, way) \/ UnlockRx(t, way)
  \/ ResumeToFail(t) \/ ResumeToRetry(t) \/ ResumeToBlock(t) \/ Yield(t)

-----------------------------------------------------------------------------
(* Interrupt handlers.                                                     *)
IsrSend(d) ==
  /\ ~IsFull
  /\ CopyToBack(d)
  /\ txLock < MaxLocked
  /\ IF txLock = Unlocked
     THEN k' = WakeOne(k, "toReceive") /\ UNCHANGED txLock
     ELSE txLock' = txLock + 1 /\ UNCHANGED k
  /\ UNCHANGED <<rxLock, pc, call, stamp, got, waited>>

IsrReceive ==
  /\ ~IsEmpty
  /\ TakeItem(Isr)
  /\ rxLock < MaxLocked
  /\ IF rxLock = Unlocked
     THEN k' = WakeOne(k, "toSend") /\ UNCHANGED rxLock
     ELSE rxLock' = rxLock + 1 /\ UNCHANGED k
  /\ UNCHANGED <<txLock, pc, call, stamp, waited>>

Timer ==
  /\ k.missedTicks < MaxMissed
  /\ k' = TimerIsr(k)
  /\ waited' = [t \in Workers |->
                 IF stamp[t] # Nothing /\ waited[t] < call[t].asked
                 THEN waited[t] + 1 ELSE waited[t]]
  /\ UNCHANGED <<ring, locks, pc, call, stamp, got>>

Next ==
  \/ \E t \in Workers : Call(t) \/ TaskStep(t)
  \/ \E d \in Items : IsrSend(d)
  \/ IsrReceive
  \/ Timer

Spec == Init /\ [][Next]_vars

-----------------------------------------------------------------------------
TypeOK ==
  /\ ring \in [0..Capacity - 1 -> Items \cup {Nothing}]
                \X (0..Capacity - 1) \X (0..Capacity - 1) \X (0..Capacity)
  /\ locks \in (Unlocked..MaxLocked) \X (Unlocked..MaxLocked)
  /\ got \in [Workers \cup {Isr} -> Items \cup {Nothing}]
  /\ waited \in [Workers -> 0..MaxDelay]
  /\ \A t \in Workers : pc[t] = "idle" <=> call[t] = NoCall

(* The storage area read from behind readFrom is a bounded FIFO, for       *)
(* operations of tasks and handlers in every order: queue.c implements     *)
(* BoundedFifo.                                                            *)
Contents == [i \in 1..count |-> buf[(readFrom + i) % Capacity]]
Fifo == INSTANCE BoundedFifo WITH items <- Contents, Clients <- Workers \cup {Isr}
ImplementsFifo == Fifo!Spec

(* No lost wake-up: once the queue is unlocked, a task stays in the list   *)
(* of waiting receivers (senders) only if as many others as there are      *)
(* items (free cells) are on their way to try again.                       *)
WillTry(t, ops) ==
  /\ call[t].op \in ops
  /\ WaitingFor(k, t) = {}
  /\ pc[t] \notin {"unlockTxToFail", "unlockRxToFail", "resumeToFail"}
NoLostWakeup ==
  /\ txLock = Unlocked /\ k.waiting["toReceive"] # << >>
       => count <= Cardinality({t \in Workers : WillTry(t, {"receive", "peek"})})
  /\ rxLock = Unlocked /\ k.waiting["toSend"] # << >>
       => Capacity - count <= Cardinality({t \in Workers : WillTry(t, Sending)})

(* The scheduler's lists stay consistent, and unless it is suspended a     *)
(* task of the highest ready priority runs, however operations, time-outs  *)
(* and handlers interleave.                                                *)
SchedulerSound == ListsSound(k, Task) /\ RunsHighest(k) /\ ~k.swapFailed

(* All that holds of a queue and its waiters in every state.               *)
QueueSound == TypeOK /\ NoLostWakeup /\ SchedulerSound

(* A call with a block time fails only after that many ticks, whatever     *)
(* woke and delayed the caller in between and wherever the count wrapped.  *)
FailsLate == \A t \in Workers : ResumeToFail(t) => waited[t] >= call[t].asked
FailsInTime == [][FailsLate]_vars
=============================================================================
