-------------------------------- MODULE Kernel --------------------------------
(***************************************************************************)
(* The scheduler of kernel/tasks.c as operators on a record: the ready     *)
(* lists, the two delayed lists, the event lists, the tick and what is     *)
(* kept back while the scheduler is suspended.  Each operator is the       *)
(* effect of one kernel function in a section no interrupt can enter; the  *)
(* modules that EXTEND this one put them in the order their callers do.    *)
(*                                                                         *)
(* A ready list is walked through its index and grown behind it: it is a   *)
(* sequence whose last element is the one the index points at.  The other  *)
(* lists are read from their head.                                         *)
(***************************************************************************)
EXTENDS Integers, Sequences, FiniteSets, SequencesExt

CONSTANTS
  Task,          \* the tasks, the idle task among them
  Idle,
  BasePriority,  \* uxBasePriority of each task
  MaxPriorities, \* configMAX_PRIORITIES
  EventLists,    \* the event lists of the queues in the model
  TickRange,     \* the tick count wraps at this value (2^32 on the board)
  OverflowRange  \* xNumOfOverflows wraps at this value

TaskAssumption ==
  /\ IsFiniteSet(Task) /\ Idle \in Task /\ MaxPriorities \in Nat \ {0}
  /\ BasePriority \in [Task -> 0..MaxPriorities - 1]
  /\ BasePriority[Idle] = 0
TickAssumption == TickRange \in Nat \ {0, 1} /\ OverflowRange \in Nat \ {0, 1}

MaxDelay == TickRange - 1
Priorities == 0..MaxPriorities - 1

AtPriority(p) == {t \in Task : BasePriority[t] = p}

(* The lists before the scheduler starts, when every task has been         *)
(* created: the tasks of a priority are in the order of their creation.    *)
ReadyLists ==
  {lists \in [Priorities -> UNION {SetToSeqs(AtPriority(p)) : p \in Priorities}] :
     \A p \in Priorities : lists[p] \in SetToSeqs(AtPriority(p))}

Created(lists) ==
  [ready       |-> lists,
   top         |-> MaxPriorities - 1,
   current     |-> Idle,
   suspended   |-> 0,
   pending     |-> << >>,
   missedTicks |-> 0,
   missedYield |-> FALSE,
   delayed     |-> << >>,
   overflowed  |-> << >>,
   wake        |-> [t \in Task |-> 0],
   waiting     |-> [e \in EventLists |-> << >>],
   eventKey    |-> [t \in Task |-> MaxPriorities - BasePriority[t]],
   priority    |-> BasePriority,
   tick        |-> 0,
   overflows   |-> 0,
   nextUnblock |-> MaxDelay,
   swapFailed  |-> FALSE]

-----------------------------------------------------------------------------
(* list.c: sorted insertion walks over the items up to the first of a      *)
(* greater value, and removal unlinks the one item of the task.            *)
InsertSorted(list, key, t) ==
  LET at == CHOOSE i \in 1..Len(list) + 1 :
              /\ \A j \in 1..i - 1 : key[list[j]] <= key[t]
              /\ i <= Len(list) => key[t] < key[list[i]]
  IN InsertAt(list, at, t)

Unlink(list, t) ==
  IF Contains(list, t) THEN RemoveAt(list, CHOOSE i \in 1..Len(list) : list[i] = t) ELSE list

(* A loop that is passed n times.                                          *)
Times(n, Pass(_), k) ==
  LET after[i \in 0..n] == IF i = 0 THEN k ELSE Pass(after[i - 1]) IN after[n]

(* The generic list item is in a ready list or in one of the delayed       *)
(* lists; its value, the wake time, is read in the delayed lists only and  *)
(* forgotten here when the item leaves them.                               *)
RemoveGenericItem(k, t) ==
  [k EXCEPT !.ready = [p \in Priorities |-> Unlink(k.ready[p], t)],
            !.wake[t] = 0,
            !.delayed = Unlink(@, t),
            !.overflowed = Unlink(@, t)]

RemoveEventItem(k, t) ==
  [k EXCEPT !.waiting = [e \in EventLists |-> Unlink(k.waiting[e], t)],
            !.pending = Unlink(@, t)]

IsReady(k, t) == \E p \in Priorities : Contains(k.ready[p], t)

AddTaskToReadyQueue(k, t) ==
  [k EXCEPT !.top = IF k.priority[t] > @ THEN k.priority[t] ELSE @,
            !.ready[k.priority[t]] = Append(@, t)]

(* Mutant: a wake time beyond the wrap goes into the list of this turn.    *)
AddToThisTurn(k, time) ==
  LET timed == [k EXCEPT !.wake[k.current] = time] IN
    [timed EXCEPT !.delayed = InsertSorted(@, timed.wake, k.current),
                  !.nextUnblock = IF time < @ THEN time ELSE @]

AddCurrentTaskToDelayedList(k, time) ==
  LET timed == [k EXCEPT !.wake[k.current] = time] IN
    IF time < k.tick
    THEN [timed EXCEPT !.overflowed = InsertSorted(@, timed.wake, k.current)]
    ELSE [timed EXCEPT !.delayed = InsertSorted(@, timed.wake, k.current),
                       !.nextUnblock = IF time < @ THEN time ELSE @]

-----------------------------------------------------------------------------
(* A context switch takes the next task of the highest ready priority, or  *)
(* is remembered while the scheduler is suspended.                         *)
SwitchContext(k) ==
  IF k.suspended > 0
  THEN [k EXCEPT !.missedYield = TRUE]
  ELSE LET p == CHOOSE p \in 0..k.top :
                  /\ k.ready[p] # << >>
                  /\ \A q \in p + 1..k.top : k.ready[q] = << >>
           next == Head(k.ready[p]) IN
       [k EXCEPT !.top = p, !.ready[p] = Append(Tail(@), next), !.current = next]

(* Time-outs are served from the head of the delayed list up to the first  *)
(* that is not due.                                                        *)
ServeHead(k) ==
  LET t == Head(k.delayed)
  IN AddTaskToReadyQueue(RemoveEventItem(RemoveGenericItem(k, t), t), t)

(* Mutant: the comparison with the wake time is off by one.                *)
DueCountEarly(k) ==
  CHOOSE n \in 0..Len(k.delayed) :
    /\ \A i \in 1..n : k.wake[k.delayed[i]] <= k.tick + 1
    /\ n < Len(k.delayed) => k.tick + 1 < k.wake[k.delayed[n + 1]]

DueCount(k) ==
  CHOOSE n \in 0..Len(k.delayed) :
    /\ \A i \in 1..n : k.wake[k.delayed[i]] <= k.tick
    /\ n < Len(k.delayed) => k.tick < k.wake[k.delayed[n + 1]]

CheckDelayedTasks(k) ==
  LET served == Times(DueCount(k), ServeHead, k)
  IN IF k.tick < k.nextUnblock THEN k
     ELSE [served EXCEPT !.nextUnblock = IF served.delayed = << >> THEN MaxDelay
                                         ELSE served.wake[Head(served.delayed)]]

(* Mutant: the list of the next turn is counted but not brought in.        *)
SwapDelayedListsKept(k) ==
  [k EXCEPT !.swapFailed = @ \/ k.delayed # << >>,
            !.overflows = (@ + 1) % OverflowRange,
            !.nextUnblock = MaxDelay]

(* When the count wraps the delayed lists change places; the old one has   *)
(* to be empty by then (the assertion of line 1520).                       *)
SwapDelayedLists(k) ==
  [k EXCEPT !.swapFailed = @ \/ k.delayed # << >>,
            !.delayed = k.overflowed,
            !.overflowed = k.delayed,
            !.overflows = (@ + 1) % OverflowRange,
            !.nextUnblock = IF k.overflowed = << >> THEN MaxDelay
                            ELSE k.wake[Head(k.overflowed)]]

IncrementTick(k) ==
  LET ticked == [k EXCEPT !.tick = (@ + 1) % TickRange] IN
    IF k.suspended > 0 THEN [k EXCEPT !.missedTicks = @ + 1]
    ELSE CheckDelayedTasks(IF ticked.tick = 0 THEN SwapDelayedLists(ticked) ELSE ticked)

(* xPortStartScheduler begins with a context switch.                       *)
Started(lists) == SwitchContext(Created(lists))

(* timerISR: the tick, and a context switch in every case.                 *)
TimerIsr(k) == SwitchContext(IncrementTick(k))

-----------------------------------------------------------------------------
SuspendAll(k) == [k EXCEPT !.suspended = @ + 1]

MoveHead(k) ==
  LET t == Head(k.pending)
  IN AddTaskToReadyQueue(RemoveGenericItem(RemoveEventItem(k, t), t), t)

MovePending(k) == Times(Len(k.pending), MoveHead, k)

(* Mutant: ticks missed while the scheduler was suspended count as one.    *)
ReplayOneTick(k) ==
  IF k.missedTicks = 0 THEN k ELSE [IncrementTick(k) EXCEPT !.missedTicks = 0]

ReplayTick(k) == [IncrementTick(k) EXCEPT !.missedTicks = @ - 1]
ReplayTicks(k) == Times(k.missedTicks, ReplayTick, k)

(* Does xTaskResumeAll yield by itself (its result, xAlreadyYielded)?      *)
AlreadyYielded(k) ==
  /\ k.suspended = 1
  /\ \/ \E i \in 1..Len(k.pending) : k.priority[k.pending[i]] >= k.priority[k.current]
     \/ k.missedTicks > 0
     \/ k.missedYield

ResumeAll(k) ==
  LET resumed == [k EXCEPT !.suspended = @ - 1]
      ready == ReplayTicks(MovePending(resumed)) IN
    IF resumed.suspended > 0 THEN resumed
    ELSE IF AlreadyYielded(k) THEN SwitchContext([ready EXCEPT !.missedYield = FALSE])
    ELSE ready

-----------------------------------------------------------------------------
(* Waiting for an event with a time-out, and the event.                    *)
PlaceOnEventList(k, e, ticks) ==
  AddCurrentTaskToDelayedList(
    RemoveGenericItem([k EXCEPT !.waiting[e] = InsertSorted(@, k.eventKey, k.current)], k.current),
    (k.tick + ticks) % TickRange)

RemoveFromEventList(k, e) ==
  LET t == Head(k.waiting[e])
      off == [k EXCEPT !.waiting[e] = Tail(@)] IN
    IF k.suspended > 0 THEN [off EXCEPT !.pending = Append(@, t)]
    ELSE AddTaskToReadyQueue(RemoveGenericItem(off, t), t)

(* The result of xTaskRemoveFromEventList: should the caller yield?        *)
UnblocksHigher(k, e) == k.priority[Head(k.waiting[e])] >= k.priority[k.current]

(* The end of a call that gave or took an item (queue.c): the first        *)
(* waiter, if there is one, is woken, and the caller yields if the waiter  *)
(* is at least as important.                                               *)
(* Mutant: the caller goes on although it woke a more important task.      *)
WakeOneNoYield(k, e) ==
  IF k.waiting[e] = << >> THEN k ELSE RemoveFromEventList(k, e)

(* Mutant: a waiter is woken only if the caller has to yield to it.        *)
WakeOneHigher(k, e) ==
  IF k.waiting[e] = << >> THEN k
  ELSE IF UnblocksHigher(k, e) THEN SwitchContext(RemoveFromEventList(k, e))
  ELSE k

WakeOne(k, e) ==
  IF k.waiting[e] = << >> THEN k
  ELSE IF UnblocksHigher(k, e) THEN SwitchContext(RemoveFromEventList(k, e))
  ELSE RemoveFromEventList(k, e)

(* Mutant: the caller stays in its ready list.                             *)
DelayCurrentKept(k, ticks) ==
  AddCurrentTaskToDelayedList(k, (k.tick + ticks) % TickRange)

(* vTaskDelay up to the point where the caller is in the delayed list.     *)
DelayCurrent(k, ticks) ==
  AddCurrentTaskToDelayedList(RemoveGenericItem(k, k.current), (k.tick + ticks) % TickRange)

(* A time-out is a stamp and the ticks left at that stamp.                 *)
SetTimeOutState(k) == [overflows |-> k.overflows, tick |-> k.tick]
ElapsedSince(k, stamp) == (k.tick - stamp.tick) % TickRange
(* Mutant: the overflow counts are not compared.                           *)
TimedOutByTick(k, stamp, ticks) == ElapsedSince(k, stamp) >= ticks

TimedOut(k, stamp, ticks) ==
  \/ k.overflows # stamp.overflows /\ k.tick >= stamp.tick
  \/ ElapsedSince(k, stamp) >= ticks

-----------------------------------------------------------------------------
(* Priority inheritance: the holder of a mutex gets the priority of a task *)
(* that is about to wait for it, and its own again when it gives it back.  *)
(* Mutant: only a holder that is ready inherits.                           *)
PriorityInheritIfReady(k, holder) ==
  LET p == k.priority[k.current]
      raised == [k EXCEPT !.priority[holder] = p, !.eventKey[holder] = MaxPriorities - p] IN
    IF k.priority[holder] >= p \/ ~IsReady(k, holder) THEN k
    ELSE AddTaskToReadyQueue(RemoveGenericItem(raised, holder), holder)

PriorityInherit(k, holder) ==
  LET p == k.priority[k.current]
      raised == [k EXCEPT !.priority[holder] = p, !.eventKey[holder] = MaxPriorities - p] IN
    IF k.priority[holder] >= p THEN k
    ELSE IF Contains(k.ready[k.priority[holder]], holder)
    THEN AddTaskToReadyQueue(RemoveGenericItem(raised, holder), holder)
    ELSE raised

PriorityDisinherit(k, holder) ==
  LET p == BasePriority[holder] IN
    IF k.priority[holder] = p THEN k
    ELSE AddTaskToReadyQueue(
           RemoveGenericItem([k EXCEPT !.priority[holder] = p,
                                       !.eventKey[holder] = MaxPriorities - p], holder), holder)

-----------------------------------------------------------------------------
(* What every caller relies on.                                            *)
Blocked(k) == ToSet(k.delayed) \cup ToSet(k.overflowed)
WaitingFor(k, t) == {e \in EventLists : Contains(k.waiting[e], t)}

(* Every living task is in exactly one list by its generic item, the ready *)
(* ones in the list of their priority and below the remembered top, and a  *)
(* task in an event list has a time-out.                                   *)
ListsSound(k, live) ==
  /\ \A t \in Task \ live : ~IsReady(k, t) /\ t \notin Blocked(k)
  /\ \A t \in live :
       /\ IsReady(k, t) <=> t \notin Blocked(k)
       /\ IsReady(k, t) => Contains(k.ready[k.priority[t]], t) /\ k.priority[t] <= k.top
       /\ WaitingFor(k, t) # {} => t \in Blocked(k)
       /\ Contains(k.pending, t) => WaitingFor(k, t) = {} /\ k.suspended > 0
  /\ \A p \in Priorities : IsInjective(k.ready[p])
  /\ IsInjective(k.delayed \o k.overflowed)

(* Outside suspension the processor runs a task of the highest ready       *)
(* priority.                                                               *)
RunsHighest(k) ==
  k.suspended = 0 =>
    \A p \in Priorities : k.ready[p] # << >> => p <= k.priority[k.current]
=============================================================================
