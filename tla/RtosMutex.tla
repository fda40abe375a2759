------------------------------- MODULE RtosMutex -------------------------------
(***************************************************************************)
(* Mutexes of kernel/queue.c: queues of length one without data that       *)
(* remember their holder.  A task that has to wait lends its priority to   *)
(* the holder; giving the mutex back returns the holder to its own.  The   *)
(* recursive variant counts how often its holder has taken it.             *)
(*                                                                         *)
(* No interrupt handler uses a mutex: from vTaskSuspendAll on, a task that *)
(* has to wait meets nothing but the timer, which only counts until the    *)
(* scheduler resumes, so Wait is one action.  The queue's lock counts,     *)
(* which only handlers change, are those of RtosQueue.                     *)
(***************************************************************************)
EXTENDS Kernel

CONSTANTS
  Mutexes,
  Nobody,    \* the holder of a free mutex (NULL)
  MaxDepth,  \* bound on recursive takes
  WaitTicks  \* the block time of a take; callers that must have it repeat it

MutexAssumption ==
  /\ TaskAssumption /\ TickAssumption
  /\ EventLists = Mutexes /\ Nobody \notin Task \cup Mutexes
  /\ MaxDepth \in Nat \ {0} /\ WaitTicks \in 1..MaxDelay

Workers == Task \ {Idle}

VARIABLES
  k,       \* the scheduler, see Kernel
  holder,  \* pxMutexHolder; the mutex is full (uxMessagesWaiting = 1) if Nobody
  depth,   \* uxRecursiveCallCount of each mutex
  pc,      \* "run", "try", "wait", "yield"
  want,    \* the mutex each task is taking
  stamp    \* xTimeOut, and the ticks left; <<>> until it is set

vars == <<k, holder, depth, pc, want, stamp>>

Init ==
  /\ \E lists \in ReadyLists : k = Started(lists)
  /\ holder = [m \in Mutexes |-> Nobody]
  /\ depth = [m \in Mutexes |-> 0]
  /\ pc = [t \in Workers |-> "run"]
  /\ want = [t \in Workers |-> Nobody]
  /\ stamp = [t \in Workers |-> << >>]

At(t, step) == k.current = t /\ pc[t] = step
Goto(t, step) == pc' = [pc EXCEPT ![t] = step]
Holds(t) == {m \in Mutexes : holder[m] = t}

-----------------------------------------------------------------------------
(* A task takes one mutex at a time, as the tasks of the program do.       *)
Take(t, m) ==
  /\ At(t, "run") /\ Holds(t) = {}
  /\ want' = [want EXCEPT ![t] = m]
  /\ Goto(t, "try")
  /\ UNCHANGED <<k, holder, depth, stamp>>

(* xQueueTakeMutexRecursive by the holder.                                 *)
TakeAgain(t, m) ==
  /\ At(t, "run") /\ holder[m] = t /\ depth[m] < MaxDepth
  /\ depth' = [depth EXCEPT ![m] = @ + 1]
  /\ UNCHANGED <<k, holder, pc, want, stamp>>

(* The first critical section of xQueueGenericReceive.                     *)
Obtain(t) ==
  LET m == want[t] IN
  /\ At(t, "try") /\ holder[m] = Nobody
  /\ holder' = [holder EXCEPT ![m] = t]
  /\ depth' = [depth EXCEPT ![m] = 1]
  /\ want' = [want EXCEPT ![t] = Nobody]
  /\ stamp' = [stamp EXCEPT ![t] = << >>]
  /\ Goto(t, "run")
  /\ UNCHANGED k

Refused(t) ==
  /\ At(t, "try") /\ holder[want[t]] # Nobody
  /\ stamp' = [stamp EXCEPT ![t] = IF @ = << >> THEN <<SetTimeOutState(k), WaitTicks>> ELSE @]
  /\ Goto(t, "wait")
  /\ UNCHANGED <<k, holder, depth, want>>

(* With the scheduler suspended: give up when the time is over, else lend  *)
(* the priority and go into the list, unless the mutex has become free.    *)
Wait(t) ==
  LET m == want[t]
      s == SuspendAll(k)
      left == stamp[t][2] - ElapsedSince(k, stamp[t][1])
      placed == PlaceOnEventList(PriorityInherit(s, holder[m]), m, left) IN
  /\ At(t, "wait")
  /\ IF TimedOut(k, stamp[t][1], stamp[t][2])
     THEN /\ Goto(t, "try")  \* the caller's loop repeats the call
          /\ stamp' = [stamp EXCEPT ![t] = << >>]
          /\ k' = ResumeAll(s)
     ELSE /\ stamp' = [stamp EXCEPT ![t] = <<SetTimeOutState(k), left>>]
          /\ IF holder[m] = Nobody
             THEN k' = ResumeAll(s) /\ Goto(t, "try")
             ELSE k' = ResumeAll(placed) /\ Goto(t, "yield")
  /\ UNCHANGED <<holder, depth, want>>

Yield(t) ==
  /\ At(t, "yield")
  /\ k' = SwitchContext(k)
  /\ Goto(t, "try")
  /\ UNCHANGED <<holder, depth, want, stamp>>

(* Mutant: the borrowed priority is kept.                                  *)
GiveKeeps(t, m) ==
  /\ At(t, "run") /\ holder[m] = t
  /\ depth' = [depth EXCEPT ![m] = @ - 1]
  /\ IF depth[m] = 1
     THEN holder' = [holder EXCEPT ![m] = Nobody] /\ k' = WakeOne(k, m)
     ELSE UNCHANGED <<holder, k>>
  /\ UNCHANGED <<pc, want, stamp>>

(* xQueueGiveMutexRecursive: the last give returns the mutex and the       *)
(* borrowed priority, and wakes the first waiter.                          *)
Give(t, m) ==
  /\ At(t, "run") /\ holder[m] = t
  /\ depth' = [depth EXCEPT ![m] = @ - 1]
  /\ IF depth[m] = 1
     THEN holder' = [holder EXCEPT ![m] = Nobody] /\ k' = WakeOne(PriorityDisinherit(k, t), m)
     ELSE UNCHANGED <<holder, k>>
  /\ UNCHANGED <<pc, want, stamp>>

(* A task may also sleep, with or without a mutex.                         *)
Delay(t) ==
  /\ At(t, "run")
  /\ k' = SwitchContext(ResumeAll(DelayCurrent(SuspendAll(k), 1)))
  /\ UNCHANGED <<holder, depth, pc, want, stamp>>

Timer == k' = TimerIsr(k) /\ UNCHANGED <<holder, depth, pc, want, stamp>>

Next ==
  \/ \E t \in Workers, m \in Mutexes : Take(t, m) \/ TakeAgain(t, m) \/ Give(t, m)
  \/ \E t \in Workers : Obtain(t) \/ Refused(t) \/ Wait(t) \/ Yield(t) \/ Delay(t)
  \/ Timer

Spec == Init /\ [][Next]_vars

-----------------------------------------------------------------------------
TypeOK ==
  /\ holder \in [Mutexes -> Workers \cup {Nobody}]
  /\ depth \in [Mutexes -> 0..MaxDepth]
  /\ pc \in [Workers -> {"run", "try", "wait", "yield"}]
  /\ want \in [Workers -> Mutexes \cup {Nobody}]
  /\ \A m \in Mutexes : holder[m] = Nobody <=> depth[m] = 0
  /\ ListsSound(k, Task) /\ ~k.swapFailed

(* No task waits for a mutex whose holder runs at a lower priority than    *)
(* the waiter: a task in between cannot keep them both from running.       *)
WaiterCovered ==
  \A m \in Mutexes : \A t \in ToSet(k.waiting[m]) :
    holder[m] # Nobody => k.priority[holder[m]] >= k.priority[t]

(* A free mutex has waiters only while another task is on its way to take  *)
(* it.                                                                     *)
NoLostWakeup ==
  \A m \in Mutexes :
    holder[m] = Nobody /\ k.waiting[m] # << >>
      => \E t \in Workers : want[t] = m /\ WaitingFor(k, t) = {}

(* Borrowed priorities are given back: a task without a mutex runs at its  *)
(* own.                                                                    *)
OwnPriority ==
  \A t \in Workers : Holds(t) = {} => k.priority[t] = BasePriority[t]

(* All that holds of mutexes and their holders in every state.             *)
MutexSound == TypeOK /\ WaiterCovered /\ OwnPriority /\ NoLostWakeup
=============================================================================
