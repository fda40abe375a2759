------------------------------- MODULE RtosTasks -------------------------------
(***************************************************************************)
(* Tasks and time in kernel/tasks.c: delays, sections in which the         *)
(* scheduler is suspended (every malloc of kernel/portable/MemMang/heap_3.c*)
(* is one), the creation and deletion of tasks, and the time-outs of the   *)
(* kernel's blocking calls.  The tick count wraps; ticks that arrive while *)
(* the scheduler is suspended are replayed when it resumes.                *)
(*                                                                         *)
(* due and elapsed are what a clock that never wraps and never waits would *)
(* say: they count timer interrupts.                                       *)
(***************************************************************************)
EXTENDS Kernel

CONSTANTS
  Delays,     \* the arguments of vTaskDelay
  MaxMissed,  \* bound on the ticks during one suspension of the scheduler
  Timing,     \* the tasks that make blocking calls
  Mortal      \* the tasks that may end

DelayAssumption ==
  /\ TaskAssumption /\ TickAssumption
  /\ Delays \subseteq 1..MaxDelay /\ MaxMissed \in Nat
  /\ Mortal \subseteq Task \ {Idle} /\ Timing \subseteq Task \ {Idle} /\ EventLists = {}

VARIABLES
  k,            \* the scheduler, see Kernel
  pc,           \* where each task is in its call; "run" outside
  live,         \* the tasks that exist
  termination,  \* xTasksWaitingTermination
  toReclaim,    \* uxTasksDeleted
  tasks,        \* uxCurrentNumberOfTasks
  found,        \* what the idle task saw of the termination list
  due,          \* timer interrupts until each sleeping task has to wake; not counted
                \* further than one below the least that can be right
  stamp,        \* xTimeOut of each task; <<>> until it is set
  elapsed       \* timer interrupts since then, up to one full turn and one more

life == <<live, termination, toReclaim, tasks, found>>
vars == <<k, pc, life, due, stamp, elapsed>>

Init ==
  /\ \E lists \in ReadyLists : k = Started(lists)
  /\ pc = [t \in Task |-> "run"]
  /\ live = Task /\ termination = << >> /\ toReclaim = 0 /\ tasks = Cardinality(Task)
  /\ found = FALSE
  /\ due = [t \in Task |-> 0]
  /\ stamp = [t \in Task |-> << >>] /\ elapsed = [t \in Task |-> 0]

At(t, step) == k.current = t /\ pc[t] = step
Goto(t, step) == pc' = [pc EXCEPT ![t] = step]

-----------------------------------------------------------------------------
(* vTaskDelay: suspend, move to the delayed list, resume, yield.           *)
DelaySuspend(t) ==
  /\ At(t, "run") /\ t # Idle
  /\ k' = SuspendAll(k)
  /\ Goto(t, "sleep")
  /\ UNCHANGED <<life, due, stamp, elapsed>>

DelayPlace(t, n) ==
  /\ At(t, "sleep")
  /\ k' = DelayCurrent(k, n)
  /\ due' = [due EXCEPT ![t] = n - k.missedTicks]
  /\ Goto(t, "resume")
  /\ UNCHANGED <<life, stamp, elapsed>>

DelayResume(t) ==
  /\ At(t, "resume")
  /\ k' = ResumeAll(k)
  /\ Goto(t, IF AlreadyYielded(k) THEN "run" ELSE "yield")
  /\ UNCHANGED <<life, due, stamp, elapsed>>

Yield(t) ==
  /\ At(t, "yield")
  /\ k' = SwitchContext(k)
  /\ Goto(t, "run")
  /\ UNCHANGED <<life, due, stamp, elapsed>>

(* A section with the scheduler suspended.                                 *)
Enter(t) ==
  /\ At(t, "run") /\ t # Idle
  /\ k' = SuspendAll(k)
  /\ Goto(t, "exclusive")
  /\ UNCHANGED <<life, due, stamp, elapsed>>

Leave(t) ==
  /\ At(t, "exclusive")
  /\ k' = ResumeAll(k)
  /\ Goto(t, "run")
  /\ UNCHANGED <<life, due, stamp, elapsed>>

(* A blocking call sets its time-out when it begins.                       *)
SetTimeOut(t) ==
  /\ At(t, "run") /\ t \in Timing
  /\ stamp' = [stamp EXCEPT ![t] = <<SetTimeOutState(k)>>]
  /\ elapsed' = [elapsed EXCEPT ![t] = 0]
  /\ UNCHANGED <<k, pc, life, due>>

-----------------------------------------------------------------------------
(* vTaskDelete, of the caller or of another task: the task leaves every    *)
(* list; its memory is left to the idle task.                              *)
Delete(t, u) ==
  /\ At(t, "run") /\ t # Idle /\ u \in Mortal \cap live
  /\ pc[u] # "sleep" /\ pc[u] # "exclusive"
  /\ k' = RemoveEventItem(RemoveGenericItem(k, u), u)
  /\ live' = live \ {u}
  /\ termination' = Append(termination, u)
  /\ toReclaim' = toReclaim + 1
  /\ pc' = [pc EXCEPT ![u] = IF u = t THEN "gone" ELSE "run"]
  /\ stamp' = [stamp EXCEPT ![u] = << >>] /\ elapsed' = [elapsed EXCEPT ![u] = 0]
  /\ due' = [due EXCEPT ![u] = 0]
  /\ UNCHANGED <<tasks, found>>

(* A task that deleted itself yields, and is never resumed.                *)
DeleteYield(t) ==
  /\ At(t, "gone")
  /\ k' = SwitchContext(k)
  /\ Goto(t, "run")
  /\ UNCHANGED <<life, due, stamp, elapsed>>

(* prvCheckTasksWaitingTermination, which the idle task runs.              *)
IdleLook ==
  /\ At(Idle, "run") /\ toReclaim > 0
  /\ k' = SuspendAll(k)
  /\ found' = (termination # << >>)
  /\ Goto(Idle, "looked")
  /\ UNCHANGED <<live, termination, toReclaim, tasks, due, stamp, elapsed>>

IdleResume ==
  /\ At(Idle, "looked")
  /\ k' = ResumeAll(k)
  /\ Goto(Idle, IF found THEN "reclaim" ELSE "run")
  /\ UNCHANGED <<life, due, stamp, elapsed>>

(* Mutant: the count of tasks to reclaim is not reduced.                   *)
IdleReclaimUncounted ==
  /\ At(Idle, "reclaim")
  /\ termination' = Tail(termination)
  /\ tasks' = tasks - 1
  /\ Goto(Idle, "run")
  /\ UNCHANGED <<k, live, toReclaim, found, due, stamp, elapsed>>

IdleReclaim ==
  /\ At(Idle, "reclaim")
  /\ termination' = Tail(termination)
  /\ toReclaim' = toReclaim - 1
  /\ tasks' = tasks - 1
  /\ Goto(Idle, "run")
  /\ UNCHANGED <<k, live, found, due, stamp, elapsed>>

(* xTaskGenericCreate, with memory that is free: a task whose memory the   *)
(* idle task has not taken back is not created anew.                       *)
Create(t, u) ==
  LET ready == AddTaskToReadyQueue(k, u) IN
  /\ At(t, "run") /\ t # Idle
  /\ u \in Mortal \ (live \cup ToSet(termination))
  /\ k' = IF k.priority[t] < k.priority[u] THEN SwitchContext(ready) ELSE ready
  /\ live' = live \cup {u}
  /\ tasks' = tasks + 1
  /\ pc' = [pc EXCEPT ![u] = "run"]
  /\ UNCHANGED <<termination, toReclaim, found, due, stamp, elapsed>>

-----------------------------------------------------------------------------
Timer ==
  /\ k.missedTicks < MaxMissed
  /\ k' = TimerIsr(k)
  /\ due' = [t \in Task |-> IF t \in Blocked(k) /\ due[t] >= -MaxMissed
                            THEN due[t] - 1 ELSE due[t]]
  /\ elapsed' = [t \in Task |-> IF stamp[t] # << >> /\ elapsed[t] <= TickRange
                                THEN elapsed[t] + 1 ELSE elapsed[t]]
  /\ UNCHANGED <<pc, life, stamp>>

TaskStep(t) ==
  \/ DelaySuspend(t) \/ \E n \in Delays : DelayPlace(t, n)
  \/ DelayResume(t) \/ Yield(t) \/ Enter(t) \/ Leave(t) \/ DeleteYield(t)

Next ==
  \/ \E t \in Task : TaskStep(t) \/ SetTimeOut(t)
  \/ \E t, u \in Task : Delete(t, u) \/ Create(t, u)
  \/ IdleLook \/ IdleResume \/ IdleReclaim
  \/ Timer

Spec == Init /\ [][Next]_vars

-----------------------------------------------------------------------------
TypeOK ==
  /\ pc \in [Task -> {"run", "sleep", "resume", "yield", "exclusive", "gone", "looked", "reclaim"}]
  /\ Idle \in live /\ live \subseteq Task
  /\ due \in [Task -> -MaxMissed..MaxDelay]
  /\ ListsSound(k, live)

(* Sleepers wake in time: a task is in a delayed list exactly as long as   *)
(* interrupts are missing, counting those the suspended scheduler has kept *)
(* back, across every wrap of the count.                                   *)
OnTime ==
  \A t \in Blocked(k) :
    /\ due[t] + k.missedTicks \in 1..MaxDelay
    /\ (k.wake[t] - k.tick) % TickRange = due[t] + k.missedTicks

(* No sleeper wakes early.                                                 *)
WakesDue == \A t \in Blocked(k) \cap live' : t \notin Blocked(k)' => due'[t] <= 0
NeverEarly == [][WakesDue]_vars

(* The assertion of vTaskIncrementTick: when the count wraps, no task is   *)
(* left in the list of the turn that ends.                                 *)
WrapsClean == ~k.swapFailed

(* A time-out is recognised exactly up to a full turn of the tick count,   *)
(* although the two counts that are compared wrap in between.              *)
TimeOutExact ==
  \A t \in live : \A n \in Delays :
    stamp[t] # << >> /\ k.missedTicks = 0 /\ elapsed[t] <= TickRange
      => (TimedOut(k, stamp[t][1], n) <=> elapsed[t] >= n)

(* Sleepers are due when their wake time says, no list of a turn of the    *)
(* tick count that ends holds a task, and time-outs are exact.             *)
TimeSound == TypeOK /\ OnTime /\ WrapsClean /\ TimeOutExact

(* The processor never runs a task whose memory has been taken back, and   *)
(* every deleted task is accounted for once.                               *)
ReclaimedOnce ==
  /\ k.current \in live \cup ToSet(termination)
  /\ live \cap ToSet(termination) = {} /\ IsInjective(termination)
  /\ toReclaim = Len(termination)
  /\ tasks = Cardinality(live) + Len(termination)
  /\ pc[Idle] = "reclaim" => termination # << >>
=============================================================================
