------------------------------ MODULE IrqLock ------------------------------
(***************************************************************************)
(* The processor's interrupt mask and everything that sets it: malloc's    *)
(* lock (libc_glue.c), the kernel's critical sections (tasks.c), lwIP's    *)
(* protected regions (sys_arch.c) and the start-up code, which runs masked *)
(* until the first task starts although the tick is unmasked earlier.      *)
(* A context (the start-up code or a task) executes the steps of its       *)
(* current call; the mask is saved and restored with a task's registers.   *)
(***************************************************************************)
EXTENDS Naturals, Sequences, SequencesExt

CONSTANTS Task,      \* the tasks the start-up code creates
          Lwip,      \* those of them made by sys_thread_new
          Boot       \* the start-up code

Context == Task \union {Boot}

VARIABLES
  cur,          \* the running context
  started,      \* xSchedulerRunning
  tick,         \* the timer interrupt is unmasked (INTENNUM)
  irq,          \* a context's processor mask: TRUE when interrupts are on
  steps,        \* what is left of a context's call
  saved,        \* the states a context has read with portDISABLE_INTERRUPTS
  created,      \* the tasks in the ready lists
  nesting,      \* uxCriticalNesting
  suspended,    \* uxSchedulerSuspended
  missed,       \* a tick came while the scheduler was suspended
  lockNested,   \* mLockNested
  lockState,    \* mLockState
  inside        \* how often a context has taken malloc's lock

vars == <<cur, started, tick, irq, steps, saved, created, nesting, suspended,
          missed, lockNested, lockState, inside>>

-----------------------------------------------------------------------------
(* The calls, as the steps that touch the mask.  malloc grows the heap with*)
(* _sbrk, which takes the lock a second time; or it does not.              *)
Malloc(grows) ==
  <<"lock">> \o (IF grows THEN <<"lock", "unlock">> ELSE << >>) \o <<"unlock">>

PortMalloc(grows) ==
  <<"suspend">> \o Malloc(grows) \o <<"enter", "resume", "exit">>

TaskCreate(t) == PortMalloc(TRUE) \o PortMalloc(TRUE) \o <<"enter", t, "exit">>

ThreadNew(t) == Malloc(TRUE) \o <<"disable">> \o TaskCreate(t) \o <<"restore">>

(* mDelay, sys_arch_timeouts, and the regions between sys_arch_protect and *)
(* sys_arch_unprotect.                                                     *)
Region == <<"disable", "restore">>

(* A critical section of the kernel's queues.                              *)
Critical == <<"enter", "exit">>

Calls == {Malloc(FALSE), Malloc(TRUE), PortMalloc(FALSE), PortMalloc(TRUE), Region, Critical}

(* boardInit0: tcpip_init, ethInit with its delays and tasks, the timer,   *)
(* the program's tasks, the scheduler.                                     *)
BootSteps ==
  FlattenSeq([i \in 1..Len(SetToSeq(Lwip)) |-> ThreadNew(SetToSeq(Lwip)[i])])
    \o Region \o <<"unmask">>
    \o FlattenSeq([i \in 1..Len(SetToSeq(Task \ Lwip)) |-> TaskCreate(SetToSeq(Task \ Lwip)[i])])
    \o <<"start">>

Init ==
  /\ cur = Boot /\ started = FALSE /\ tick = FALSE
  /\ irq = [c \in Context |-> c # Boot]
  /\ steps = [c \in Context |-> IF c = Boot THEN BootSteps ELSE << >>]
  /\ saved = [c \in Context |-> << >>]
  /\ created = {}
  /\ nesting = [t \in Task |-> 0]
  /\ suspended = 0 /\ missed = FALSE
  /\ lockNested = 0 /\ lockState = FALSE
  /\ inside = [c \in Context |-> 0]

-----------------------------------------------------------------------------
(* The running context executes the step op.                               *)
Step(op) ==
  /\ steps[cur] # << >> /\ Head(steps[cur]) = op
  /\ steps' = [steps EXCEPT ![cur] = Tail(@)]

(* A task makes its next call.                                             *)
Call ==
  /\ cur # Boot /\ steps[cur] = << >>
  /\ \E c \in Calls : steps' = [steps EXCEPT ![cur] = c]
  /\ UNCHANGED <<cur, started, tick, irq, saved, created, nesting, suspended, missed,
                 lockNested, lockState, inside>>

(* portDISABLE_INTERRUPTS, whose result the caller keeps.                  *)
Disable ==
  /\ Step("disable")
  /\ saved' = [saved EXCEPT ![cur] = <<irq[cur]>> \o @]
  /\ irq' = [irq EXCEPT ![cur] = FALSE]
  /\ UNCHANGED <<cur, started, tick, created, nesting, suspended, missed, lockNested, lockState,
                 inside>>

(* if (state) portENABLE_INTERRUPTS()                                      *)
Restore ==
  /\ Step("restore")
  /\ saved' = [saved EXCEPT ![cur] = Tail(@)]
  /\ irq' = [irq EXCEPT ![cur] = @ \/ Head(saved[cur])]
  /\ UNCHANGED <<cur, started, tick, created, nesting, suspended, missed, lockNested, lockState,
                 inside>>

(* Mutant: the tick's mask is not part of the lock.                        *)
LockUnmasked ==
  /\ Step("lock")
  /\ lockState' = IF lockNested = 0 THEN irq[cur] ELSE lockState
  /\ lockNested' = lockNested + 1
  /\ inside' = [inside EXCEPT ![cur] = @ + 1]
  /\ UNCHANGED <<cur, started, tick, irq, saved, created, nesting, suspended, missed>>

(* Mutant: the inner call of the lock overwrites the state of the outer.   *)
LockForgets ==
  /\ Step("lock")
  /\ lockState' = irq[cur]
  /\ lockNested' = lockNested + 1
  /\ irq' = [irq EXCEPT ![cur] = FALSE]
  /\ inside' = [inside EXCEPT ![cur] = @ + 1]
  /\ UNCHANGED <<cur, started, tick, saved, created, nesting, suspended, missed>>

(* __malloc_lock                                                           *)
Lock ==
  /\ Step("lock")
  /\ lockState' = IF lockNested = 0 THEN irq[cur] ELSE lockState
  /\ lockNested' = lockNested + 1
  /\ irq' = [irq EXCEPT ![cur] = FALSE]
  /\ inside' = [inside EXCEPT ![cur] = @ + 1]
  /\ UNCHANGED <<cur, started, tick, saved, created, nesting, suspended, missed>>

(* Mutant: the unlock enables interrupts whatever they were.               *)
UnlockEnables ==
  /\ Step("unlock")
  /\ lockNested' = lockNested - 1
  /\ irq' = [irq EXCEPT ![cur] = @ \/ lockNested = 1]
  /\ inside' = [inside EXCEPT ![cur] = @ - 1]
  /\ UNCHANGED <<cur, started, tick, saved, created, nesting, suspended, missed, lockState>>

(* __malloc_unlock                                                         *)
Unlock ==
  /\ Step("unlock")
  /\ lockNested' = lockNested - 1
  /\ irq' = [irq EXCEPT ![cur] = @ \/ (lockNested = 1 /\ lockState)]
  /\ inside' = [inside EXCEPT ![cur] = @ - 1]
  /\ UNCHANGED <<cur, started, tick, saved, created, nesting, suspended, missed, lockState>>

(* vTaskEnterCritical: before the scheduler starts nothing is counted.     *)
Enter ==
  /\ Step("enter")
  /\ irq' = [irq EXCEPT ![cur] = FALSE]
  /\ nesting' = IF started THEN [nesting EXCEPT ![cur] = @ + 1] ELSE nesting
  /\ UNCHANGED <<cur, started, tick, saved, created, suspended, missed, lockNested, lockState,
                 inside>>

(* Mutant: the critical section ends the same way before the start.        *)
ExitEarly ==
  /\ Step("exit")
  /\ nesting' = IF started THEN [nesting EXCEPT ![cur] = @ - 1] ELSE nesting
  /\ irq' = [irq EXCEPT ![cur] = ~started \/ nesting[cur] = 1]
  /\ UNCHANGED <<cur, started, tick, saved, created, suspended, missed, lockNested, lockState,
                 inside>>

(* vTaskExitCritical: the outermost exit enables interrupts, but not before*)
(* the scheduler runs.                                                     *)
Exit ==
  /\ Step("exit")
  /\ IF started /\ nesting[cur] > 0
       THEN /\ nesting' = [nesting EXCEPT ![cur] = @ - 1]
            /\ irq' = [irq EXCEPT ![cur] = @ \/ nesting[cur] = 1]
       ELSE UNCHANGED <<nesting, irq>>
  /\ UNCHANGED <<cur, started, tick, saved, created, suspended, missed, lockNested, lockState,
                 inside>>

Suspend ==
  /\ Step("suspend")
  /\ suspended' = suspended + 1
  /\ UNCHANGED <<cur, started, tick, irq, saved, created, nesting, missed, lockNested, lockState,
                 inside>>

(* The middle of xTaskResumeAll: a missed tick makes it yield before its   *)
(* critical section ends; the next task goes on with its own mask.         *)
Resume ==
  /\ Step("resume")
  /\ suspended' = suspended - 1
  /\ IF suspended = 1 /\ missed
       THEN missed' = FALSE /\ cur' \in created
       ELSE UNCHANGED <<missed, cur>>
  /\ UNCHANGED <<started, tick, irq, saved, created, nesting, lockNested, lockState, inside>>

(* The middle of xTaskGenericCreate: the task is put in the ready lists.   *)
Create ==
  /\ \E t \in Task : Step(t) /\ created' = created \union {t}
  /\ UNCHANGED <<cur, started, tick, irq, saved, nesting, suspended, missed, lockNested,
                 lockState, inside>>

(* boardInit0 unmasks the timer's interrupt.                               *)
Unmask ==
  /\ Step("unmask")
  /\ tick' = TRUE
  /\ UNCHANGED <<cur, started, irq, saved, created, nesting, suspended, missed, lockNested,
                 lockState, inside>>

(* vTaskStartScheduler.                                                    *)
Start ==
  /\ Step("start")
  /\ started' = TRUE
  /\ irq' = [irq EXCEPT ![Boot] = FALSE]
  /\ cur' \in created
  /\ UNCHANGED <<tick, saved, created, nesting, suspended, missed, lockNested, lockState, inside>>

(* timerISR, or another interrupt whose handler switches: the next task    *)
(* runs unless the scheduler is suspended.                                 *)
Interrupt ==
  /\ started /\ irq[cur]
  /\ IF suspended > 0
       THEN missed' = TRUE /\ UNCHANGED cur
       ELSE cur' \in created /\ UNCHANGED missed
  /\ UNCHANGED <<started, tick, irq, steps, saved, created, nesting, suspended, lockNested,
                 lockState, inside>>

Next ==
  \/ Call \/ Disable \/ Restore \/ Lock \/ Unlock \/ Enter \/ Exit
  \/ Suspend \/ Resume \/ Create \/ Unmask \/ Start \/ Interrupt

Spec == Init /\ [][Next]_vars

-----------------------------------------------------------------------------
(* The processor's mask has a value for every context, and the lock counts *)
(* what is taken.                                                          *)
TypeOK ==
  /\ cur \in Context /\ started \in BOOLEAN /\ tick \in BOOLEAN
  /\ irq \in [Context -> BOOLEAN]
  /\ created \subseteq Task
  /\ nesting \in [Task -> 0..2] /\ suspended \in 0..1 /\ missed \in BOOLEAN
  /\ lockNested \in 0..2 /\ lockState \in BOOLEAN
  /\ inside \in [Context -> 0..2]

(* Two contexts are never inside the allocator at once: malloc's lock      *)
(* (libc_glue.c) excludes them although it only masks interrupts and keeps *)
(* its state in two globals.                                               *)
AllocatorExclusive ==
  \A c, d \in Context : inside[c] > 0 /\ inside[d] > 0 => c = d

(* A task that has finished a call runs with interrupts on, whatever was   *)
(* nested in the call and whoever ran meanwhile: otherwise the tick stops  *)
(* for as long as the task runs.                                           *)
MaskReturned ==
  \A t \in created : started /\ steps[t] = << >> => irq[t]

(* The start-up code never runs with interrupts on once the tick is        *)
(* unmasked: the handler would save its registers through pxCurrentTCB,    *)
(* into a task that has not started.                                       *)
BootMasked == tick /\ ~started => ~irq[Boot]
=============================================================================
