---------------------------- MODULE RtosMutexProofs ----------------------------
(* Theorems about mutexes: for every number of tasks, mutexes and          *)
(* priorities, block time and tick width, a borrowed priority is given     *)
(* back and no waiter is forgotten; and with one mutex its holder is as    *)
(* important as every task that waits for it: queue.c and tasks.c.         *)
EXTENDS RtosMutex, KernelProofs, TLAPS

Stamps == {<< >>} \cup (TimeOuts \X (1..MaxDelay))

(* Where the tasks are.  A task holds one mutex at most, and none while it *)
(* is on its way to take one.                                              *)
Calls ==
  /\ holder \in [Mutexes -> Workers \cup {Nobody}]
  /\ depth \in [Mutexes -> 0..MaxDepth]
  /\ pc \in [Workers -> {"run", "try", "wait", "yield"}]
  /\ want \in [Workers -> Mutexes \cup {Nobody}]
  /\ stamp \in [Workers -> Stamps]
  /\ \A m \in Mutexes : /\ holder[m] = Nobody <=> depth[m] = 0
                        /\ holder[m] # Nobody => pc[holder[m]] = "run"
  /\ \A m, n \in Mutexes : holder[m] = holder[n] /\ holder[m] # Nobody => m = n
  /\ \A t \in Workers : /\ want[t] = Nobody <=> pc[t] = "run"
                        /\ pc[t] = "wait" => stamp[t] # << >>

(* The waiters of a mutex want it; the running task is not among them,     *)
(* unless it is about to give up the processor.                            *)
Queued(s, p, w) ==
  \A m \in Mutexes : \A t \in ToSet(s.waiting[m]) :
    /\ t \in Workers /\ w[t] = m /\ p[t] \in {"yield", "try"}
    /\ t = s.current => p[t] = "yield"

Awake(s, p) == IsRunnable(s, s.current) \/ (s.current \in Workers /\ p[s.current] = "yield")

(* A free mutex with waiters is being taken by a ready task that is as     *)
(* important as all of them.                                               *)
Outside(s, t) == \A n \in Mutexes : t \notin ToSet(s.waiting[n])
Takes(s, w, t, m) ==
  /\ w[t] = m /\ Outside(s, t) /\ IsRunnable(s, t)
  /\ \A u \in ToSet(s.waiting[m]) : s.priority[u] <= s.priority[t]
Heard(s, h, w) ==
  \A m \in Mutexes :
    h[m] = Nobody /\ ToSet(s.waiting[m]) # {} => \E t \in Workers : Takes(s, w, t, m)

Own(s, h) ==
  \A t \in Workers : (\A m \in Mutexes : h[m] # t) => s.priority[t] = BasePriority[t]

Sched ==
  /\ Settled(k, Task) /\ k.suspended = 0
  /\ Queued(k, pc, want) /\ Awake(k, pc) /\ Heard(k, holder, want) /\ Own(k, holder)

IInv == Calls /\ Sched

-----------------------------------------------------------------------------
(* What a kernel function does that adds no waiter and changes no          *)
(* priority.                                                               *)
Shrinks(s, r) ==
  /\ Settled(r, Task) /\ r.suspended = 0 /\ r.priority = s.priority
  /\ \A m \in Mutexes : ToSet(r.waiting[m]) \subseteq ToSet(s.waiting[m])
  /\ \A t \in Task \ {s.current} : IsRunnable(s, t) => IsRunnable(r, t)
  /\ \/ Highest(r) /\ IsRunnable(r, r.current)
     \/ r.current = s.current /\ (IsRunnable(s, s.current) => IsRunnable(r, r.current))

(* A ready task waits for nothing.                                         *)
LEMMA ReadyOutside ==
  ASSUME MutexAssumption, NEW s, Settled(s, Task), NEW t \in Task, IsRunnable(s, t)
  PROVE  Outside(s, t)
<1>1. /\ s.priority[t] \in Priorities /\ EventLists = Mutexes
  BY DEF Settled, Sound, Typed, MutexAssumption
<1>2. t \notin Blocked(s)
  BY <1>1 DEF Settled, Sound, Homed, IsRunnable
<1> QED BY <1>1, <1>2 DEF Settled, Sound, Waiters, Outside

(* The timer, in the one place where a task can be interrupted.            *)
LEMMA TimerShrinks ==
  ASSUME MutexAssumption, NEW s, Settled(s, Task), s.suspended = 0
  PROVE  /\ Shrinks(s, TimerIsr(s))
         /\ \A t \in Task : IsRunnable(s, t) => IsRunnable(TimerIsr(s), t)
<1> DEFINE r == TimerIsr(s)
<1>1. Strikes(s, r, Task) /\ Typed(s)
  BY TimerIsrSettled DEF MutexAssumption, Settled, Sound
<1> HIDE DEF r
<1>2. PICK D \in SUBSET Blocked(s) : Woken(s, r, D)
  BY <1>1 DEF Strikes
<1>3. \A t \in Task : IsRunnable(s, t) => IsRunnable(r, t)
  BY <1>1, <1>2, RunnableStays
<1>4. /\ r.priority = s.priority
      /\ \A m \in Mutexes : ToSet(r.waiting[m]) \subseteq ToSet(s.waiting[m])
  BY <1>2 DEF Woken, MutexAssumption
<1> QED BY <1>1, <1>3, <1>4 DEF Strikes, Keeps, Shrinks, r

(* A context switch.                                                       *)
LEMMA SwitchShrinks ==
  ASSUME MutexAssumption, NEW s, Settled(s, Task), s.suspended = 0
  PROVE  /\ Shrinks(s, SwitchContext(s))
         /\ LET r == SwitchContext(s) IN
              /\ Highest(r) /\ IsRunnable(r, r.current)
              /\ \A t \in Task : IsRunnable(s, t) => IsRunnable(r, t)
<1> DEFINE r == SwitchContext(s)
<1>1. /\ Steady(r, Task) /\ Woken(s, r, {}) /\ r.suspended = 0
      /\ r.current \in Task /\ IsRunnable(r, r.current) /\ Typed(s)
  BY SwitchSteady DEF MutexAssumption, Settled, Sound
<1> HIDE DEF r
<1>2. \A t \in Task : IsRunnable(s, t) => IsRunnable(r, t)
  BY <1>1, RunnableStays
<1>3. /\ r.priority = s.priority
      /\ \A m \in Mutexes : ToSet(r.waiting[m]) \subseteq ToSet(s.waiting[m])
  BY <1>1 DEF Woken, MutexAssumption
<1> QED BY <1>1, <1>2, <1>3 DEF Steady, Shrinks, r

(* The end of a suspension, from the state it began in with one list       *)
(* changed at most.                                                        *)
LEMMA ResumeShrinks ==
  ASSUME MutexAssumption, NEW s, Settled(s, Task), s.suspended = 1
  PROVE  /\ Shrinks(s, ResumeAll(s))
         /\ \A t \in Task : IsRunnable(s, t) => IsRunnable(ResumeAll(s), t)
<1> DEFINE r == ResumeAll(s)
<1>1. Resumes(s, r, Task) /\ Typed(s)
  BY ResumeAllSettled DEF MutexAssumption, Settled, Sound
<1> HIDE DEF r
<1>2. PICK D \in SUBSET Blocked(s) : Woken(s, r, D)
  BY <1>1 DEF Resumes
<1>3. \A t \in Task : IsRunnable(s, t) => IsRunnable(r, t)
  BY <1>1, <1>2, RunnableStays
<1>4. /\ r.priority = s.priority
      /\ \A m \in Mutexes : ToSet(r.waiting[m]) \subseteq ToSet(s.waiting[m])
  BY <1>2 DEF Woken, MutexAssumption
<1>5. s.current \in Task
  BY <1>1 DEF Typed
<1> QED BY <1>1, <1>3, <1>4, <1>5 DEF Resumes, Keeps, Shrinks, r


(* Suspending the scheduler changes no list.                               *)
LEMMA SuspendIs ==
  ASSUME NEW s, Settled(s, Task), s.suspended = 0
  PROVE  LET a == SuspendAll(s)
         IN  /\ Settled(a, Task) /\ a.suspended = 1 /\ a.current = s.current
             /\ a.priority = s.priority /\ a.waiting = s.waiting /\ Blocked(a) = Blocked(s)
             /\ a.tick = s.tick /\ a.ready = s.ready
             /\ \A t : IsRunnable(s, t) <=> IsRunnable(a, t)
<1> DEFINE a == SuspendAll(s)
<1>1. /\ Settled(a, Task) /\ SameLists(s, a) /\ a.suspended = s.suspended + 1
      /\ a.current = s.current /\ a.tick = s.tick
  BY SuspendAllSettled DEF Keeps
<1> HIDE DEF a
<1> QED BY <1>1 DEF SameLists, Blocked, IsRunnable, a

(* A suspension in which the caller does not go to wait.                   *)
LEMMA PauseShrinks ==
  ASSUME MutexAssumption, NEW s, Settled(s, Task), s.suspended = 0
  PROVE  /\ Shrinks(s, ResumeAll(SuspendAll(s)))
         /\ \A t \in Task : IsRunnable(s, t) => IsRunnable(ResumeAll(SuspendAll(s)), t)
<1> DEFINE a == SuspendAll(s)
           r == ResumeAll(a)
<1>1. /\ Settled(a, Task) /\ a.suspended = 1 /\ a.current = s.current
      /\ a.priority = s.priority /\ a.waiting = s.waiting
      /\ \A t : IsRunnable(s, t) <=> IsRunnable(a, t)
  BY SuspendIs
<1> HIDE DEF a
<1>2. Shrinks(a, r) /\ \A t \in Task : IsRunnable(a, t) => IsRunnable(r, t)
  BY <1>1, ResumeShrinks
<1> HIDE DEF r
<1> QED BY <1>1, <1>2 DEF Shrinks, r, a

(* vTaskDelay: another task runs.                                          *)
LEMMA DelayShrinks ==
  ASSUME MutexAssumption, NEW s, Settled(s, Task), s.suspended = 0,
         s.current # Idle, IsRunnable(s, s.current)
  PROVE  LET r == SwitchContext(ResumeAll(DelayCurrent(SuspendAll(s), 1)))
         IN  Shrinks(s, r) /\ Highest(r) /\ IsRunnable(r, r.current)
<1> DEFINE a == SuspendAll(s)
           d == DelayCurrent(a, 1)
           b == ResumeAll(d)
           r == SwitchContext(b)
<1>1. /\ Settled(a, Task) /\ a.suspended = 1 /\ a.current = s.current
      /\ a.priority = s.priority /\ a.waiting = s.waiting /\ a.ready = s.ready
      /\ \A t : IsRunnable(s, t) <=> IsRunnable(a, t)
  BY SuspendIs
<1> HIDE DEF a
<1>2. /\ Typed(a) /\ Homed(a, Task) /\ Events(a) /\ Timed(a) /\ IdleReady(a)
      /\ a.current \in Task
      /\ \A e \in EventLists : ToSet(a.waiting[e]) \subseteq Blocked(a) \cup {a.current}
      /\ ToSet(a.pending) \subseteq Blocked(a) \cup {a.current}
  BY <1>1 DEF Settled, Sound, Typed, Waiters
<1>3. 1 \in 1..MaxDelay
  BY DEF MutexAssumption, TickAssumption, MaxDelay
<1>4. Sound(d, Task) /\ Timed(d) /\ IdleReady(d) /\ Sleeps(a, d, 1)
  BY <1>1, <1>2, <1>3, DelayCurrentSound DEF MutexAssumption
<1> HIDE DEF d
<1>5. /\ Settled(d, Task) /\ d.suspended = 1 /\ d.current = s.current
      /\ d.priority = s.priority /\ d.waiting = s.waiting
  BY <1>1, <1>4 DEF Settled, Sleeps, Still
<1>6. \A t \in Task \ {s.current} : IsRunnable(s, t) => IsRunnable(d, t)
  <2>1. \A t \in Task : s.priority[t] \in Priorities
    BY DEF Settled, Sound, Typed
  <2> QED BY <1>1, <1>4, <1>5, <2>1 DEF Sleeps, IsRunnable
<1>7. Shrinks(d, b) /\ \A t \in Task : IsRunnable(d, t) => IsRunnable(b, t)
  BY <1>5, ResumeShrinks
<1> HIDE DEF b
<1>8. Settled(b, Task) /\ b.suspended = 0
  BY <1>7 DEF Shrinks
<1>9. /\ Shrinks(b, r) /\ Highest(r) /\ IsRunnable(r, r.current)
  BY <1>8, SwitchShrinks
<1>10. \A t \in Task \ {s.current} : IsRunnable(s, t) => IsRunnable(r, t)
  <2>1. \A t \in Task : IsRunnable(b, t) => IsRunnable(r, t)
    BY <1>8, SwitchShrinks
  <2> QED BY <1>6, <1>7, <2>1
<1> HIDE DEF r
<1> QED BY <1>5, <1>7, <1>9, <1>10 DEF Shrinks, r, b, d, a

(* A task goes to wait, and lends its priority to the holder.              *)
Blocks(s, r, m, h) ==
  /\ Settled(r, Task) /\ r.suspended = 0
  /\ \E p \in Priorities : /\ r.priority = [s.priority EXCEPT ![h] = p]
                          /\ s.priority[s.current] <= p /\ s.priority[h] <= p
  /\ \A n \in Mutexes :
       ToSet(r.waiting[n]) \subseteq ToSet(s.waiting[n]) \cup {t \in {s.current} : n = m}
  /\ \A t \in Task \ {s.current} : IsRunnable(s, t) => IsRunnable(r, t)
  /\ IsRunnable(r, r.current) \/ r.current = s.current

(* vTaskSuspendAll to xTaskResumeAll of a take that has to wait.           *)
LEMMA WaitBlocks ==
  ASSUME MutexAssumption, NEW s, Settled(s, Task), s.suspended = 0,
         s.current # Idle, IsRunnable(s, s.current),
         NEW m \in Mutexes, NEW left \in 1..MaxDelay,
         NEW h \in Workers, Outside(s, h)
  PROVE  Blocks(s, ResumeAll(PlaceOnEventList(PriorityInherit(SuspendAll(s), h), m, left)), m, h)
<1> DEFINE a == SuspendAll(s)
           b == PriorityInherit(a, h)
           c == PlaceOnEventList(b, m, left)
           r == ResumeAll(c)
<1>1. /\ Settled(a, Task) /\ a.suspended = 1 /\ a.current = s.current
      /\ a.priority = s.priority /\ a.waiting = s.waiting /\ a.ready = s.ready
      /\ \A t : IsRunnable(s, t) <=> IsRunnable(a, t)
  BY SuspendIs
<1> HIDE DEF a
<1>2. /\ h \in Task /\ h # Idle /\ EventLists = Mutexes /\ TaskAssumption /\ TickAssumption
      /\ \A e \in EventLists : h \notin ToSet(a.waiting[e])
  BY <1>1 DEF MutexAssumption, Workers, Outside
<1>3. Settled(b, Task) /\ \E p \in Priorities : /\ Reranks(a, b, h, p)
                                               /\ a.priority[a.current] <= p /\ a.priority[h] <= p
  BY <1>1, <1>2, PriorityInheritSettled
<1> HIDE DEF b
<1>4. PICK p \in Priorities : /\ Reranks(a, b, h, p)
                              /\ s.priority[s.current] <= p /\ s.priority[h] <= p
  BY <1>1, <1>3
<1>5. /\ b.current = s.current /\ b.suspended = 1 /\ b.waiting = s.waiting
      /\ b.priority = [s.priority EXCEPT ![h] = p] /\ b.current \in Task
      /\ \A t \in Task : IsRunnable(s, t) => IsRunnable(b, t)
  <2>1. s.current \in Task
    BY DEF Settled, Sound, Typed
  <2> QED BY <1>1, <1>4, <2>1 DEF Reranks, Still
<1>6. IsRunnable(b, b.current)
  BY <1>5
<1>7. Settled(c, Task) /\ Places(b, c, m, left)
  BY <1>2, <1>3, <1>5, <1>6, PlaceOnEventListSettled DEF Keeps
<1> HIDE DEF c
<1>8. /\ c.current = s.current /\ c.suspended = 1
      /\ c.priority = [s.priority EXCEPT ![h] = p]
      /\ \A n \in Mutexes :
           ToSet(c.waiting[n]) = ToSet(s.waiting[n]) \cup {t \in {s.current} : n = m}
  <2>1. /\ c.current = s.current /\ c.suspended = 1
        /\ c.priority = [s.priority EXCEPT ![h] = p]
        /\ ToSet(c.waiting[m]) = ToSet(s.waiting[m]) \cup {s.current}
        /\ \A n \in Mutexes : n # m => c.waiting[n] = s.waiting[n]
    BY <1>2, <1>5, <1>7 DEF Places, Still
  <2> QED BY <2>1
<1>9. \A t \in Task \ {s.current} : IsRunnable(s, t) => IsRunnable(c, t)
  <2>1. \A t \in Task : b.priority[t] \in Priorities
    BY <1>3 DEF Settled, Sound, Typed
  <2> QED BY <1>5, <1>7, <2>1 DEF Places, IsRunnable
<1>10. Shrinks(c, r) /\ \A t \in Task : IsRunnable(c, t) => IsRunnable(r, t)
  BY <1>7, <1>8, ResumeShrinks
<1> HIDE DEF r
<1>11. /\ Settled(r, Task) /\ r.suspended = 0 /\ r.priority = [s.priority EXCEPT ![h] = p]
       /\ IsRunnable(r, r.current) \/ r.current = s.current
       /\ \A n \in Mutexes : ToSet(r.waiting[n]) \subseteq ToSet(c.waiting[n])
  BY <1>8, <1>10 DEF Shrinks
<1> QED BY <1>4, <1>8, <1>9, <1>10, <1>11 DEF Blocks, r, c, b, a

(* The last give: the task is no more important than by itself, and the    *)
(* first waiter is ready.                                                  *)
Returns(s, r, m) ==
  /\ Settled(r, Task) /\ r.suspended = 0
  /\ r.priority = [s.priority EXCEPT ![s.current] = BasePriority[s.current]]
  /\ \A t \in Task : IsRunnable(s, t) => IsRunnable(r, t)
  /\ IsRunnable(r, r.current)
  /\ \A n \in Mutexes : ToSet(r.waiting[n]) \subseteq ToSet(s.waiting[n])
  /\ s.waiting[m] # << >> =>
       LET h == Head(s.waiting[m]) IN
         /\ h \in ToSet(s.waiting[m]) /\ Outside(r, h) /\ IsRunnable(r, h)
         /\ \A t \in ToSet(s.waiting[m]) : s.priority[t] <= s.priority[h]
         /\ Highest(r) \/ (r.current = s.current /\ r.priority[h] < r.priority[s.current])

(* vTaskPriorityDisinherit and the wake-up that follows it.                *)
LEMMA GiveReturns ==
  ASSUME MutexAssumption, NEW s, Settled(s, Task), s.suspended = 0,
         s.current # Idle, IsRunnable(s, s.current), NEW m \in Mutexes
  PROVE  Returns(s, WakeOne(PriorityDisinherit(s, s.current), m), m)
<1> DEFINE c == s.current
           a == PriorityDisinherit(s, c)
           r == WakeOne(a, m)
           h == Head(s.waiting[m])
<1>1. /\ TaskAssumption /\ TickAssumption /\ EventLists = Mutexes /\ c \in Task
      /\ Sound(s, Task) /\ s.priority \in [Task -> Priorities] /\ s.waiting[m] \in TaskList
      /\ BasePriority[c] \in Priorities
  BY DEF MutexAssumption, TaskAssumption, Priorities, Settled, Sound, Typed
<1>2. Settled(a, Task) /\ Reranks(s, a, c, BasePriority[c])
  BY <1>1, PriorityDisinheritSettled
<1> HIDE DEF a
<1>3. /\ a.current = c /\ a.suspended = 0 /\ a.waiting = s.waiting
      /\ a.priority = [s.priority EXCEPT ![c] = BasePriority[c]]
      /\ \A t \in Task : IsRunnable(s, t) => IsRunnable(a, t)
  BY <1>2 DEF Reranks, Still
<1>4. WakesFirst(a, r, m, Task)
  BY <1>1, <1>2, WakeOneSettled
<1> HIDE DEF r, c
<1>5. /\ Settled(r, Task) /\ r.suspended = 0 /\ r.priority = a.priority
      /\ \A t \in Task : IsRunnable(s, t) => IsRunnable(r, t)
  BY <1>3, <1>4 DEF WakesFirst, Keeps
<1>6. IsRunnable(r, r.current)
  BY <1>1, <1>3, <1>4, <1>5 DEF WakesFirst, c
<1>7. \A n \in Mutexes : ToSet(r.waiting[n]) \subseteq ToSet(s.waiting[n])
  <2>1. CASE s.waiting[m] = << >>
    BY <1>3, <1>4, <2>1 DEF WakesFirst
  <2>2. CASE s.waiting[m] # << >>
    BY <1>1, <1>3, <1>4, <2>2 DEF WakesFirst
  <2> QED BY <2>1, <2>2
<1>8. ASSUME s.waiting[m] # << >>
      PROVE  /\ h \in ToSet(s.waiting[m]) /\ Outside(r, h) /\ IsRunnable(r, h)
             /\ \A t \in ToSet(s.waiting[m]) : s.priority[t] <= s.priority[h]
             /\ Highest(r) \/ (r.current = c /\ r.priority[h] < r.priority[c])
  <2>1. /\ h \in ToSet(s.waiting[m])
        /\ \A t \in ToSet(s.waiting[m]) : s.priority[t] <= s.priority[h]
    BY <1>1, <1>8, FirstIsHighest
  <2>2. \A n \in Mutexes : ToSet(r.waiting[n]) = ToSet(s.waiting[n]) \ {h}
    BY <1>1, <1>3, <1>4, <1>8 DEF WakesFirst
  <2>3. IsRunnable(r, h)
    BY <1>3, <1>4, <1>8 DEF WakesFirst
  <2>4. h \in Task
    BY <1>1, <2>1, ListIs
  <2>5. CASE Highest(r)
    BY <2>1, <2>2, <2>3, <2>5 DEF Outside
  <2>6. CASE r.current = c /\ ~UnblocksHigher(a, m)
    <3>1. a.priority \in [Task -> Priorities] /\ \A q \in Priorities : q \in Int
      BY <1>1, <1>2 DEF Settled, Sound, Typed, TaskAssumption, Priorities
    <3>2. a.priority[h] < a.priority[c]
      BY <1>1, <1>3, <2>4, <2>6, <3>1 DEF UnblocksHigher
    <3> QED BY <1>5, <2>1, <2>2, <2>3, <2>6, <3>2 DEF Outside
  <2> QED BY <1>3, <1>4, <1>8, <2>5, <2>6 DEF WakesFirst
<1> QED BY <1>3, <1>5, <1>6, <1>7, <1>8 DEF Returns, r, a, h, c

-----------------------------------------------------------------------------
(* The invariant holds at the start, and every step keeps it.              *)
LEMMA InitHolds == ASSUME MutexAssumption, Init PROVE IInv
<1>1. PICK lists \in ReadyLists : k = Started(lists)
  BY DEF Init
<1>2. Starts(k)
  BY <1>1, StartedSteady DEF MutexAssumption
<1>3. Calls
  BY DEF Init, Calls, Stamps, MutexAssumption
<1>4. \A m \in Mutexes : ToSet(k.waiting[m]) = {}
  BY <1>2, EmptyList DEF Starts, MutexAssumption
<1>5. Settled(k, Task) /\ k.suspended = 0 /\ Awake(k, pc)
  BY <1>2 DEF Starts, Steady, Awake
<1>6. Queued(k, pc, want) /\ Heard(k, holder, want)
  BY <1>4 DEF Queued, Heard
<1>7. Own(k, holder)
  BY <1>2 DEF Starts, Own, Workers
<1> QED BY <1>3, <1>5, <1>6, <1>7 DEF IInv, Sched


(* What a task knows that runs and is not about to yield.                  *)
LEMMA AtStep ==
  ASSUME MutexAssumption, IInv, NEW t \in Workers, NEW step, At(t, step), step # "yield"
  PROVE  /\ k.current = t /\ pc[t] = step /\ t \in Task /\ t # Idle
         /\ IsRunnable(k, t) /\ Outside(k, t)
<1>1. k.current = t /\ pc[t] = step /\ t \in Task /\ t # Idle
  BY DEF At, Workers
<1>2. IsRunnable(k, t)
  BY <1>1 DEF IInv, Sched, Awake
<1> QED BY <1>1, <1>2, ReadyOutside DEF IInv, Sched

(* A step that adds no waiter and changes no priority.                     *)
LEMMA ShrinkKeeps ==
  ASSUME MutexAssumption, IInv, Shrinks(k, k'), UNCHANGED <<holder, want>>,
         \A u \in Workers :
           \/ pc'[u] = pc[u]
           \/ u = k.current /\ pc'[u] = "try" /\ IsRunnable(k', k'.current),
         \A u \in Workers : want[u] # Nobody /\ IsRunnable(k, u) => IsRunnable(k', u)
  PROVE  Sched'
<1>1. /\ Settled(k, Task) /\ k.suspended = 0 /\ Calls
      /\ Queued(k, pc, want) /\ Awake(k, pc) /\ Heard(k, holder, want) /\ Own(k, holder)
  BY DEF IInv, Sched
<1>2. /\ Settled(k', Task) /\ k'.suspended = 0 /\ k'.priority = k.priority
      /\ \A m \in Mutexes : ToSet(k'.waiting[m]) \subseteq ToSet(k.waiting[m])
      /\ \/ IsRunnable(k', k'.current)
         \/ k'.current = k.current /\ (IsRunnable(k, k.current) => IsRunnable(k', k'.current))
  BY DEF Shrinks
<1>3. ASSUME NEW m \in Mutexes, NEW t \in ToSet(k'.waiting[m])
      PROVE  /\ t \in Workers /\ want'[t] = m /\ pc'[t] \in {"yield", "try"}
             /\ t = k'.current => pc'[t] = "yield"
  <2>1. /\ t \in ToSet(k.waiting[m]) /\ t \in Workers /\ want[t] = m
        /\ pc[t] \in {"yield", "try"} /\ (t = k.current => pc[t] = "yield")
    BY <1>1, <1>2, <1>3 DEF Queued
  <2>2. ~IsRunnable(k', t)
    <3>1. t \in Task
      BY <2>1 DEF Workers
    <3>2. ~Outside(k', t)
      BY <1>3 DEF Outside
    <3> QED BY <1>2, <3>1, <3>2, ReadyOutside
  <2> QED BY <1>2, <2>1, <2>2
<1>4. Queued(k', pc', want')
  BY <1>3 DEF Queued
<1>5. Awake(k', pc')
  BY <1>1, <1>2 DEF Awake
<1>6. Heard(k', holder', want')
  <2> SUFFICES ASSUME NEW m \in Mutexes, holder[m] = Nobody, ToSet(k'.waiting[m]) # {}
               PROVE  \E t \in Workers : Takes(k', want, t, m)
    BY DEF Heard
  <2>1. PICK t \in Workers : Takes(k, want, t, m)
    BY <1>1, <1>2 DEF Heard
  <2>2. want[t] # Nobody
    BY <2>1 DEF Takes, MutexAssumption
  <2>3. IsRunnable(k', t)
    BY <2>1, <2>2 DEF Takes
  <2>4. Outside(k', t)
    BY <1>2, <2>1 DEF Takes, Outside
  <2>5. \A u \in ToSet(k'.waiting[m]) : k'.priority[u] <= k'.priority[t]
    BY <1>2, <2>1 DEF Takes
  <2>6. want[t] = m
    BY <2>1 DEF Takes
  <2> QED BY <2>3, <2>4, <2>5, <2>6 DEF Takes
<1>7. Own(k', holder')
  BY <1>1, <1>2 DEF Own
<1> QED BY <1>2, <1>4, <1>5, <1>6, <1>7 DEF Sched


(* A task begins to take a mutex.                                          *)
LEMMA TakeKeeps ==
  ASSUME MutexAssumption, IInv, NEW t \in Workers, NEW m \in Mutexes, Take(t, m)
  PROVE  IInv'
<1>1. /\ Calls /\ Sched /\ m # Nobody /\ IsRunnable(k, t) /\ Outside(k, t) /\ k.current = t
      /\ pc[t] = "run" /\ want[t] = Nobody
  BY AtStep DEF IInv, Take, Calls, MutexAssumption
<1>2. /\ \A n \in Mutexes : holder[n] # t
      /\ pc' = [pc EXCEPT ![t] = "try"] /\ want' = [want EXCEPT ![t] = m]
      /\ UNCHANGED <<k, holder, depth, stamp>>
  BY DEF Take, Holds, Goto
<1>3. \A u \in Workers : /\ pc'[u] = IF u = t THEN "try" ELSE pc[u]
                         /\ want'[u] = IF u = t THEN m ELSE want[u]
  BY <1>1, <1>2 DEF Calls
<1>4. Calls'
  <2>1. /\ pc' \in [Workers -> {"run", "try", "wait", "yield"}]
        /\ want' \in [Workers -> Mutexes \cup {Nobody}]
    BY <1>1, <1>2 DEF Calls
  <2> QED BY <1>1, <1>2, <1>3, <2>1 DEF Calls
<1>5. Queued(k, pc', want') /\ Awake(k, pc')
  BY <1>1, <1>3 DEF Sched, Queued, Awake, Outside
<1>6. Heard(k, holder, want')
  BY <1>1, <1>3 DEF Sched, Heard, Takes, MutexAssumption
<1> QED BY <1>1, <1>2, <1>4, <1>5, <1>6 DEF IInv, Sched

(* The holder takes it once more.                                          *)
LEMMA TakeAgainKeeps ==
  ASSUME MutexAssumption, IInv, NEW t \in Workers, NEW m \in Mutexes, TakeAgain(t, m)
  PROVE  IInv'
<1>1. /\ Calls /\ Sched /\ holder[m] # Nobody /\ depth[m] \in 0..MaxDepth - 1
      /\ depth' = [depth EXCEPT ![m] = @ + 1] /\ UNCHANGED <<k, holder, pc, want, stamp>>
  BY DEF IInv, TakeAgain, Calls, MutexAssumption, Workers
<1>2. depth' \in [Mutexes -> 0..MaxDepth] /\ depth'[m] # 0
  BY <1>1 DEF Calls, MutexAssumption
<1>3. Calls'
  BY <1>1, <1>2 DEF Calls
<1> QED BY <1>1, <1>3 DEF IInv, Sched

(* A task gets the mutex it wants.                                         *)
LEMMA ObtainKeeps ==
  ASSUME MutexAssumption, IInv, NEW t \in Workers, Obtain(t)
  PROVE  IInv'
<1> DEFINE m == want[t]
<1>1. /\ Calls /\ Sched /\ IsRunnable(k, t) /\ Outside(k, t) /\ k.current = t
      /\ pc[t] = "try" /\ m \in Mutexes /\ m # Nobody /\ t # Nobody
  BY AtStep DEF IInv, Obtain, Calls, MutexAssumption, Workers
<1>2. /\ holder[m] = Nobody
      /\ holder' = [holder EXCEPT ![m] = t] /\ depth' = [depth EXCEPT ![m] = 1]
      /\ want' = [want EXCEPT ![t] = Nobody] /\ stamp' = [stamp EXCEPT ![t] = << >>]
      /\ pc' = [pc EXCEPT ![t] = "run"] /\ k' = k
  BY DEF Obtain, Goto
<1> HIDE DEF m
<1>3. /\ \A u \in Workers : /\ pc'[u] = IF u = t THEN "run" ELSE pc[u]
                            /\ want'[u] = IF u = t THEN Nobody ELSE want[u]
      /\ \A n \in Mutexes : /\ holder'[n] = IF n = m THEN t ELSE holder[n]
                            /\ depth'[n] = IF n = m THEN 1 ELSE depth[n]
  BY <1>1, <1>2 DEF Calls
<1>4. \A n \in Mutexes : holder[n] # t
  BY <1>1 DEF Calls
<1>5. Calls'
  <2>1. /\ pc' \in [Workers -> {"run", "try", "wait", "yield"}]
        /\ want' \in [Workers -> Mutexes \cup {Nobody}]
        /\ holder' \in [Mutexes -> Workers \cup {Nobody}]
    BY <1>1, <1>2 DEF Calls
  <2>2. depth' \in [Mutexes -> 0..MaxDepth]
    BY <1>1, <1>2 DEF Calls, MutexAssumption
  <2>3. stamp' \in [Workers -> Stamps] /\ \A u \in Workers : u # t => stamp'[u] = stamp[u]
    BY <1>1, <1>2 DEF Calls, Stamps
  <2>4. \A n \in Mutexes : /\ holder'[n] = Nobody <=> depth'[n] = 0
                           /\ holder'[n] # Nobody => pc'[holder'[n]] = "run"
    BY <1>1, <1>3 DEF Calls
  <2>5. \A n, o \in Mutexes : holder'[n] = holder'[o] /\ holder'[n] # Nobody => n = o
    BY <1>1, <1>3, <1>4 DEF Calls
  <2>6. \A u \in Workers : /\ want'[u] = Nobody <=> pc'[u] = "run"
                           /\ pc'[u] = "wait" => stamp'[u] # << >>
    BY <1>1, <1>3, <2>3 DEF Calls
  <2> QED BY <2>1, <2>2, <2>3, <2>4, <2>5, <2>6 DEF Calls
<1>6. Queued(k, pc', want') /\ Awake(k, pc')
  BY <1>1, <1>3 DEF Sched, Queued, Awake, Outside
<1>7. Heard(k, holder', want')
  <2> SUFFICES ASSUME NEW n \in Mutexes, holder'[n] = Nobody, ToSet(k.waiting[n]) # {}
               PROVE  \E u \in Workers : Takes(k, want', u, n)
    BY DEF Heard
  <2>1. n # m /\ holder[n] = Nobody
    BY <1>1, <1>3
  <2>2. PICK u \in Workers : Takes(k, want, u, n)
    BY <1>1, <2>1 DEF Sched, Heard
  <2>3. want'[u] = n
    BY <1>3, <2>1, <2>2 DEF Takes, m
  <2> QED BY <2>2, <2>3 DEF Takes
<1>8. Own(k, holder')
  <2> SUFFICES ASSUME NEW u \in Workers, \A n \in Mutexes : holder'[n] # u
               PROVE  k.priority[u] = BasePriority[u]
    BY DEF Own
  <2>1. \A n \in Mutexes : holder[n] # u
    BY <1>1, <1>2, <1>3 DEF Workers, MutexAssumption
  <2> QED BY <1>1, <2>1 DEF Sched, Own
<1> QED BY <1>1, <1>2, <1>5, <1>6, <1>7, <1>8 DEF IInv, Sched

(* The stamp of a time-out.                                                *)
LEMMA StampIs ==
  ASSUME MutexAssumption, Sched
  PROVE  SetTimeOutState(k) \in TimeOuts /\ WaitTicks \in 1..MaxDelay
<1>1. k.tick \in 0..MaxDelay /\ k.overflows \in 0..OverflowRange - 1
  BY DEF Sched, Settled, Sound, Typed
<1> QED BY <1>1 DEF SetTimeOutState, TimeOuts, MutexAssumption

(* A task on its way to take a mutex holds none.                           *)
LEMMA NotHolder ==
  ASSUME MutexAssumption, Calls, NEW t \in Workers, pc[t] # "run"
  PROVE  \A n \in Mutexes : holder[n] # t
<1>1. t # Nobody
  BY DEF MutexAssumption, Workers
<1> QED BY <1>1 DEF Calls

(* The mutex is taken: the task will wait.                                 *)
LEMMA RefusedKeeps ==
  ASSUME MutexAssumption, IInv, NEW t \in Workers, Refused(t)
  PROVE  IInv'
<1>1. /\ Calls /\ Sched /\ IsRunnable(k, t) /\ Outside(k, t) /\ k.current = t
      /\ pc[t] = "try"
  BY AtStep DEF IInv, Refused
<1>2. /\ stamp' = [stamp EXCEPT ![t] = IF @ = << >> THEN <<SetTimeOutState(k), WaitTicks>> ELSE @]
      /\ pc' = [pc EXCEPT ![t] = "wait"]
      /\ UNCHANGED <<k, holder, depth, want>>
  BY DEF Refused, Goto
<1>3. \A u \in Workers : pc'[u] = IF u = t THEN "wait" ELSE pc[u]
  BY <1>1, <1>2 DEF Calls
<1> DEFINE now == <<SetTimeOutState(k), WaitTicks>>
<1>4. now \in Stamps /\ now # << >>
  BY <1>1, StampIs DEF Stamps
<1>7. stamp' = [stamp EXCEPT ![t] = IF @ = << >> THEN now ELSE @]
  BY <1>2
<1> HIDE DEF now
<1>5. Calls'
  <2>1. pc' \in [Workers -> {"run", "try", "wait", "yield"}]
    BY <1>1, <1>2 DEF Calls
  <2>2. /\ stamp' \in [Workers -> Stamps] /\ stamp'[t] # << >>
        /\ \A u \in Workers : u # t => stamp'[u] = stamp[u]
    <3>1. stamp \in [Workers -> Stamps]
      BY <1>1 DEF Calls
    <3> QED BY <1>4, <1>7, <3>1
  <2>3. \A n \in Mutexes : holder[n] # t
    BY <1>1, NotHolder
  <2> QED BY <1>1, <1>2, <1>3, <2>1, <2>2, <2>3 DEF Calls
<1>6. Queued(k, pc', want) /\ Awake(k, pc')
  BY <1>1, <1>3 DEF Sched, Queued, Awake, Outside
<1> QED BY <1>1, <1>2, <1>5, <1>6 DEF IInv, Sched

(* The timer.                                                              *)
LEMMA TimerKeeps == ASSUME MutexAssumption, IInv, Timer PROVE IInv'
<1>1. /\ Calls /\ Settled(k, Task) /\ k.suspended = 0
      /\ k' = TimerIsr(k) /\ UNCHANGED <<holder, depth, pc, want, stamp>>
  BY DEF IInv, Sched, Timer
<1>2. Shrinks(k, k') /\ \A u \in Task : IsRunnable(k, u) => IsRunnable(k', u)
  BY <1>1, TimerShrinks
<1>3. Sched'
  BY <1>1, <1>2, ShrinkKeeps DEF Workers
<1>4. Calls'
  BY <1>1 DEF Calls
<1> QED BY <1>3, <1>4 DEF IInv


(* The task yields after it has gone to wait.                              *)
LEMMA YieldKeeps ==
  ASSUME MutexAssumption, IInv, NEW t \in Workers, Yield(t)
  PROVE  IInv'
<1>1. /\ Calls /\ Settled(k, Task) /\ k.suspended = 0 /\ k.current = t /\ pc[t] = "yield"
      /\ k' = SwitchContext(k) /\ pc' = [pc EXCEPT ![t] = "try"]
      /\ UNCHANGED <<holder, depth, want, stamp>>
  BY DEF IInv, Sched, Yield, At, Goto
<1>2. /\ Shrinks(k, k') /\ IsRunnable(k', k'.current)
      /\ \A u \in Task : IsRunnable(k, u) => IsRunnable(k', u)
  BY <1>1, SwitchShrinks
<1>3. \A u \in Workers : pc'[u] = IF u = t THEN "try" ELSE pc[u]
  BY <1>1 DEF Calls
<1>4. Sched'
  BY <1>1, <1>2, <1>3, ShrinkKeeps DEF Workers
<1>5. Calls'
  <2>1. pc' \in [Workers -> {"run", "try", "wait", "yield"}]
    BY <1>1 DEF Calls
  <2>2. \A n \in Mutexes : holder[n] # t
    BY <1>1, NotHolder
  <2> QED BY <1>1, <1>3, <2>1, <2>2 DEF Calls
<1> QED BY <1>4, <1>5 DEF IInv

(* A task sleeps, with the mutex it may hold.                              *)
LEMMA DelayKeeps ==
  ASSUME MutexAssumption, IInv, NEW t \in Workers, Delay(t)
  PROVE  IInv'
<1>1. /\ Calls /\ Settled(k, Task) /\ k.suspended = 0 /\ k.current = t /\ pc[t] = "run"
      /\ t # Idle /\ IsRunnable(k, t)
  BY AtStep DEF IInv, Sched, Delay
<1>2. /\ k' = SwitchContext(ResumeAll(DelayCurrent(SuspendAll(k), 1)))
      /\ UNCHANGED <<holder, depth, pc, want, stamp>>
  BY DEF Delay
<1>3. Shrinks(k, k')
  BY <1>1, <1>2, DelayShrinks
<1>4. \A u \in Workers : want[u] # Nobody /\ IsRunnable(k, u) => IsRunnable(k', u)
  <2>1. want[t] = Nobody
    BY <1>1 DEF Calls
  <2> QED BY <1>1, <1>3, <2>1 DEF Shrinks, Workers
<1>5. Sched'
  BY <1>2, <1>3, <1>4, ShrinkKeeps
<1>6. Calls'
  BY <1>1, <1>2 DEF Calls
<1> QED BY <1>5, <1>6 DEF IInv

(* The ticks that are left of a time-out that is not over.                 *)
LEMMA LeftIs ==
  ASSUME MutexAssumption, Sched, NEW s \in TimeOuts \X (1..MaxDelay),
         ~TimedOut(k, s[1], s[2])
  PROVE  s[2] - ElapsedSince(k, s[1]) \in 1..MaxDelay
<1>1. k.tick \in 0..MaxDelay /\ s[1].tick \in 0..MaxDelay /\ s[2] \in 1..MaxDelay
  BY DEF Sched, Settled, Sound, Typed, TimeOuts
<1>2. TickRange \in Nat \ {0} /\ MaxDelay = TickRange - 1
  BY DEF MutexAssumption, TickAssumption, MaxDelay
<1>3. ElapsedSince(k, s[1]) \in 0..TickRange - 1
  <2>1. k.tick - s[1].tick \in Int
    BY <1>1, <1>2
  <2> QED BY <1>2, <2>1 DEF ElapsedSince
<1>4. ~(ElapsedSince(k, s[1]) >= s[2])
  BY DEF TimedOut
<1> QED BY <1>1, <1>2, <1>3, <1>4

(* The task gives up, finds the mutex free, or goes to wait.               *)
LEMMA WaitKeeps ==
  ASSUME MutexAssumption, IInv, NEW t \in Workers, Wait(t)
  PROVE  IInv'
<1> DEFINE m == want[t]
           left == stamp[t][2] - ElapsedSince(k, stamp[t][1])
           again == <<SetTimeOutState(k), left>>
<1>1. /\ Calls /\ Sched /\ Settled(k, Task) /\ k.suspended = 0 /\ k.current = t
      /\ pc[t] = "wait" /\ t \in Task /\ t # Idle /\ IsRunnable(k, t) /\ Outside(k, t)
  BY AtStep DEF IInv, Sched, Wait
<1>2. /\ m \in Mutexes /\ stamp[t] \in TimeOuts \X (1..MaxDelay)
      /\ \A n \in Mutexes : holder[n] # t
      /\ UNCHANGED <<holder, depth, want>>
  <2>1. /\ want \in [Workers -> Mutexes \cup {Nobody}] /\ want[t] # Nobody
        /\ stamp \in [Workers -> Stamps] /\ stamp[t] # << >>
    BY <1>1 DEF Calls
  <2>2. m \in Mutexes /\ stamp[t] \in TimeOuts \X (1..MaxDelay)
    BY <2>1 DEF Stamps
  <2>3. UNCHANGED <<holder, depth, want>>
    BY DEF Wait
  <2> QED BY <1>1, <2>2, <2>3, NotHolder
<1>3. ASSUME NEW step \in {"try", "yield"}, NEW new \in Stamps,
             pc' = [pc EXCEPT ![t] = step], stamp' = [stamp EXCEPT ![t] = new]
      PROVE  Calls' /\ \A u \in Workers : pc'[u] = IF u = t THEN step ELSE pc[u]
  <2>1. \A u \in Workers : pc'[u] = IF u = t THEN step ELSE pc[u]
    BY <1>1, <1>3 DEF Calls
  <2>2. /\ pc' \in [Workers -> {"run", "try", "wait", "yield"}]
        /\ stamp' \in [Workers -> Stamps]
        /\ \A u \in Workers : u # t => stamp'[u] = stamp[u]
    BY <1>1, <1>3 DEF Calls
  <2> QED BY <1>1, <1>2, <2>1, <2>2 DEF Calls
<1>4. ASSUME pc' = [pc EXCEPT ![t] = "try"], k' = ResumeAll(SuspendAll(k))
      PROVE  Sched'
  <2>1. Shrinks(k, k') /\ \A u \in Task : IsRunnable(k, u) => IsRunnable(k', u)
    BY <1>1, <1>4, PauseShrinks
  <2>2. IsRunnable(k', k'.current)
    BY <1>1, <2>1 DEF Shrinks
  <2>3. \A u \in Workers : pc'[u] = IF u = t THEN "try" ELSE pc[u]
    BY <1>1, <1>4 DEF Calls
  <2> QED BY <1>1, <1>2, <2>1, <2>2, <2>3, ShrinkKeeps DEF Workers
<1>5. CASE TimedOut(k, stamp[t][1], stamp[t][2])
  <2>1. /\ pc' = [pc EXCEPT ![t] = "try"] /\ stamp' = [stamp EXCEPT ![t] = << >>]
        /\ k' = ResumeAll(SuspendAll(k))
    BY <1>5 DEF Wait, Goto
  <2>2. << >> \in Stamps
    BY DEF Stamps
  <2> QED BY <1>3, <1>4, <2>1, <2>2 DEF IInv
<1>6. CASE ~TimedOut(k, stamp[t][1], stamp[t][2])
  <2>1. left \in 1..MaxDelay /\ again \in Stamps
    <3>1. left \in 1..MaxDelay
      BY <1>1, <1>2, <1>6, LeftIs
    <3> HIDE DEF left
    <3> QED BY <1>1, <3>1, StampIs DEF Stamps
  <2>2. stamp' = [stamp EXCEPT ![t] = again]
    BY <1>6 DEF Wait
  <2>3. CASE holder[m] = Nobody
    <3>1. pc' = [pc EXCEPT ![t] = "try"] /\ k' = ResumeAll(SuspendAll(k))
      BY <1>6, <2>3 DEF Wait, Goto
    <3> QED BY <1>3, <1>4, <2>1, <2>2, <3>1 DEF IInv
  <2>4. CASE holder[m] # Nobody
    <3> DEFINE h == holder[m]
    <3>1. /\ pc' = [pc EXCEPT ![t] = "yield"]
          /\ k' = ResumeAll(PlaceOnEventList(PriorityInherit(SuspendAll(k), h), m, left))
      BY <1>6, <2>4 DEF Wait, Goto
    <3> HIDE DEF left, again, m
    <3>2. /\ Calls' /\ \A u \in Workers : pc'[u] = IF u = t THEN "yield" ELSE pc[u]
      BY <1>3, <2>1, <2>2, <3>1
    <3>3. h \in Workers /\ pc[h] = "run" /\ h # t /\ Outside(k, h)
      <4>1. h \in Workers /\ pc[h] = "run" /\ h # t
        BY <1>1, <1>2, <2>4 DEF Calls
      <4>2. Outside(k, h)
        BY <1>1, <4>1 DEF Sched, Queued, Outside
      <4> QED BY <4>1, <4>2
    <3>4. Blocks(k, k', m, h)
      BY <1>1, <1>2, <2>1, <3>1, <3>3, WaitBlocks
    <3> HIDE DEF h
    <3>5. PICK p \in Priorities : k'.priority = [k.priority EXCEPT ![h] = p]
      BY <3>4 DEF Blocks
    <3>6. \A u \in Task : u # h => k'.priority[u] = k.priority[u]
      <4>1. k.priority \in [Task -> Priorities]
        BY <1>1 DEF Settled, Sound, Typed
      <4> QED BY <3>5, <4>1
    <3>7. /\ Settled(k', Task) /\ k'.suspended = 0
          /\ \A n \in Mutexes :
               ToSet(k'.waiting[n]) \subseteq ToSet(k.waiting[n]) \cup {u \in {t} : n = m}
          /\ \A u \in Task \ {t} : IsRunnable(k, u) => IsRunnable(k', u)
          /\ IsRunnable(k', k'.current) \/ k'.current = t
      BY <1>1, <3>4 DEF Blocks
    <3>8. Queued(k', pc', want)
      <4> SUFFICES ASSUME NEW n \in Mutexes, NEW u \in ToSet(k'.waiting[n])
                   PROVE  /\ u \in Workers /\ want[u] = n /\ pc'[u] \in {"yield", "try"}
                          /\ u = k'.current => pc'[u] = "yield"
        BY DEF Queued
      <4>1. CASE u = t
        <5>1. n = m
          BY <1>1, <3>7, <4>1 DEF Outside
        <5> QED BY <3>2, <4>1, <5>1 DEF m
      <4>2. CASE u # t
        <5>1. u \in ToSet(k.waiting[n])
          BY <3>7, <4>2
        <5>2. u \in Workers /\ want[u] = n /\ pc[u] \in {"yield", "try"}
          BY <1>1, <5>1 DEF Sched, Queued
        <5>3. ~IsRunnable(k', u)
          <6>1. u \in Task /\ ~Outside(k', u)
            BY <5>2 DEF Workers, Outside
          <6> QED BY <3>7, <6>1, ReadyOutside
        <5> QED BY <3>2, <3>7, <4>2, <5>2, <5>3
      <4> QED BY <4>1, <4>2
    <3>9. Awake(k', pc')
      BY <3>2, <3>7 DEF Awake
    <3>10. Heard(k', holder, want)
      <4> SUFFICES ASSUME NEW n \in Mutexes, holder[n] = Nobody, ToSet(k'.waiting[n]) # {}
                   PROVE  \E u \in Workers : Takes(k', want, u, n)
        BY DEF Heard
      <4>1. n # m /\ ToSet(k'.waiting[n]) \subseteq ToSet(k.waiting[n])
        BY <2>4, <3>7
      <4>2. PICK u \in Workers : Takes(k, want, u, n)
        BY <1>1, <4>1 DEF Sched, Heard
      <4>3. u # t /\ want[u] = n /\ u \in Task
        BY <4>1, <4>2 DEF Takes, m, Workers
      <4>4. Outside(k', u) /\ IsRunnable(k', u)
        BY <3>7, <4>2, <4>3 DEF Takes, Outside
      <4>5. u # h
        BY <1>1, <3>3, <4>1, <4>3 DEF Calls, MutexAssumption
      <4>6. \A w \in ToSet(k'.waiting[n]) : w # h /\ w \in Task
        BY <1>1, <3>3, <4>1 DEF Sched, Queued, Workers
      <4>7. \A w \in ToSet(k'.waiting[n]) : k'.priority[w] <= k'.priority[u]
        BY <3>6, <4>1, <4>2, <4>3, <4>5, <4>6 DEF Takes
      <4> QED BY <4>3, <4>4, <4>7 DEF Takes
    <3>11. Own(k', holder)
      <4> SUFFICES ASSUME NEW u \in Workers, \A n \in Mutexes : holder[n] # u
                   PROVE  k'.priority[u] = BasePriority[u]
        BY DEF Own
      <4>1. u # h /\ u \in Task
        BY <1>2 DEF h, m, Workers
      <4> QED BY <1>1, <3>6, <4>1 DEF Sched, Own
    <3> QED BY <1>2, <3>2, <3>7, <3>8, <3>9, <3>10, <3>11 DEF IInv, Sched
  <2> QED BY <2>3, <2>4
<1> QED BY <1>5, <1>6

(* The holder gives the mutex back.                                        *)
LEMMA GiveInductive ==
  ASSUME MutexAssumption, IInv, NEW t \in Workers, NEW m \in Mutexes, Give(t, m)
  PROVE  IInv'
<1>1. /\ Calls /\ Sched /\ Settled(k, Task) /\ k.suspended = 0 /\ k.current = t
      /\ pc[t] = "run" /\ t \in Task /\ t # Idle /\ IsRunnable(k, t) /\ Outside(k, t)
  BY AtStep DEF IInv, Sched, Give
<1>2. /\ holder[m] = t /\ t # Nobody /\ depth[m] \in 1..MaxDepth
      /\ depth' = [depth EXCEPT ![m] = @ - 1] /\ UNCHANGED <<pc, want, stamp>>
  BY <1>1 DEF Give, Calls, MutexAssumption
<1>3. /\ depth' \in [Mutexes -> 0..MaxDepth] /\ depth'[m] = depth[m] - 1
      /\ \A n \in Mutexes : n # m => depth'[n] = depth[n]
  BY <1>1, <1>2 DEF Calls, MutexAssumption
<1>4. CASE depth[m] # 1
  <2>1. UNCHANGED <<holder, k>>
    BY <1>4 DEF Give
  <2>2. Calls'
    BY <1>1, <1>2, <1>3, <1>4, <2>1 DEF Calls
  <2> QED BY <1>1, <1>2, <2>1, <2>2 DEF IInv, Sched
<1>5. CASE depth[m] = 1
  <2>1. holder' = [holder EXCEPT ![m] = Nobody] /\ k' = WakeOne(PriorityDisinherit(k, t), m)
    BY <1>5 DEF Give
  <2>2. Returns(k, k', m)
    BY <1>1, <2>1, GiveReturns
  <2>3. \A n \in Mutexes : holder'[n] = IF n = m THEN Nobody ELSE holder[n]
    BY <1>1, <2>1 DEF Calls
  <2>4. Calls'
    <3>1. holder' \in [Mutexes -> Workers \cup {Nobody}]
      BY <1>1, <2>1 DEF Calls
    <3> QED BY <1>1, <1>2, <1>3, <1>5, <2>3, <3>1 DEF Calls
  <2>5. /\ Settled(k', Task) /\ k'.suspended = 0 /\ IsRunnable(k', k'.current)
        /\ k'.priority = [k.priority EXCEPT ![t] = BasePriority[t]]
        /\ \A u \in Task : IsRunnable(k, u) => IsRunnable(k', u)
        /\ \A n \in Mutexes : ToSet(k'.waiting[n]) \subseteq ToSet(k.waiting[n])
    BY <1>1, <2>2 DEF Returns
  <2>6. \A u \in Task : k'.priority[u] = IF u = t THEN BasePriority[t] ELSE k.priority[u]
    <3>1. k.priority \in [Task -> Priorities]
      BY <1>1 DEF Settled, Sound, Typed
    <3> QED BY <2>5, <3>1
  <2>7. Queued(k', pc, want)
    <3> SUFFICES ASSUME NEW n \in Mutexes, NEW u \in ToSet(k'.waiting[n])
                 PROVE  /\ u \in Workers /\ want[u] = n /\ pc[u] \in {"yield", "try"}
                        /\ u = k'.current => pc[u] = "yield"
      BY DEF Queued
    <3>1. u \in Workers /\ want[u] = n /\ pc[u] \in {"yield", "try"}
      BY <1>1, <2>5 DEF Sched, Queued
    <3>2. u # k'.current
      <4>1. u \in Task /\ ~Outside(k', u)
        BY <3>1 DEF Workers, Outside
      <4> QED BY <2>5, <4>1, ReadyOutside
    <3> QED BY <3>1, <3>2
  <2>8. Awake(k', pc)
    BY <2>5 DEF Awake
  <2>9. Heard(k', holder', want)
    <3> SUFFICES ASSUME NEW n \in Mutexes, holder'[n] = Nobody, ToSet(k'.waiting[n]) # {}
                 PROVE  \E u \in Workers : Takes(k', want, u, n)
      BY DEF Heard
    <3>1. \A w \in ToSet(k.waiting[n]) : w \in Workers /\ w \in Task /\ w # t /\ want[w] = n
      BY <1>1 DEF Sched, Queued, Workers, Outside
    <3>2. CASE n = m
      <4> DEFINE u == Head(k.waiting[m])
      <4>1. k.waiting[m] # << >>
        <5>1. k.waiting[m] \in TaskList
          BY <1>1 DEF Settled, Sound, Typed, MutexAssumption
        <5> QED BY <2>5, <3>2, <5>1, EmptyList
      <4>2. /\ u \in ToSet(k.waiting[m]) /\ Outside(k', u) /\ IsRunnable(k', u)
            /\ \A w \in ToSet(k.waiting[m]) : k.priority[w] <= k.priority[u]
        BY <2>2, <4>1 DEF Returns
      <4> HIDE DEF u
      <4>3. \A w \in ToSet(k'.waiting[m]) : k'.priority[w] <= k'.priority[u]
        BY <2>5, <2>6, <3>1, <3>2, <4>2
      <4> QED BY <3>1, <3>2, <4>2, <4>3 DEF Takes
    <3>3. CASE n # m
      <4>1. PICK u \in Workers : Takes(k, want, u, n)
        BY <1>1, <2>3, <2>5, <3>3 DEF Sched, Heard
      <4>2. u \in Task /\ u # t
        BY <1>1, <4>1 DEF Takes, Calls, Workers, MutexAssumption
      <4>3. \A w \in ToSet(k'.waiting[n]) : k'.priority[w] <= k'.priority[u]
        BY <2>5, <2>6, <3>1, <4>1, <4>2 DEF Takes
      <4> QED BY <2>5, <4>1, <4>2, <4>3 DEF Takes, Outside
    <3> QED BY <3>2, <3>3
  <2>10. Own(k', holder')
    <3> SUFFICES ASSUME NEW u \in Workers, \A n \in Mutexes : holder'[n] # u
                 PROVE  k'.priority[u] = BasePriority[u]
      BY DEF Own
    <3>1. CASE u = t
      BY <1>1, <2>6, <3>1
    <3>2. CASE u # t
      <4>1. \A n \in Mutexes : holder[n] # u
        BY <1>2, <2>3, <3>2
      <4> QED BY <1>1, <2>6, <3>2, <4>1 DEF Sched, Own, Workers
    <3> QED BY <3>1, <3>2
  <2> QED BY <1>2, <2>4, <2>5, <2>7, <2>8, <2>9, <2>10 DEF IInv, Sched
<1> QED BY <1>4, <1>5

(* One step per action.                                                    *)
LEMMA NextKeeps == ASSUME MutexAssumption, IInv, [Next]_vars PROVE IInv'
<1>1. ASSUME NEW t \in Workers, NEW m \in Mutexes, Take(t, m) PROVE IInv'
  BY <1>1, TakeKeeps
<1>2. ASSUME NEW t \in Workers, NEW m \in Mutexes, TakeAgain(t, m) PROVE IInv'
  BY <1>2, TakeAgainKeeps
<1>3. ASSUME NEW t \in Workers, NEW m \in Mutexes, Give(t, m) PROVE IInv'
  BY <1>3, GiveInductive
<1>4. ASSUME NEW t \in Workers, Obtain(t) PROVE IInv'
  BY <1>4, ObtainKeeps
<1>5. ASSUME NEW t \in Workers, Refused(t) PROVE IInv'
  BY <1>5, RefusedKeeps
<1>6. ASSUME NEW t \in Workers, Wait(t) PROVE IInv'
  BY <1>6, WaitKeeps
<1>7. ASSUME NEW t \in Workers, Yield(t) PROVE IInv'
  BY <1>7, YieldKeeps
<1>8. ASSUME NEW t \in Workers, Delay(t) PROVE IInv'
  BY <1>8, DelayKeeps
<1>9. CASE Timer
  BY <1>9, TimerKeeps
<1>10. CASE UNCHANGED vars
  BY <1>10 DEF vars, IInv, Calls, Sched
<1> QED BY <1>1, <1>2, <1>3, <1>4, <1>5, <1>6, <1>7, <1>8, <1>9, <1>10 DEF Next

LEMMA Inductive == ASSUME MutexAssumption PROVE Spec => []IInv
<1>1. Init => IInv
  BY InitHolds
<1>2. IInv /\ [Next]_vars => IInv'
  BY NextKeeps
<1> QED BY <1>1, <1>2, PTL DEF Spec

(* Whatever tasks take, give, time out and sleep, a mutex has a holder as  *)
(* long as it counts takes, the scheduler's lists stay consistent, and no  *)
(* list of a turn of the tick count that ends holds a task: queue.c and    *)
(* tasks.c.                                                                *)
THEOREM TypeCorrect == ASSUME MutexAssumption PROVE Spec => []TypeOK
<1>1. IInv => TypeOK
  <2> SUFFICES ASSUME IInv PROVE TypeOK
    OBVIOUS
  <2>1. Settled(k, Task) /\ k.suspended = 0
    BY DEF IInv, Sched
  <2>2. ListsSound(k, Task) /\ ~k.swapFailed
    BY <2>1, SoundLists DEF Settled, Timed
  <2> QED BY <2>2 DEF IInv, Calls, TypeOK
<1> QED BY <1>1, Inductive, PTL

(* A free mutex with waiters is being taken by a task that waits for       *)
(* nothing any more: the give woke it, and whatever happened since has not *)
(* sent it elsewhere.                                                      *)
THEOREM WakeupNeverLost == ASSUME MutexAssumption PROVE Spec => []NoLostWakeup
<1>1. IInv => NoLostWakeup
  <2> SUFFICES ASSUME IInv, NEW m \in Mutexes, holder[m] = Nobody, k.waiting[m] # << >>
               PROVE  \E t \in Workers : want[t] = m /\ WaitingFor(k, t) = {}
    BY DEF NoLostWakeup
  <2>1. EventLists = Mutexes /\ \A n \in Mutexes : k.waiting[n] \in TaskList
    BY DEF IInv, Sched, Settled, Sound, Typed, MutexAssumption
  <2>2. ToSet(k.waiting[m]) # {}
    <3> DEFINE list == k.waiting[m]
    <3>1. list \in TaskList /\ list # << >>
      BY <2>1
    <3> HIDE DEF list
    <3>2. Len(list) \in Nat /\ Len(list) # 0 /\ ToSet(list) = {list[i] : i \in 1..Len(list)}
      BY <3>1, ListIs DEF TaskList
    <3>3. ToSet(list) # {}
      <4>1. 1 \in 1..Len(list)
        BY <3>2
      <4>2. list[1] \in ToSet(list)
        BY <3>2, <4>1
      <4> QED BY <4>2
    <3> QED BY <3>3 DEF list
  <2>3. PICK t \in Workers : Takes(k, want, t, m)
    BY <2>2 DEF IInv, Sched, Heard
  <2>4. \A n \in Mutexes : ~Contains(k.waiting[n], t)
    BY <2>1, <2>3, ListIs DEF Takes, Outside
  <2> QED BY <2>1, <2>3, <2>4 DEF Takes, WaitingFor
<1> QED BY <1>1, Inductive, PTL

(* A priority that was borrowed is given back with the mutex, though more  *)
(* waiters may have come, timed out or been woken since it was lent:       *)
(* vTaskPriorityInherit and vTaskPriorityDisinherit.                       *)
THEOREM BorrowedIsReturned == ASSUME MutexAssumption PROVE Spec => []OwnPriority
<1>1. IInv => OwnPriority
  BY DEF IInv, Sched, Own, OwnPriority, Holds
<1> QED BY <1>1, Inductive, PTL

-----------------------------------------------------------------------------
(***************************************************************************)
(* One mutex.  Its holder is as important as its waiters because each of   *)
(* them lent it its priority; a task that takes it while others wait lent  *)
(* and was lent nothing, and is as important because it runs although the  *)
(* woken one is ready.  With a second mutex the running task may owe its   *)
(* turn to a priority it is about to return, see the README.               *)
(***************************************************************************)
OneMutex == \A m, n \in Mutexes : m = n

Covered(s, h) ==
  \A m \in Mutexes : \A t \in ToSet(s.waiting[m]) :
    s.priority[t] <= s.priority[IF h[m] = Nobody THEN s.current ELSE h[m]]

CInv == IInv /\ Covered(k, holder)

(* Two priorities can be compared.                                         *)
LEMMA Ranks ==
  ASSUME MutexAssumption, NEW s, Settled(s, Task)
  PROVE  /\ \A t \in Task : s.priority[t] \in Int /\ s.priority[t] \in Priorities
         /\ s.current \in Task /\ \A m \in Mutexes : ToSet(s.waiting[m]) \subseteq Task
         /\ Priorities \subseteq Int
<1>1. /\ s.priority \in [Task -> Priorities] /\ s.current \in Task
      /\ \A m \in Mutexes : s.waiting[m] \in TaskList
  BY DEF Settled, Sound, Typed, MutexAssumption
<1>2. Priorities \subseteq Int
  BY DEF Priorities, MutexAssumption, TaskAssumption
<1> QED BY <1>1, <1>2, ListIs

(* The running task is as important as any ready one.                      *)
LEMMA HighestRuns ==
  ASSUME MutexAssumption, NEW s, Settled(s, Task), Highest(s),
         NEW t \in Task, IsRunnable(s, t)
  PROVE  s.priority[t] <= s.priority[s.current]
<1>1. s.priority[t] \in Priorities
  BY Ranks
<1>2. s.ready[s.priority[t]] # << >>
  BY EmptyList DEF IsRunnable
<1> QED BY <1>1, <1>2 DEF Highest

(* A step that adds no waiter and changes no priority: if another task     *)
(* runs now, it is as important as the one that is to take the mutex.      *)
LEMMA ShrinkCovers ==
  ASSUME MutexAssumption, CInv, IInv', Shrinks(k, k'), UNCHANGED holder
  PROVE  Covered(k', holder')
<1> SUFFICES ASSUME NEW m \in Mutexes, NEW w \in ToSet(k'.waiting[m])
             PROVE  k'.priority[w] <=
                      k'.priority[IF holder[m] = Nobody THEN k'.current ELSE holder[m]]
  BY DEF Covered
<1>1. /\ k'.priority = k.priority /\ w \in ToSet(k.waiting[m])
      /\ Highest(k') \/ k'.current = k.current
  BY DEF Shrinks
<1>2. k.priority[w] <= k.priority[IF holder[m] = Nobody THEN k.current ELSE holder[m]]
  BY <1>1 DEF CInv, Covered
<1>3. CASE holder[m] = Nobody /\ Highest(k')
  <2>1. Settled(k', Task) /\ Heard(k', holder', want')
    BY DEF IInv, Sched
  <2>2. PICK t \in Workers : Takes(k', want', t, m)
    BY <1>3, <2>1 DEF Heard
  <2>3. /\ k'.priority[w] <= k'.priority[t] /\ IsRunnable(k', t) /\ t \in Task
        /\ w \in Task /\ k'.current \in Task
    BY <2>1, <2>2, Ranks DEF Takes, Workers
  <2>4. k'.priority[t] <= k'.priority[k'.current]
    BY <1>3, <2>1, <2>3, HighestRuns
  <2> QED BY <1>3, <2>1, <2>3, <2>4, Ranks
<1> QED BY <1>1, <1>2, <1>3

(* One step per action that changes the scheduler's state or the holder.   *)
LEMMA CoveredKeeps ==
  ASSUME MutexAssumption, OneMutex, CInv, [Next]_vars
  PROVE  CInv'
<1>1. IInv /\ IInv' /\ Covered(k, holder) /\ Settled(k, Task) /\ k.suspended = 0
  BY NextKeeps DEF CInv, IInv, Sched
<1>2. CASE UNCHANGED <<k, holder>>
  BY <1>1, <1>2 DEF CInv
<1>3. CASE Shrinks(k, k') /\ UNCHANGED holder
  BY <1>1, <1>3, ShrinkCovers DEF CInv
<1>4. ASSUME NEW t \in Workers, NEW m \in Mutexes, Give(t, m) PROVE CInv'
  <2>1. CASE depth[m] # 1
    BY <1>2, <1>4, <2>1 DEF Give
  <2>2. CASE depth[m] = 1
    <3>1. /\ k.current = t /\ t # Idle /\ IsRunnable(k, t) /\ t \in Task /\ Outside(k, t)
          /\ holder \in [Mutexes -> Workers \cup {Nobody}]
      BY <1>1, <1>4, AtStep DEF Give, IInv, Calls
    <3>2. holder' = [holder EXCEPT ![m] = Nobody] /\ k' = WakeOne(PriorityDisinherit(k, t), m)
      BY <1>4, <2>2 DEF Give
    <3>3. Returns(k, k', m)
      BY <1>1, <3>1, <3>2, GiveReturns
    <3> SUFFICES ASSUME NEW n \in Mutexes, NEW w \in ToSet(k'.waiting[n])
                 PROVE  k'.priority[w] <=
                          k'.priority[IF holder'[n] = Nobody THEN k'.current ELSE holder'[n]]
      BY <1>1 DEF CInv, Covered
    <3> DEFINE h == Head(k.waiting[m])
    <3>4. n = m /\ holder'[n] = Nobody /\ w \in ToSet(k.waiting[m])
      BY <3>1, <3>2, <3>3 DEF OneMutex, Returns
    <3>5. k.waiting[m] # << >>
      BY <3>4, EmptyList
    <3>6. /\ h \in ToSet(k.waiting[m]) /\ IsRunnable(k', h) /\ k.priority[w] <= k.priority[h]
          /\ Highest(k') \/ (k'.current = t /\ k'.priority[h] < k'.priority[t])
          /\ k'.priority = [k.priority EXCEPT ![t] = BasePriority[t]] /\ Settled(k', Task)
      BY <3>1, <3>3, <3>4, <3>5 DEF Returns
    <3> HIDE DEF h
    <3>7. h \in Task /\ w \in Task /\ h # t /\ w # t
      BY <1>1, <3>1, <3>4, <3>6, Ranks DEF Outside
    <3>8. k'.priority[w] <= k'.priority[h]
      <4>1. k'.priority[w] = k.priority[w] /\ k'.priority[h] = k.priority[h]
        BY <3>6, <3>7
      <4> QED BY <3>6, <4>1
    <3>9. k'.priority[h] <= k'.priority[k'.current]
      <4>1. CASE Highest(k')
        BY <3>6, <3>7, <4>1, HighestRuns
      <4>2. CASE k'.current = t /\ k'.priority[h] < k'.priority[t]
        <5>1. k'.priority[h] \in Int /\ k'.priority[t] \in Int
          BY <3>1, <3>6, <3>7, Ranks
        <5> QED BY <4>2, <5>1
      <4> QED BY <3>6, <4>1, <4>2
    <3>10. /\ k'.priority[w] \in Int /\ k'.priority[h] \in Int
           /\ k'.priority[k'.current] \in Int
      BY <3>6, <3>7, Ranks
    <3>11. k'.priority[w] <= k'.priority[k'.current]
      BY <3>8, <3>9, <3>10
    <3> QED BY <3>4, <3>11
  <2> QED BY <2>1, <2>2
<1>5. ASSUME NEW t \in Workers, Obtain(t) PROVE CInv'
  <2>1. /\ k.current = t /\ holder[want[t]] = Nobody /\ UNCHANGED k
        /\ holder' = [holder EXCEPT ![want[t]] = t]
    BY <1>5 DEF Obtain, At
  <2>2. t # Nobody /\ holder \in [Mutexes -> Workers \cup {Nobody}]
    BY <1>1 DEF IInv, Calls, MutexAssumption, Workers
  <2>3. \A n \in Mutexes : holder'[n] = IF n = want[t] THEN t ELSE holder[n]
    BY <2>1, <2>2
  <2>4. Covered(k, holder')
    BY <1>1, <2>1, <2>2, <2>3 DEF Covered
  <2> QED BY <1>1, <2>1, <2>4 DEF CInv
<1>6. ASSUME NEW t \in Workers, Wait(t) PROVE CInv'
  <2> DEFINE m == want[t]
             left == stamp[t][2] - ElapsedSince(k, stamp[t][1])
             h == holder[m]
  <2>1. UNCHANGED holder
    BY <1>6 DEF Wait
  <2>2. CASE k' = ResumeAll(SuspendAll(k))
    BY <1>1, <1>3, <2>1, <2>2, PauseShrinks
  <2>3. CASE k' # ResumeAll(SuspendAll(k))
    <3>1. /\ Calls /\ Sched /\ k.current = t /\ pc[t] = "wait" /\ t \in Task /\ t # Idle
          /\ IsRunnable(k, t) /\ Outside(k, t)
      BY <1>1, <1>6, AtStep DEF Wait, IInv
    <3>2. /\ ~TimedOut(k, stamp[t][1], stamp[t][2]) /\ h # Nobody
          /\ k' = ResumeAll(PlaceOnEventList(PriorityInherit(SuspendAll(k), h), m, left))
      BY <1>6, <2>3 DEF Wait
    <3>3. /\ want \in [Workers -> Mutexes \cup {Nobody}] /\ want[t] # Nobody
          /\ stamp \in [Workers -> Stamps] /\ stamp[t] # << >>
      BY <3>1 DEF Calls
    <3>4. m \in Mutexes /\ stamp[t] \in TimeOuts \X (1..MaxDelay)
      BY <3>3 DEF Stamps
    <3>5. left \in 1..MaxDelay
      BY <3>1, <3>2, <3>4, LeftIs
    <3> HIDE DEF left
    <3>6. h \in Workers /\ Outside(k, h) /\ h \in Task
      <4>1. h \in Workers /\ pc[h] = "run"
        BY <3>1, <3>2, <3>4 DEF Calls
      <4> QED BY <3>1, <4>1 DEF Sched, Queued, Outside, Workers
    <3> HIDE DEF h, m
    <3>7. Blocks(k, k', m, h)
      BY <1>1, <3>1, <3>2, <3>4, <3>5, <3>6, WaitBlocks
    <3> SUFFICES ASSUME NEW n \in Mutexes, NEW w \in ToSet(k'.waiting[n])
                 PROVE  k'.priority[w] <=
                          k'.priority[IF holder[n] = Nobody THEN k'.current ELSE holder[n]]
      BY <1>1, <2>1 DEF CInv, Covered
    <3>8. PICK p \in Priorities : /\ k'.priority = [k.priority EXCEPT ![h] = p]
                                  /\ k.priority[t] <= p /\ k.priority[h] <= p
      BY <3>1, <3>7 DEF Blocks
    <3>9. n = m /\ holder[n] = h /\ (w \in ToSet(k.waiting[m]) \/ w = t)
      BY <3>1, <3>4, <3>7 DEF OneMutex, Blocks, h
    <3>10. w \in Task /\ \A u \in Task : k.priority[u] \in Int
      BY <1>1, <3>1, <3>4, <3>9, Ranks
    <3>11. p \in Int /\ k.priority \in [Task -> Priorities]
      BY <1>1, Ranks DEF Settled, Sound, Typed
    <3>12. k'.priority[h] = p /\ k'.priority[w] = IF w = h THEN p ELSE k.priority[w]
      BY <3>6, <3>8, <3>10, <3>11
    <3>13. k.priority[w] <= p
      <4>1. CASE w = t
        BY <3>8, <4>1
      <4>2. CASE w \in ToSet(k.waiting[m])
        <5>1. k.priority[w] <= k.priority[h]
          BY <1>1, <3>2, <3>9, <4>2 DEF Covered
        <5> QED BY <3>6, <3>8, <3>10, <3>11, <5>1
      <4> QED BY <3>9, <4>1, <4>2
    <3>14. k'.priority[w] <= k'.priority[h]
      BY <3>11, <3>12, <3>13
    <3> QED BY <3>2, <3>9, <3>14
  <2> QED BY <2>2, <2>3
<1>7. ASSUME NEW t \in Workers, Yield(t) PROVE CInv'
  BY <1>1, <1>3, <1>7, SwitchShrinks DEF Yield
<1>8. ASSUME NEW t \in Workers, Delay(t) PROVE CInv'
  <2>1. k.current # Idle /\ IsRunnable(k, k.current)
    BY <1>1, <1>8, AtStep DEF Delay
  <2> QED BY <1>1, <1>3, <1>8, <2>1, DelayShrinks DEF Delay
<1>9. CASE Timer
  BY <1>1, <1>3, <1>9, TimerShrinks DEF Timer
<1>10. ASSUME NEW t \in Workers, NEW m \in Mutexes, Take(t, m) \/ TakeAgain(t, m) PROVE CInv'
  BY <1>2, <1>10 DEF Take, TakeAgain
<1>11. ASSUME NEW t \in Workers, Refused(t) PROVE CInv'
  BY <1>2, <1>11 DEF Refused
<1>12. CASE UNCHANGED vars
  BY <1>2, <1>12 DEF vars
<1> QED BY <1>4, <1>5, <1>6, <1>7, <1>8, <1>9, <1>10, <1>11, <1>12 DEF Next

(* Priority inheritance: no task waits for a mutex whose holder is less    *)
(* important than itself, so that a task in between cannot keep them both  *)
(* from running.                                                           *)
THEOREM HolderCovers == ASSUME MutexAssumption, OneMutex PROVE Spec => []WaiterCovered
<1>1. Init => CInv
  <2>1. \A m \in Mutexes : Init => ToSet(k.waiting[m]) = {}
    BY StartedSteady, EmptyList DEF Init, Starts, MutexAssumption
  <2> QED BY <2>1, InitHolds DEF CInv, Covered
<1>2. CInv /\ [Next]_vars => CInv'
  BY CoveredKeeps
<1>3. CInv => WaiterCovered
  <2> SUFFICES ASSUME CInv, NEW m \in Mutexes, NEW t \in ToSet(k.waiting[m]),
                      holder[m] # Nobody
               PROVE  k.priority[holder[m]] >= k.priority[t]
    BY DEF WaiterCovered
  <2>1. k.priority[t] <= k.priority[holder[m]]
    BY DEF CInv, Covered
  <2>2. Settled(k, Task) /\ holder[m] \in Task
    BY DEF CInv, IInv, Sched, Calls, Workers
  <2>3. k.priority[t] \in Int /\ k.priority[holder[m]] \in Int
    BY <2>2, Ranks
  <2> QED BY <2>1, <2>3
<1> QED BY <1>1, <1>2, <1>3, PTL DEF Spec

(* What the run "kernel" checks of a mutex.                                *)
THEOREM MutexIsSound == ASSUME MutexAssumption, OneMutex PROVE Spec => []MutexSound
<1>1. TypeOK /\ WaiterCovered /\ OwnPriority /\ NoLostWakeup => MutexSound
  BY DEF MutexSound
<1> QED BY <1>1, TypeCorrect, HolderCovers, BorrowedIsReturned, WakeupNeverLost, PTL
===============================================================================
