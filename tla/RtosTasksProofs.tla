---------------------------- MODULE RtosTasksProofs ----------------------------
(* Theorems about tasks and time: for every number of tasks, delay, length *)
(* of a suspension and width of the tick count, sleepers wake neither      *)
(* early nor late, time-outs are recognised up to a full turn of the       *)
(* count, and the memory of a deleted task is taken back once: tasks.c.    *)
EXTENDS RtosTasks, KernelProofs, TLAPS

Stamps == {<< >>} \cup {<<time>> : time \in TimeOuts}
Excluding == {"sleep", "resume", "exclusive", "looked"}

(* The scheduler is suspended in certain places of the running task.  That *)
(* task is ready unless it has just gone to sleep or deleted itself.       *)
Calls ==
  /\ pc \in [Task -> Excluding \cup {"run", "yield", "gone", "reclaim"}]
  /\ pc[Idle] \in {"run", "looked", "reclaim"}
  /\ \A t \in Task \ {Idle} : pc[t] \notin {"looked", "reclaim"}
  /\ \A t \in Task : pc[t] \in Excluding <=> k.suspended # 0 /\ t = k.current
  /\ k.suspended \in 0..1

Awake ==
  /\ k.current \in live /\ pc[k.current] \notin {"resume", "yield"} => IsRunnable(k, k.current)
  /\ k.current \notin live => pc[k.current] = "gone" /\ k.current \in ToSet(termination)

Lives ==
  /\ Idle \in live /\ live \subseteq Task
  /\ termination \in TaskList /\ IsInjective(termination)
  /\ live \cap ToSet(termination) = {}
  /\ toReclaim = Len(termination) /\ tasks = Cardinality(live) + Len(termination)
  /\ found \in BOOLEAN
  /\ pc[Idle] = "reclaim" => termination # << >>
  /\ pc[Idle] = "looked" /\ found => termination # << >>

(* What is left of a delay, and what has passed since a stamp, counting    *)
(* the ticks that were put off.                                            *)
Dues(s, d) == \A t \in Blocked(s) : d[t] + s.missedTicks = Left(s, t)
Ages(s, st, el) ==
  \A t \in Task : st[t] # << >> /\ el[t] <= TickRange =>
    s.missedTicks <= el[t] /\ Passed(s, st[t][1], el[t] - s.missedTicks)

Clock ==
  /\ k.missedTicks <= MaxMissed
  /\ due \in [Task -> -MaxMissed..MaxDelay] /\ Dues(k, due)
  /\ stamp \in [Task -> Stamps] /\ elapsed \in [Task -> 0..TickRange + 1]
  /\ Ages(k, stamp, elapsed)

IInv == Settled(k, live) /\ k.pending = << >> /\ Calls /\ Awake /\ Lives /\ Clock

-----------------------------------------------------------------------------
(* A scheduler function that moves the clock by n ticks, which were put    *)
(* off before, leaves what is left and what has passed as it was.          *)
LEMMA ClockGoesOn ==
  ASSUME DelayAssumption, NEW s, NEW r, NEW n \in Nat, NEW d, NEW st, NEW el,
         s.missedTicks \in Nat, r.missedTicks = s.missedTicks - n, r.missedTicks \in Nat,
         \A t \in Blocked(s) : d[t] \in Int, el \in [Task -> 0..TickRange + 1],
         st \in [Task -> Stamps],
         \A t \in Blocked(r) : t \in Blocked(s) /\ Left(r, t) = Left(s, t) - n,
         \A time \in TimeOuts : \A e \in Nat :
           e + n <= TickRange /\ Passed(s, time, e) => Passed(r, time, e + n),
         Dues(s, d), Ages(s, st, el)
  PROVE  Dues(r, d) /\ Ages(r, st, el)
<1>1. Dues(r, d)
  <2> SUFFICES ASSUME NEW t \in Blocked(r) PROVE d[t] + r.missedTicks = Left(r, t)
    BY DEF Dues
  <2>1. t \in Blocked(s) /\ Left(r, t) = Left(s, t) - n /\ d[t] \in Int
    OBVIOUS
  <2>2. d[t] + s.missedTicks = Left(s, t)
    BY <2>1 DEF Dues
  <2> QED BY <2>1, <2>2
<1>2. Ages(r, st, el)
  <2> SUFFICES ASSUME NEW t \in Task, st[t] # << >>, el[t] <= TickRange
               PROVE  r.missedTicks <= el[t] /\ Passed(r, st[t][1], el[t] - r.missedTicks)
    BY DEF Ages
  <2>1. s.missedTicks <= el[t] /\ Passed(s, st[t][1], el[t] - s.missedTicks)
    BY DEF Ages
  <2>2. st[t][1] \in TimeOuts /\ el[t] \in Nat /\ TickRange \in Nat
    BY DEF Stamps, DelayAssumption, TickAssumption
  <2> DEFINE e == el[t] - s.missedTicks
  <2>3. /\ e \in Nat /\ e + n = el[t] - r.missedTicks /\ e + n <= TickRange
        /\ r.missedTicks <= el[t]
    BY <2>1, <2>2
  <2>4. Passed(s, st[t][1], e)
    BY <2>1
  <2> HIDE DEF e
  <2>5. Passed(r, st[t][1], e + n)
    BY <2>2, <2>3, <2>4
  <2> QED BY <2>3, <2>5
<1> QED BY <1>1, <1>2

(* A task that is deleted leaves every list.                               *)
LEMMA DeletedSettled ==
  ASSUME TaskAssumption, TickAssumption, NEW s, NEW alive \in SUBSET Task,
         Settled(s, alive), NEW u \in alive, u # Idle
  PROVE  LET r == RemoveEventItem(RemoveGenericItem(s, u), u)
         IN  /\ Settled(r, alive \ {u}) /\ ToSet(r.pending) \subseteq ToSet(s.pending)
             /\ r.suspended = s.suspended /\ r.current = s.current /\ r.tick = s.tick
             /\ r.overflows = s.overflows /\ r.missedTicks = s.missedTicks
             /\ \A t \in Blocked(r) : t \in Blocked(s) /\ r.wake[t] = s.wake[t]
             /\ Blocked(r) = Blocked(s) \ {u}
             /\ \A t \in alive \ {u} : IsRunnable(s, t) => IsRunnable(r, t)
<1> DEFINE a == RemoveGenericItem(s, u)
           r == RemoveEventItem(a, u)
<1>1. /\ Typed(s) /\ Homed(s, alive) /\ Events(s) /\ Waiters(s) /\ Timed(s) /\ IdleReady(s)
      /\ u \in Task
  BY DEF Settled, Sound
<1>2. /\ s.ready \in [Priorities -> TaskList] /\ s.top \in Priorities
      /\ s.delayed \in TaskList /\ s.overflowed \in TaskList /\ s.pending \in TaskList
      /\ s.waiting \in [EventLists -> TaskList]
      /\ s.priority \in [Task -> Priorities] /\ s.wake \in [Task -> 0..MaxDelay]
      /\ 0 \in 0..MaxDelay /\ s = [f \in Parts |-> s[f]]
  <2>1. 0 \in 0..MaxDelay
    BY DEF TickAssumption, MaxDelay
  <2> QED BY <1>1, <2>1 DEF Typed, IsRecord
<1>3. /\ a = [f \in Parts |-> a[f]]
      /\ a.ready = [p \in Priorities |-> Unlink(s.ready[p], u)]
      /\ a.wake = [s.wake EXCEPT ![u] = 0]
      /\ a.delayed = Unlink(s.delayed, u) /\ a.overflowed = Unlink(s.overflowed, u)
      /\ a.top = s.top /\ a.current = s.current /\ a.suspended = s.suspended
      /\ a.pending = s.pending /\ a.missedTicks = s.missedTicks /\ a.missedYield = s.missedYield
      /\ a.waiting = s.waiting /\ a.eventKey = s.eventKey /\ a.priority = s.priority
      /\ a.tick = s.tick /\ a.overflows = s.overflows /\ a.nextUnblock = s.nextUnblock
      /\ a.swapFailed = s.swapFailed
  BY <1>2 DEF RemoveGenericItem, Parts
<1> HIDE DEF a
<1>4. /\ IsRecord(r)
      /\ r.waiting = [e \in EventLists |-> Unlink(a.waiting[e], u)]
      /\ r.pending = Unlink(a.pending, u)
      /\ r.ready = a.ready /\ r.wake = a.wake
      /\ r.delayed = a.delayed /\ r.overflowed = a.overflowed
      /\ r.top = a.top /\ r.current = a.current /\ r.suspended = a.suspended
      /\ r.missedTicks = a.missedTicks /\ r.missedYield = a.missedYield
      /\ r.eventKey = a.eventKey /\ r.priority = a.priority
      /\ r.tick = a.tick /\ r.overflows = a.overflows /\ r.nextUnblock = a.nextUnblock
      /\ r.swapFailed = a.swapFailed
  BY <1>3 DEF RemoveEventItem, Parts, IsRecord
<1> HIDE DEF r
<1>5. /\ r.waiting = [e \in EventLists |-> Unlink(s.waiting[e], u)]
      /\ r.pending = Unlink(s.pending, u)
      /\ r.ready = [p \in Priorities |-> Unlink(s.ready[p], u)]
      /\ r.wake = [s.wake EXCEPT ![u] = 0]
      /\ r.delayed = Unlink(s.delayed, u) /\ r.overflowed = Unlink(s.overflowed, u)
  BY <1>3, <1>4
<1>6. /\ r.top = s.top /\ r.current = s.current /\ r.suspended = s.suspended
      /\ r.missedTicks = s.missedTicks /\ r.missedYield = s.missedYield
      /\ r.eventKey = s.eventKey /\ r.priority = s.priority
      /\ r.tick = s.tick /\ r.overflows = s.overflows /\ r.nextUnblock = s.nextUnblock
      /\ r.swapFailed = s.swapFailed
  BY <1>3, <1>4
<1>7. ASSUME NEW p \in Priorities
      PROVE  /\ r.ready[p] \in TaskList /\ IsInjective(r.ready[p])
             /\ ToSet(r.ready[p]) = ToSet(s.ready[p]) \ {u}
  <2>1. s.ready[p] \in TaskList /\ IsInjective(s.ready[p]) /\ r.ready[p] = Unlink(s.ready[p], u)
    BY <1>1, <1>2, <1>5 DEF Homed
  <2> QED BY <2>1, UnlinkList
<1>8. ASSUME NEW e \in EventLists
      PROVE  /\ r.waiting[e] \in TaskList /\ IsInjective(r.waiting[e])
             /\ ToSet(r.waiting[e]) = ToSet(s.waiting[e]) \ {u}
             /\ Sorted(r.waiting[e], r.eventKey)
  <2>1. /\ s.waiting[e] \in TaskList /\ IsInjective(s.waiting[e])
        /\ r.waiting[e] = Unlink(s.waiting[e], u) /\ r.eventKey = s.eventKey
        /\ Sorted(s.waiting[e], s.eventKey)
    BY <1>1, <1>2, <1>5, <1>6 DEF Events, ByRank
  <2> QED BY <2>1, UnlinkList
<1>9. /\ r.delayed \in TaskList /\ IsInjective(r.delayed)
      /\ ToSet(r.delayed) = ToSet(s.delayed) \ {u}
      /\ r.overflowed \in TaskList /\ IsInjective(r.overflowed)
      /\ ToSet(r.overflowed) = ToSet(s.overflowed) \ {u}
      /\ r.pending \in TaskList /\ IsInjective(r.pending)
      /\ ToSet(r.pending) = ToSet(s.pending) \ {u}
  <2>1. IsInjective(s.delayed) /\ IsInjective(s.overflowed) /\ IsInjective(s.pending)
    BY <1>1 DEF Homed, Events
  <2> QED BY <1>2, <1>5, <2>1, UnlinkList
<1>10. Blocked(r) = Blocked(s) \ {u}
  BY <1>9 DEF Blocked
<1>11. \A t \in Blocked(r) : t \in Blocked(s) /\ t # u /\ t \in Task /\ r.wake[t] = s.wake[t]
  <2>1. \A t \in Blocked(r) : t \in Blocked(s) /\ t # u /\ t \in Task
    BY <1>9, <1>10, ListIs DEF Blocked
  <2> QED BY <1>2, <1>5, <2>1
<1>12. Typed(r)
  <2>1. r.ready \in [Priorities -> TaskList] /\ r.waiting \in [EventLists -> TaskList]
    BY <1>5, <1>7, <1>8
  <2>2. r.wake \in [Task -> 0..MaxDelay]
    BY <1>2, <1>5
  <2>3. /\ s.current \in Task /\ s.suspended \in Nat /\ s.missedTicks \in Nat
        /\ s.missedYield \in BOOLEAN /\ s.eventKey \in [Task -> Int]
        /\ s.tick \in 0..MaxDelay /\ s.overflows \in 0..OverflowRange - 1
        /\ s.nextUnblock \in 0..MaxDelay /\ s.swapFailed \in BOOLEAN
    BY <1>1 DEF Typed
  <2> QED BY <1>2, <1>4, <1>6, <1>9, <2>1, <2>2, <2>3, Zenon DEF Typed
<1>13. Homed(r, alive \ {u})
  <2>1. \A p \in Priorities : \A t \in ToSet(r.ready[p]) :
          t \in alive \ {u} /\ t \notin Blocked(r) /\ r.priority[t] = p /\ p <= r.top
    BY <1>1, <1>6, <1>7, <1>10 DEF Homed
  <2>2. ASSUME NEW t \in alive \ {u}, t \notin Blocked(r)
        PROVE  t \in ToSet(r.ready[r.priority[t]])
    <3>1. t \in ToSet(s.ready[s.priority[t]]) /\ s.priority[t] \in Priorities
      BY <1>1, <1>2, <1>10, <2>2 DEF Homed
    <3> QED BY <1>6, <1>7, <3>1
  <2> QED BY <1>1, <1>7, <1>9, <2>1, <2>2 DEF Homed
<1>14. Events(r)
  BY <1>1, <1>6, <1>8, <1>9 DEF Events, ByRank
<1>15. Waiters(r)
  BY <1>1, <1>8, <1>9, <1>10 DEF Waiters
<1>16. Timed(r)
  <2>1. Sorted(r.delayed, s.wake) /\ Sorted(r.overflowed, s.wake)
    BY <1>1, <1>2, <1>5, UnlinkList DEF Timed, InOrder
  <2>2. /\ \A i \in 1..Len(r.delayed) : r.delayed[i] \in Blocked(r)
        /\ \A i \in 1..Len(r.overflowed) : r.overflowed[i] \in Blocked(r)
    BY <1>9, ListIs DEF Blocked
  <2>3. InOrder(r)
    BY <1>11, <2>1, <2>2 DEF InOrder, Sorted
  <2>4. NotOverdue(r) /\ NextTurn(r)
    BY <1>1, <1>6, <1>9, <1>11 DEF Timed, NotOverdue, NextTurn, Blocked
  <2> QED BY <1>1, <1>6, <2>3, <2>4 DEF Timed
<1>17. IdleReady(r)
  <2>1. 0 \in Priorities
    BY DEF TaskAssumption, Priorities
  <2> QED BY <1>1, <1>6, <1>7, <2>1 DEF IdleReady
<1>18. r.suspended = 0 => r.pending = << >> /\ r.missedTicks = 0
  <2> SUFFICES ASSUME s.suspended = 0 PROVE r.pending = << >> /\ r.missedTicks = 0
    BY <1>6
  <2>1. s.pending = << >> /\ s.missedTicks = 0
    BY DEF Settled
  <2>2. ToSet(r.pending) = {}
    BY <1>2, <1>9, <2>1, ListIs
  <2> QED BY <1>6, <1>9, <2>1, <2>2, ListIs
<1>19. \A t \in alive \ {u} : IsRunnable(s, t) => IsRunnable(r, t)
  BY <1>2, <1>6, <1>7 DEF IsRunnable
<1>20. Settled(r, alive \ {u})
  BY <1>12, <1>13, <1>14, <1>15, <1>16, <1>17, <1>18 DEF Settled, Sound
<1> QED BY <1>6, <1>9, <1>10, <1>11, <1>19, <1>20 DEF r, a

(* A task that is created goes to the end of the ready list of its         *)
(* priority.                                                               *)
LEMMA AddedSettled ==
  ASSUME TaskAssumption, TickAssumption, NEW s, NEW alive \in SUBSET Task,
         Settled(s, alive), NEW u \in Task \ alive
  PROVE  LET r == AddTaskToReadyQueue(s, u)
         IN  /\ Settled(r, alive \cup {u}) /\ r.pending = s.pending
             /\ r.suspended = s.suspended /\ r.current = s.current /\ r.tick = s.tick
             /\ r.overflows = s.overflows /\ r.missedTicks = s.missedTicks
             /\ Blocked(r) = Blocked(s) /\ r.wake = s.wake
             /\ \A t \in alive : IsRunnable(s, t) => IsRunnable(r, t)
<1> DEFINE r == AddTaskToReadyQueue(s, u)
           q == s.priority[u]
<1>1. /\ Typed(s) /\ Homed(s, alive) /\ Events(s) /\ Waiters(s) /\ Timed(s) /\ IdleReady(s)
  BY DEF Settled, Sound
<1>2. /\ s.ready \in [Priorities -> TaskList] /\ s.top \in Priorities
      /\ s.priority \in [Task -> Priorities] /\ q \in Priorities
      /\ s = [f \in Parts |-> s[f]] /\ \A p \in Priorities : p \in Int
  BY <1>1 DEF Typed, IsRecord, Priorities
<1> HIDE DEF q
<1>3. /\ IsRecord(r)
      /\ r.ready = [s.ready EXCEPT ![q] = Append(@, u)]
      /\ r.top = IF q > s.top THEN q ELSE s.top
      /\ r.waiting = s.waiting /\ r.pending = s.pending /\ r.wake = s.wake
      /\ r.delayed = s.delayed /\ r.overflowed = s.overflowed
      /\ r.current = s.current /\ r.suspended = s.suspended
      /\ r.missedTicks = s.missedTicks /\ r.missedYield = s.missedYield
      /\ r.eventKey = s.eventKey /\ r.priority = s.priority
      /\ r.tick = s.tick /\ r.overflows = s.overflows
      /\ r.nextUnblock = s.nextUnblock /\ r.swapFailed = s.swapFailed
  BY <1>2 DEF AddTaskToReadyQueue, Parts, IsRecord, q
<1> HIDE DEF r
<1>4. u \notin Blocked(s) /\ \A p \in Priorities : u \notin ToSet(s.ready[p])
  BY <1>1 DEF Homed, Blocked
<1>5. ASSUME NEW p \in Priorities
      PROVE  /\ r.ready[p] \in TaskList /\ IsInjective(r.ready[p])
             /\ ToSet(r.ready[p]) = ToSet(s.ready[p]) \cup {t \in {u} : p = q}
  <2>1. s.ready[p] \in TaskList /\ IsInjective(s.ready[p])
    BY <1>1, <1>2 DEF Homed
  <2>2. CASE p = q
    <3>1. r.ready[p] = Append(s.ready[p], u)
      BY <1>2, <1>3, <2>2
    <3> QED BY <1>4, <2>1, <2>2, <3>1, AppendList
  <2>3. CASE p # q
    BY <1>2, <1>3, <2>1, <2>3
  <2> QED BY <2>2, <2>3
<1>6. Blocked(r) = Blocked(s)
  BY <1>3 DEF Blocked
<1>7. Typed(r)
  <2>1. r.ready \in [Priorities -> TaskList]
    <3>1. r.ready = [p \in Priorities |-> r.ready[p]]
      BY <1>2, <1>3
    <3> QED BY <1>5, <3>1
  <2>2. r.top \in Priorities
    BY <1>2, <1>3
  <2> QED BY <1>1, <1>3, <2>1, <2>2 DEF Typed
<1>8. Homed(r, alive \cup {u})
  <2>1. ASSUME NEW p \in Priorities, NEW t \in ToSet(r.ready[p])
        PROVE  t \in alive \cup {u} /\ t \notin Blocked(r) /\ r.priority[t] = p /\ p <= r.top
    <3>1. CASE t \in ToSet(s.ready[p])
      <4>1. t \in alive /\ t \notin Blocked(s) /\ s.priority[t] = p /\ p <= s.top
        BY <1>1, <3>1 DEF Homed
      <4> QED BY <1>2, <1>3, <1>6, <4>1
    <3>2. CASE t = u /\ p = q
      BY <1>2, <1>3, <1>4, <1>6, <3>2 DEF q
    <3> QED BY <1>5, <3>1, <3>2
  <2>2. ASSUME NEW t \in alive \cup {u}, t \notin Blocked(r)
        PROVE  t \in ToSet(r.ready[r.priority[t]])
    <3>1. CASE t = u
      BY <1>2, <1>3, <1>5, <3>1 DEF q
    <3>2. CASE t \in alive
      <4>1. t \in ToSet(s.ready[s.priority[t]]) /\ s.priority[t] \in Priorities
        BY <1>1, <1>2, <1>6, <2>2, <3>2 DEF Homed
      <4> QED BY <1>3, <1>5, <4>1
    <3> QED BY <3>1, <3>2
  <2> QED BY <1>1, <1>3, <1>5, <2>1, <2>2 DEF Homed
<1>9. Events(r) /\ Waiters(r) /\ Timed(r)
  BY <1>1, <1>3, <1>6 DEF Events, ByRank, Waiters, Timed, InOrder, NotOverdue, NextTurn
<1>10. IdleReady(r)
  <2>1. 0 \in Priorities
    BY DEF TaskAssumption, Priorities
  <2> QED BY <1>1, <1>3, <1>5, <2>1 DEF IdleReady
<1>11. \A t \in alive : IsRunnable(s, t) => IsRunnable(r, t)
  BY <1>2, <1>3, <1>5 DEF IsRunnable
<1>12. Settled(r, alive \cup {u})
  BY <1>3, <1>7, <1>8, <1>9, <1>10 DEF Settled, Sound
<1> QED BY <1>3, <1>6, <1>11, <1>12 DEF r

-----------------------------------------------------------------------------
(* What the invariant says of the running task outside a suspension.       *)
LEMMA Unlocked ==
  ASSUME IInv, NEW t \in Task, k.current = t, pc[t] \notin Excluding
  PROVE  /\ k.suspended = 0 /\ k.missedTicks = 0 /\ k.pending = << >>
         /\ \A u \in Task : pc[u] \notin Excluding
BY DEF IInv, Calls, Settled

(* The parts of the invariant that the scheduler's functions read.         *)
LEMMA Typing ==
  ASSUME DelayAssumption, IInv
  PROVE  /\ TaskAssumption /\ TickAssumption /\ TickRange \in Nat /\ MaxDelay \in Nat
         /\ MaxMissed \in Nat /\ Typed(k) /\ Timed(k) /\ Sound(k, live) /\ live \in SUBSET Task
         /\ k.current \in Task /\ k.missedTicks \in 0..MaxMissed /\ ToSet(k.pending) = {}
         /\ k.tick \in 0..MaxDelay /\ k.overflows \in 0..OverflowRange - 1
         /\ \A t \in Blocked(k) : t \in Task /\ due[t] \in Int /\ Left(k, t) \in 1..MaxDelay
<1>1. /\ TaskAssumption /\ TickAssumption /\ TickRange \in Nat /\ MaxDelay \in Nat
      /\ MaxMissed \in Nat
  BY DEF DelayAssumption, TickAssumption, MaxDelay
<1>2. /\ Typed(k) /\ Timed(k) /\ Sound(k, live) /\ live \in SUBSET Task
  BY DEF IInv, Settled, Sound, Lives
<1>3. /\ k.current \in Task /\ k.missedTicks \in 0..MaxMissed
      /\ k.tick \in 0..MaxDelay /\ k.overflows \in 0..OverflowRange - 1
      /\ k.delayed \in TaskList /\ k.overflowed \in TaskList
  <2>1. k.missedTicks <= MaxMissed
    BY DEF IInv, Clock
  <2> QED BY <1>1, <1>2, <2>1 DEF Typed
<1>4. ToSet(k.pending) = {}
  BY EmptyList DEF IInv
<1>5. \A t \in Blocked(k) : t \in Task
  BY <1>3, ListIs DEF Blocked
<1>6. \A t \in Blocked(k) : due[t] \in Int /\ Left(k, t) \in 1..MaxDelay
  BY <1>1, <1>2, <1>5, SleeperLeft DEF IInv, Clock
<1> QED BY <1>1, <1>2, <1>3, <1>4, <1>5, <1>6

(* The clock after a step of the scheduler that leaves the measures alone. *)
LEMMA ClockKept ==
  ASSUME DelayAssumption, IInv, NEW n \in Nat, UNCHANGED <<due, stamp, elapsed>>,
         k'.missedTicks = k.missedTicks - n, k'.missedTicks \in Nat,
         \A t \in Blocked(k') : t \in Blocked(k) /\ Left(k', t) = Left(k, t) - n,
         \A time \in TimeOuts : \A e \in Nat :
           e + n <= TickRange /\ Passed(k, time, e) => Passed(k', time, e + n)
  PROVE  Clock'
<1>1. /\ k.missedTicks \in 0..MaxMissed /\ MaxMissed \in Nat /\ k.missedTicks \in Nat
      /\ \A t \in Blocked(k) : due[t] \in Int
  BY Typing
<1>2. /\ due \in [Task -> -MaxMissed..MaxDelay] /\ Dues(k, due)
      /\ stamp \in [Task -> Stamps] /\ elapsed \in [Task -> 0..TickRange + 1]
      /\ Ages(k, stamp, elapsed)
  BY DEF IInv, Clock
<1>3. Dues(k', due) /\ Ages(k', stamp, elapsed)
  <2> DEFINE r == k'
  <2>1. /\ r.missedTicks = k.missedTicks - n /\ r.missedTicks \in Nat
        /\ \A t \in Blocked(r) : t \in Blocked(k) /\ Left(r, t) = Left(k, t) - n
        /\ \A time \in TimeOuts : \A e \in Nat :
             e + n <= TickRange /\ Passed(k, time, e) => Passed(r, time, e + n)
    OBVIOUS
  <2> HIDE DEF r
  <2>2. Dues(r, due) /\ Ages(r, stamp, elapsed)
    BY <1>1, <1>2, <2>1, ClockGoesOn
  <2> QED BY <2>2 DEF r
<1>4. k'.missedTicks <= MaxMissed
  BY <1>1
<1>5. due' = due /\ stamp' = stamp /\ elapsed' = elapsed
  OBVIOUS
<1>6. Dues(k', due') /\ Ages(k', stamp', elapsed')
  BY <1>3, <1>5
<1> QED BY <1>2, <1>4, <1>5, <1>6 DEF Clock, Dues, Ages

(* vTaskDelay, a section of the caller, and the idle task's look: the      *)
(* scheduler is suspended.                                                 *)
LEMMA SuspendStep ==
  ASSUME DelayAssumption, IInv, NEW t \in Task, At(t, "run"), k' = SuspendAll(k),
         NEW step \in {"sleep", "exclusive", "looked"}, Goto(t, step),
         t = Idle <=> step = "looked",
         UNCHANGED <<live, termination, toReclaim, tasks, due, stamp, elapsed>>,
         found' \in BOOLEAN, found' /\ t = Idle => termination # << >>
  PROVE  IInv' /\ WakesDue
<1>1. /\ TaskAssumption /\ TickAssumption /\ Typed(k) /\ Timed(k) /\ k.current = t
      /\ pc[t] = "run" /\ live \in SUBSET Task
  BY Typing DEF At
<1>2. /\ k.suspended = 0 /\ k.missedTicks = 0 /\ k.pending = << >>
      /\ \A u \in Task : pc[u] \notin Excluding
  BY <1>1, Unlocked DEF Excluding
<1>3. /\ Settled(k', live) /\ SameLists(k, k') /\ k'.suspended = 1
      /\ k'.current = t /\ k'.tick = k.tick /\ k'.overflows = k.overflows
      /\ k'.missedTicks = 0
  BY <1>1, <1>2, SuspendAllSettled DEF IInv, Keeps
<1>4. /\ Blocked(k') = Blocked(k) /\ Woken(k, k', {}) /\ k'.pending = << >>
      /\ \A u : IsRunnable(k, u) <=> IsRunnable(k', u)
  BY <1>2, <1>3 DEF SameLists, Blocked, Woken, IsRunnable
<1>5. Later(k, k', 0)
  BY <1>1, <1>3, <1>4, LaterNot
<1>6. Clock'
  <2>1. k'.missedTicks = k.missedTicks - 0 /\ k'.missedTicks \in Nat
    BY <1>2, <1>3
  <2> QED BY <1>5, <2>1, ClockKept DEF Later
<1>7. pc' = [pc EXCEPT ![t] = step]
  BY DEF Goto
<1>8. Calls'
  BY <1>2, <1>3, <1>7 DEF IInv, Calls, Excluding
<1>9. Awake'
  BY <1>1, <1>3, <1>4, <1>7 DEF IInv, Calls, Awake
<1>10. Lives'
  <2>1. pc'[Idle] # "reclaim" \/ pc[Idle] = "reclaim"
    BY <1>7 DEF IInv, Calls
  <2>2. pc'[Idle] = "looked" => t = Idle
    BY <1>2, <1>7 DEF IInv, Calls, Excluding, Lives
  <2> QED BY <2>1, <2>2 DEF IInv, Lives
<1>11. WakesDue
  BY <1>4 DEF WakesDue
<1> QED BY <1>3, <1>4, <1>6, <1>8, <1>9, <1>10, <1>11 DEF IInv

(* The end of a section: the ticks that were put off are counted.          *)
LEMMA ResumeStep ==
  ASSUME DelayAssumption, IInv, NEW t \in Task, k.current = t, pc[t] \in Excluding,
         k' = ResumeAll(k), NEW step \in {"run", "yield", "reclaim"}, Goto(t, step),
         step = "reclaim" => t = Idle /\ found /\ pc[t] = "looked", t = Idle => step # "yield",
         pc[t] = "resume" => step = "yield" \/ AlreadyYielded(k),
         UNCHANGED <<life, due, stamp, elapsed>>
  PROVE  IInv' /\ WakesDue
<1>1. /\ TaskAssumption /\ TickAssumption /\ Typed(k) /\ Timed(k) /\ live \in SUBSET Task
      /\ ToSet(k.pending) = {} /\ k.missedTicks \in 0..MaxMissed /\ MaxMissed \in Nat
  BY Typing
<1>2. k.suspended = 1 /\ \A u \in Task \ {t} : pc[u] \notin Excluding
  BY DEF IInv, Calls
<1>3. Resumes(k, k', live)
  BY <1>1, <1>2, ResumeAllSettled DEF IInv
<1>4. /\ Settled(k', live) /\ k'.suspended = 0 /\ Later(k, k', k.missedTicks)
      /\ k'.pending = << >> /\ k'.missedTicks = 0
      /\ AlreadyYielded(k) => k'.current \in live /\ IsRunnable(k', k'.current)
      /\ ~AlreadyYielded(k) => k'.current = t
  BY <1>1, <1>3 DEF Resumes, Keeps, Settled
<1>5. PICK D \in SUBSET Blocked(k) : Woken(k, k', D)
  BY <1>3 DEF Resumes
<1>6. \A u \in Task : IsRunnable(k, u) => IsRunnable(k', u)
  BY <1>1, <1>5, RunnableStays
<1>7. Clock'
  <2>1. k.missedTicks \in Nat /\ k'.missedTicks = k.missedTicks - k.missedTicks
        /\ k'.missedTicks \in Nat
    BY <1>1, <1>4
  <2> QED BY <1>4, <2>1, ClockKept DEF Later
<1>8. pc' = [pc EXCEPT ![t] = step]
  BY DEF Goto
<1>9. Calls'
  BY <1>2, <1>4, <1>8 DEF IInv, Calls, Excluding
<1>10. Awake'
  <2>1. live' = live /\ t \in live
    BY DEF life, IInv, Awake, Excluding
  <2>2. CASE AlreadyYielded(k)
    BY <1>4, <2>1, <2>2 DEF Awake
  <2>3. CASE ~AlreadyYielded(k)
    <3>1. step = "yield" \/ IsRunnable(k, t)
      BY <2>1, <2>3 DEF IInv, Awake, Excluding
    <3> QED BY <1>4, <1>6, <1>8, <2>1, <2>3, <3>1 DEF IInv, Calls, Awake
  <2> QED BY <2>2, <2>3
<1>11. Lives'
  BY <1>8 DEF IInv, Calls, Lives, life
<1>12. WakesDue
  <2> SUFFICES ASSUME NEW u \in Blocked(k), u \notin Blocked(k') PROVE due'[u] <= 0
    BY DEF WakesDue
  <2>1. /\ Left(k, u) <= k.missedTicks /\ due[u] + k.missedTicks = Left(k, u)
        /\ due[u] \in Int /\ due' = due
    BY <1>4, Typing DEF Later, IInv, Clock, Dues
  <2> QED BY <1>1, <2>1
<1> QED BY <1>4, <1>7, <1>9, <1>10, <1>11, <1>12 DEF IInv, life

(* A context switch the running task asks for.                             *)
LEMMA SwitchStep ==
  ASSUME DelayAssumption, IInv, NEW t \in Task, k.current = t, pc[t] \in {"yield", "gone"},
         k' = SwitchContext(k), Goto(t, "run"), UNCHANGED <<life, due, stamp, elapsed>>
  PROVE  IInv' /\ WakesDue
<1>1. /\ TaskAssumption /\ TickAssumption /\ Typed(k) /\ Timed(k) /\ live \in SUBSET Task
      /\ Sound(k, live) /\ IdleReady(k)
  BY Typing DEF IInv, Settled
<1>2. /\ k.suspended = 0 /\ k.missedTicks = 0 /\ k.pending = << >>
      /\ \A u \in Task : pc[u] \notin Excluding
  BY Unlocked DEF Excluding
<1>3. /\ Steady(k', live) /\ Woken(k, k', {}) /\ k'.suspended = 0
      /\ k'.tick = k.tick /\ k'.overflows = k.overflows
      /\ k'.current \in live /\ IsRunnable(k', k'.current)
  BY <1>1, <1>2, SwitchSteady
<1>4. /\ Settled(k', live) /\ k'.missedTicks = 0 /\ k'.pending = << >>
      /\ Blocked(k') = Blocked(k)
  BY <1>3 DEF Steady, Settled, Woken
<1>5. Later(k, k', 0)
  BY <1>1, <1>3, LaterNot
<1>6. Clock'
  <2>1. k'.missedTicks = k.missedTicks - 0 /\ k'.missedTicks \in Nat
    BY <1>2, <1>4
  <2> QED BY <1>5, <2>1, ClockKept DEF Later
<1>7. pc' = [pc EXCEPT ![t] = "run"]
  BY DEF Goto
<1>8. Calls'
  BY <1>2, <1>3, <1>7 DEF IInv, Calls, Excluding
<1>9. Awake' /\ Lives'
  BY <1>3, <1>7 DEF IInv, Calls, Awake, Lives, life
<1>10. WakesDue
  BY <1>4 DEF WakesDue
<1> QED BY <1>4, <1>6, <1>8, <1>9, <1>10 DEF IInv, life

(* A step that leaves the clock alone and makes no task sleep.             *)
LEMMA ClockSame ==
  ASSUME DelayAssumption, IInv, k'.tick = k.tick, k'.overflows = k.overflows,
         k'.missedTicks = k.missedTicks,
         \A t \in Blocked(k') : t \in Blocked(k) /\ k'.wake[t] = k.wake[t]
  PROVE  Dues(k', due) /\ Ages(k', stamp, elapsed)
<1>1. \A t \in Blocked(k') : t \in Blocked(k) /\ Left(k', t) = Left(k, t)
  BY DEF Left
<1>2. \A time, e : Passed(k, time, e) => Passed(k', time, e)
  BY DEF Passed
<1> QED BY <1>1, <1>2 DEF IInv, Clock, Dues, Ages

(* vTaskDelay, the caller goes to sleep.                                   *)
LEMMA PlaceStep ==
  ASSUME DelayAssumption, IInv, NEW t \in Task, NEW n \in Delays, DelayPlace(t, n)
  PROVE  IInv' /\ WakesDue
<1>1. /\ TaskAssumption /\ TickAssumption /\ TickRange \in Nat /\ MaxDelay \in Nat /\ Typed(k)
      /\ Timed(k) /\ Sound(k, live) /\ IdleReady(k) /\ live \in SUBSET Task
      /\ k.missedTicks \in 0..MaxMissed /\ MaxMissed \in Nat /\ k.tick \in 0..MaxDelay
  BY Typing DEF IInv, Settled
<1>2. /\ k.current = t /\ pc[t] = "sleep" /\ n \in 1..MaxDelay /\ k' = DelayCurrent(k, n)
      /\ due' = [due EXCEPT ![t] = n - k.missedTicks] /\ pc' = [pc EXCEPT ![t] = "resume"]
      /\ UNCHANGED <<life, stamp, elapsed>>
  BY DEF DelayPlace, At, Goto, DelayAssumption
<1>3. t # Idle /\ t \in live /\ IsRunnable(k, t) /\ k.suspended = 1
  BY <1>2 DEF IInv, Calls, Awake, Excluding
<1>4. /\ \A e \in EventLists : ToSet(k.waiting[e]) \subseteq Blocked(k) \cup {k.current}
      /\ ToSet(k.pending) \subseteq Blocked(k) \cup {k.current}
      /\ Homed(k, live) /\ Events(k)
  BY <1>1 DEF Sound, Waiters
<1>5. Sound(k', live) /\ Timed(k') /\ IdleReady(k') /\ Sleeps(k, k', n)
  BY <1>1, <1>2, <1>3, <1>4, DelayCurrentSound
<1>6. /\ k'.suspended = 1 /\ k'.current = t /\ k'.pending = << >>
      /\ k'.missedTicks = k.missedTicks /\ k'.tick = k.tick /\ k'.overflows = k.overflows
      /\ k'.wake = [k.wake EXCEPT ![t] = (k.tick + n) % TickRange]
      /\ Blocked(k') = Blocked(k) \cup {t}
  BY <1>2, <1>3, <1>5 DEF Sleeps, Still, IInv
<1>7. Settled(k', live)
  BY <1>5, <1>6 DEF Settled
<1>8. Left(k', t) = n
  <2>1. k'.wake[t] = (k.tick + n) % TickRange
    BY <1>1, <1>6 DEF Typed
  <2>2. (((k.tick + n) % TickRange) - k.tick) % TickRange = n
    <3> DEFINE R == TickRange
               wake == (k.tick + n) % R
    <3>1. R \in Nat /\ R > 1 /\ MaxDelay = R - 1 /\ k.tick \in 0..R - 1 /\ n \in 1..R - 1
      BY <1>1, <1>2 DEF TickAssumption, MaxDelay
    <3> HIDE DEF R
    <3>2. wake = IF k.tick + n < R THEN k.tick + n ELSE k.tick + n - R
      <4>1. CASE k.tick + n < R
        BY <3>1, <4>1
      <4>2. CASE ~(k.tick + n < R)
        BY <3>1, <4>2
      <4> QED BY <4>1, <4>2
    <3>3. (wake - k.tick) % R = n
      <4>1. CASE k.tick + n < R
        <5>1. wake - k.tick = n
          BY <3>1, <3>2, <4>1
        <5> HIDE DEF wake
        <5> QED BY <3>1, <5>1
      <4>2. CASE ~(k.tick + n < R)
        <5>1. wake - k.tick = n - R
          BY <3>1, <3>2, <4>2
        <5> HIDE DEF wake
        <5>2. (n - R) % R = n
          BY <3>1
        <5> QED BY <5>1, <5>2
      <4> QED BY <4>1, <4>2
    <3> QED BY <3>3 DEF R
  <2> QED BY <1>6, <2>1, <2>2 DEF Left
<1>9. Clock'
  <2>1. due' \in [Task -> -MaxMissed..MaxDelay]
    BY <1>1, <1>2 DEF IInv, Clock
  <2>2. ASSUME NEW u \in Blocked(k') PROVE due'[u] + k'.missedTicks = Left(k', u)
    <3>1. due \in [Task -> -MaxMissed..MaxDelay]
      BY DEF IInv, Clock
    <3>2. CASE u = t
      BY <1>1, <1>2, <1>6, <1>8, <3>1, <3>2
    <3>3. CASE u # t
      <4>1. u \in Blocked(k) /\ u \in Task
        BY <1>6, <3>3, Typing
      <4>2. k'.wake[u] = k.wake[u]
        BY <1>1, <1>6, <3>3, <4>1 DEF Typed
      <4>3. Left(k', u) = Left(k, u)
        BY <1>6, <4>2 DEF Left
      <4> QED BY <1>2, <1>6, <3>1, <3>3, <4>1, <4>3 DEF IInv, Clock, Dues
    <3> QED BY <3>2, <3>3
  <2>3. \A time, e : Passed(k, time, e) => Passed(k', time, e)
    BY <1>6 DEF Passed
  <2>4. Ages(k', stamp', elapsed')
    BY <1>2, <1>6, <2>3 DEF IInv, Clock, Ages
  <2> QED BY <1>2, <1>6, <2>1, <2>2, <2>4 DEF IInv, Clock, Dues, Ages
<1>10. Calls'
  BY <1>2, <1>3, <1>6 DEF IInv, Calls, Excluding
<1>11. Awake' /\ Lives'
  BY <1>2, <1>3, <1>6 DEF IInv, Calls, Awake, Lives, life
<1>12. WakesDue
  BY <1>6 DEF WakesDue
<1> QED BY <1>2, <1>6, <1>7, <1>9, <1>10, <1>11, <1>12 DEF IInv, life

(* A blocking call begins.                                                 *)
LEMMA StampStep ==
  ASSUME DelayAssumption, IInv, NEW t \in Task, SetTimeOut(t)
  PROVE  IInv' /\ WakesDue
<1>1. /\ k.current = t /\ pc[t] = "run" /\ stamp' = [stamp EXCEPT ![t] = <<SetTimeOutState(k)>>]
      /\ elapsed' = [elapsed EXCEPT ![t] = 0] /\ UNCHANGED <<k, pc, life, due>>
  BY DEF SetTimeOut, At
<1>2. k.missedTicks = 0
  BY <1>1, Unlocked DEF Excluding
<1>3. /\ k.tick \in 0..MaxDelay /\ k.overflows \in 0..OverflowRange - 1 /\ TickRange \in Nat
  BY Typing
<1>4. SetTimeOutState(k) \in TimeOuts /\ Passed(k, SetTimeOutState(k), 0)
  BY <1>3 DEF SetTimeOutState, TimeOuts, Passed
<1>5. <<SetTimeOutState(k)>> \in Stamps
  BY <1>4 DEF Stamps
<1>6. stamp' \in [Task -> Stamps] /\ elapsed' \in [Task -> 0..TickRange + 1]
  BY <1>1, <1>3, <1>5 DEF IInv, Clock
<1>7. Ages(k, stamp', elapsed')
  <2> SUFFICES ASSUME NEW u \in Task, stamp'[u] # << >>, elapsed'[u] <= TickRange
               PROVE  /\ k.missedTicks <= elapsed'[u]
                      /\ Passed(k, stamp'[u][1], elapsed'[u] - k.missedTicks)
    BY DEF Ages
  <2>1. CASE u = t
    <3>1. stamp'[u][1] = SetTimeOutState(k) /\ elapsed'[u] = 0
      BY <1>1, <2>1 DEF IInv, Clock
    <3> QED BY <1>2, <1>4, <3>1
  <2>2. CASE u # t
    <3>1. stamp'[u] = stamp[u] /\ elapsed'[u] = elapsed[u]
      BY <1>1, <2>2 DEF IInv, Clock
    <3> QED BY <3>1 DEF IInv, Clock, Ages
  <2> QED BY <2>1, <2>2
<1>8. Clock'
  BY <1>1, <1>6, <1>7 DEF IInv, Clock, Dues, Ages
<1>9. Calls' /\ Awake' /\ Lives' /\ WakesDue
  BY <1>1 DEF IInv, Calls, Awake, Lives, life, WakesDue
<1> QED BY <1>1, <1>8, <1>9 DEF IInv, life

(* vTaskDelete.                                                            *)
LEMMA DeleteStep ==
  ASSUME DelayAssumption, IInv, NEW t \in Task, NEW u \in Task, Delete(t, u)
  PROVE  IInv' /\ WakesDue
<1>1. /\ k.current = t /\ pc[t] = "run" /\ u \in live /\ u # Idle
      /\ k' = RemoveEventItem(RemoveGenericItem(k, u), u)
      /\ live' = live \ {u} /\ termination' = Append(termination, u)
      /\ toReclaim' = toReclaim + 1
      /\ pc' = [pc EXCEPT ![u] = IF u = t THEN "gone" ELSE "run"]
      /\ stamp' = [stamp EXCEPT ![u] = << >>] /\ elapsed' = [elapsed EXCEPT ![u] = 0]
      /\ due' = [due EXCEPT ![u] = 0] /\ UNCHANGED <<tasks, found>>
  BY DEF Delete, At, DelayAssumption
<1>2. /\ TaskAssumption /\ TickAssumption /\ live \in SUBSET Task /\ TickRange \in Nat
      /\ MaxDelay \in Nat /\ MaxMissed \in Nat
  BY Typing
<1>3. /\ k.suspended = 0 /\ k.missedTicks = 0 /\ k.pending = << >>
      /\ \A v \in Task : pc[v] \notin Excluding
  BY <1>1, Unlocked DEF Excluding
<1>4. t \in live /\ IsRunnable(k, t)
  BY <1>1 DEF IInv, Awake
<1>5. /\ Settled(k', live') /\ ToSet(k'.pending) \subseteq ToSet(k.pending)
      /\ k'.suspended = 0 /\ k'.current = t /\ k'.tick = k.tick
      /\ k'.overflows = k.overflows /\ k'.missedTicks = k.missedTicks
      /\ \A v \in Blocked(k') : v \in Blocked(k) /\ k'.wake[v] = k.wake[v]
      /\ Blocked(k') = Blocked(k) \ {u}
      /\ \A v \in live \ {u} : IsRunnable(k, v) => IsRunnable(k', v)
  <2> DEFINE r == RemoveEventItem(RemoveGenericItem(k, u), u)
  <2>1. Settled(k, live) /\ u \in live /\ u # Idle
    BY <1>1 DEF IInv
  <2>2. /\ Settled(r, live \ {u}) /\ ToSet(r.pending) \subseteq ToSet(k.pending)
        /\ r.suspended = k.suspended /\ r.current = k.current /\ r.tick = k.tick
        /\ r.overflows = k.overflows /\ r.missedTicks = k.missedTicks
        /\ \A v \in Blocked(r) : v \in Blocked(k) /\ r.wake[v] = k.wake[v]
        /\ Blocked(r) = Blocked(k) \ {u}
        /\ \A v \in live \ {u} : IsRunnable(k, v) => IsRunnable(r, v)
    BY <1>2, <2>1, DeletedSettled
  <2> HIDE DEF r
  <2>3. k' = r /\ live' = live \ {u}
    BY <1>1 DEF r
  <2> QED BY <1>1, <1>3, <2>2, <2>3
<1>6. k'.pending = << >>
  BY <1>5 DEF Settled
<1>7. Clock'
  <2>1. Dues(k', due) /\ Ages(k', stamp, elapsed)
    BY <1>5, ClockSame
  <2>2. /\ due' \in [Task -> -MaxMissed..MaxDelay] /\ elapsed' \in [Task -> 0..TickRange + 1]
        /\ stamp' \in [Task -> Stamps]
    BY <1>1, <1>2 DEF IInv, Clock, Stamps
  <2>3. \A v \in Blocked(k') : due'[v] = due[v]
    BY <1>1, <1>5, Typing DEF IInv, Clock
  <2>4. Dues(k', due')
    BY <2>1, <2>3 DEF Dues
  <2>5. Ages(k', stamp', elapsed')
    BY <1>1, <2>1 DEF Ages, IInv, Clock
  <2> QED BY <1>3, <1>5, <2>2, <2>4, <2>5 DEF IInv, Clock, Dues, Ages
<1>8. Calls'
  BY <1>1, <1>3, <1>5 DEF IInv, Calls, Excluding
<1>9. Lives'
  <2>1. termination \in TaskList /\ u \notin ToSet(termination) /\ IsInjective(termination)
    BY <1>1 DEF IInv, Lives
  <2>2. /\ termination' \in TaskList /\ termination' # << >> /\ IsInjective(termination')
        /\ ToSet(termination') = ToSet(termination) \cup {u}
        /\ Len(termination') = Len(termination) + 1 /\ Len(termination) \in Nat
    <3>1. termination' = Append(termination, u) /\ u \in Task
      BY <1>1
    <3>2. /\ termination' \in TaskList /\ termination' # << >> /\ IsInjective(termination')
          /\ ToSet(termination') = ToSet(termination) \cup {u}
      BY <2>1, <3>1, AppendList
    <3>3. /\ Len(termination') = Len(termination) + 1 /\ Len(termination) \in Nat
      BY <2>1, <3>1 DEF TaskList
    <3> QED BY <3>2, <3>3
  <2>3. IsFiniteSet(live) /\ Cardinality(live) \in Nat
    BY <1>2, FS_Subset, FS_CardinalityType DEF TaskAssumption
  <2>4. Cardinality(live') = Cardinality(live) - 1
    BY <1>1, <2>3, FS_RemoveElement
  <2>5. /\ toReclaim' = Len(termination')
        /\ tasks' = Cardinality(live') + Len(termination') /\ found' \in BOOLEAN
    BY <1>1, <2>2, <2>3, <2>4 DEF IInv, Lives
  <2>6. Idle \in live' /\ live' \subseteq Task /\ live' \cap ToSet(termination') = {}
    BY <1>1, <1>2, <2>2 DEF IInv, Lives
  <2> QED BY <2>2, <2>5, <2>6 DEF Lives
<1>10. Awake'
  <2>1. termination \in TaskList
    BY DEF IInv, Lives
  <2>2. u \in ToSet(termination')
    BY <1>1, <2>1, AppendList
  <2>3. CASE u = t
    BY <1>1, <1>5, <2>2, <2>3 DEF Awake, IInv, Calls
  <2>4. CASE u # t
    BY <1>1, <1>4, <1>5, <2>4 DEF Awake
  <2> QED BY <2>3, <2>4
<1>11. WakesDue
  BY <1>1, <1>5 DEF WakesDue
<1> QED BY <1>5, <1>6, <1>7, <1>8, <1>9, <1>10, <1>11 DEF IInv

(* prvCheckTasksWaitingTermination: the first of the list.                 *)
LEMMA ReclaimStep ==
  ASSUME DelayAssumption, IInv, IdleReclaim
  PROVE  IInv' /\ WakesDue
<1>1. /\ k.current = Idle /\ pc[Idle] = "reclaim" /\ termination' = Tail(termination)
      /\ toReclaim' = toReclaim - 1 /\ tasks' = tasks - 1 /\ pc' = [pc EXCEPT ![Idle] = "run"]
      /\ UNCHANGED <<k, live, found, due, stamp, elapsed>>
  BY DEF IdleReclaim, At, Goto
<1>2. /\ TaskAssumption /\ live \in SUBSET Task /\ Idle \in Task /\ termination \in TaskList
      /\ termination # << >> /\ IsInjective(termination) /\ Idle \in live
  BY <1>1, Typing DEF TaskAssumption, IInv, Lives
<1>3. /\ termination' \in TaskList /\ Len(termination') = Len(termination) - 1
      /\ ToSet(termination') = ToSet(termination) \ {Head(termination)}
      /\ IsInjective(termination') /\ Len(termination) \in Nat
  BY <1>1, <1>2, TailList, ListIs
<1>4. Cardinality(live) \in Nat
  BY <1>2, FS_Subset, FS_CardinalityType DEF TaskAssumption
<1>5. Lives'
  BY <1>1, <1>2, <1>3, <1>4 DEF IInv, Calls, Lives
<1>6. Calls'
  BY <1>1, <1>2 DEF IInv, Calls, Excluding
<1>7. Awake'
  BY <1>1, <1>2 DEF IInv, Awake
<1>8. Clock' /\ WakesDue
  BY <1>1 DEF IInv, Clock, Dues, Ages, WakesDue
<1> QED BY <1>1, <1>5, <1>6, <1>7, <1>8 DEF IInv

(* xTaskGenericCreate.                                                     *)
LEMMA CreateStep ==
  ASSUME DelayAssumption, IInv, NEW t \in Task, NEW u \in Task, Create(t, u)
  PROVE  IInv' /\ WakesDue
<1> DEFINE ready == AddTaskToReadyQueue(k, u)
<1>1. /\ k.current = t /\ pc[t] = "run" /\ u \notin live /\ u \notin ToSet(termination)
      /\ k' = SwitchContext(ready) \/ k' = ready
      /\ live' = live \cup {u} /\ tasks' = tasks + 1 /\ pc' = [pc EXCEPT ![u] = "run"]
      /\ UNCHANGED <<termination, toReclaim, found, due, stamp, elapsed>>
  BY DEF Create, At
<1>2. TaskAssumption /\ TickAssumption /\ live \in SUBSET Task
  BY Typing
<1>3. /\ k.suspended = 0 /\ k.missedTicks = 0 /\ k.pending = << >>
      /\ \A v \in Task : pc[v] \notin Excluding
  BY <1>1, Unlocked DEF Excluding
<1>4. t \in live /\ IsRunnable(k, t)
  BY <1>1 DEF IInv, Awake
<1>5. /\ Settled(ready, live') /\ ready.pending = << >> /\ ready.suspended = 0
      /\ ready.current = t /\ ready.tick = k.tick /\ ready.overflows = k.overflows
      /\ ready.missedTicks = 0 /\ Blocked(ready) = Blocked(k) /\ ready.wake = k.wake
      /\ IsRunnable(ready, t) /\ live' \in SUBSET Task
  <2>1. u \in Task \ live /\ Settled(k, live)
    BY <1>1 DEF IInv
  <2>2. /\ Settled(ready, live \cup {u}) /\ ready.pending = k.pending
        /\ ready.suspended = k.suspended /\ ready.current = k.current /\ ready.tick = k.tick
        /\ ready.overflows = k.overflows /\ ready.missedTicks = k.missedTicks
        /\ Blocked(ready) = Blocked(k) /\ ready.wake = k.wake
        /\ \A v \in live : IsRunnable(k, v) => IsRunnable(ready, v)
    BY <1>2, <2>1, AddedSettled
  <2> HIDE DEF ready
  <2> QED BY <1>1, <1>2, <1>3, <1>4, <2>2
<1> HIDE DEF ready
<1>6. /\ Settled(k', live') /\ k'.pending = << >> /\ k'.suspended = 0
      /\ k'.current \in live' /\ IsRunnable(k', k'.current)
      /\ k'.tick = k.tick /\ k'.overflows = k.overflows /\ k'.missedTicks = k.missedTicks
      /\ Blocked(k') = Blocked(k) /\ \A v \in Blocked(k') : k'.wake[v] = k.wake[v]
  <2>1. CASE k' = ready
    BY <1>1, <1>3, <1>4, <1>5, <2>1
  <2>2. CASE k' = SwitchContext(ready)
    <3>1. /\ Steady(k', live') /\ Woken(ready, k', {}) /\ k'.suspended = 0
          /\ k'.tick = ready.tick /\ k'.overflows = ready.overflows
          /\ k'.current \in live' /\ IsRunnable(k', k'.current)
      <4>1. Sound(ready, live') /\ Timed(ready) /\ IdleReady(ready)
        BY <1>5 DEF Settled
      <4> QED BY <1>2, <1>5, <2>2, <4>1, SwitchSteady
    <3> QED BY <1>3, <1>5, <3>1 DEF Steady, Settled, Woken
  <2> QED BY <1>1, <2>1, <2>2
<1>7. Clock'
  <2>1. Dues(k', due) /\ Ages(k', stamp, elapsed)
    BY <1>6, ClockSame
  <2> QED BY <1>1, <1>6, <2>1 DEF IInv, Clock, Dues, Ages
<1>8. Calls'
  BY <1>1, <1>3, <1>6 DEF IInv, Calls, Lives, Excluding
<1>9. Lives'
  <2>1. IsFiniteSet(live) /\ Cardinality(live) \in Nat
    BY <1>2, FS_Subset, FS_CardinalityType DEF TaskAssumption
  <2>2. Cardinality(live') = Cardinality(live) + 1
    BY <1>1, <2>1, FS_AddElement
  <2>3. Len(termination) \in Nat
    BY ListIs DEF IInv, Lives
  <2> QED BY <1>1, <2>1, <2>2, <2>3 DEF IInv, Lives
<1>10. Awake' /\ WakesDue
  BY <1>6 DEF Awake, WakesDue
<1> QED BY <1>6, <1>7, <1>8, <1>9, <1>10 DEF IInv

(* The timer interrupt: the next tick, or one more to be counted later.    *)
LEMMA TimerStep ==
  ASSUME DelayAssumption, IInv, Timer
  PROVE  IInv' /\ WakesDue
<1>1. /\ k.missedTicks < MaxMissed /\ k' = TimerIsr(k)
      /\ due' = [t \in Task |-> IF t \in Blocked(k) /\ due[t] >= -MaxMissed
                                THEN due[t] - 1 ELSE due[t]]
      /\ elapsed' = [t \in Task |-> IF stamp[t] # << >> /\ elapsed[t] <= TickRange
                                    THEN elapsed[t] + 1 ELSE elapsed[t]]
      /\ pc' = pc /\ stamp' = stamp /\ UNCHANGED life
  BY DEF Timer
<1>2. /\ TaskAssumption /\ TickAssumption /\ live \in SUBSET Task /\ MaxMissed \in Nat
      /\ TickRange \in Nat /\ MaxDelay \in Nat /\ k.missedTicks \in 0..MaxMissed
      /\ \A t \in Blocked(k) : t \in Task /\ due[t] \in Int /\ Left(k, t) \in 1..MaxDelay
  BY Typing
<1>3. Strikes(k, k', live)
  BY <1>1, <1>2, TimerIsrSettled DEF IInv
<1>4. Settled(k', live) /\ k'.suspended = k.suspended
  BY <1>3 DEF Strikes, Keeps
<1>5. k.suspended = 0 => k.missedTicks = 0 /\ k'.missedTicks = 0 /\ k'.pending = << >>
  BY <1>4 DEF IInv, Settled
<1>6. /\ due \in [Task -> -MaxMissed..MaxDelay] /\ Dues(k, due)
      /\ stamp \in [Task -> Stamps] /\ elapsed \in [Task -> 0..TickRange + 1]
      /\ Ages(k, stamp, elapsed)
  BY DEF IInv, Clock
<1>7. \A t \in Blocked(k) : due[t] = Left(k, t) - k.missedTicks /\ due[t] >= 1 - MaxMissed
                            /\ due'[t] = due[t] - 1
  <2> SUFFICES ASSUME NEW t \in Blocked(k)
               PROVE  /\ due[t] = Left(k, t) - k.missedTicks /\ due[t] >= 1 - MaxMissed
                      /\ due'[t] = due[t] - 1
    OBVIOUS
  <2>1. due[t] + k.missedTicks = Left(k, t)
    BY <1>6 DEF Dues
  <2>2. due[t] = Left(k, t) - k.missedTicks /\ due[t] >= 1 - MaxMissed
    BY <1>2, <2>1
  <2>3. due[t] >= -MaxMissed /\ t \in Task
    BY <1>2, <2>2
  <2> QED BY <1>1, <2>2, <2>3
<1>8. due' \in [Task -> -MaxMissed..MaxDelay]
  <2> SUFFICES ASSUME NEW t \in Task PROVE due'[t] \in -MaxMissed..MaxDelay
    BY <1>1
  <2>1. CASE t \in Blocked(k)
    BY <1>2, <1>6, <1>7, <2>1
  <2>2. CASE t \notin Blocked(k)
    BY <1>1, <1>6, <2>2
  <2> QED BY <2>1, <2>2
<1>9. elapsed' \in [Task -> 0..TickRange + 1]
  BY <1>1, <1>2, <1>6
<1>10. ASSUME NEW t \in Task, stamp[t] # << >>, elapsed'[t] <= TickRange
       PROVE  /\ elapsed[t] + 1 = elapsed'[t] /\ elapsed[t] \in Nat /\ stamp[t][1] \in TimeOuts
              /\ k.missedTicks <= elapsed[t]
              /\ Passed(k, stamp[t][1], elapsed[t] - k.missedTicks)
  <2>1. elapsed[t] \in 0..TickRange + 1 /\ stamp[t] \in Stamps
    BY <1>6
  <2>2. elapsed[t] <= TickRange /\ elapsed[t] + 1 = elapsed'[t]
    BY <1>1, <1>2, <1>10, <2>1
  <2> QED BY <1>2, <1>6, <1>10, <2>1, <2>2 DEF Ages, Stamps
<1>11. k'.missedTicks <= MaxMissed /\ Dues(k', due') /\ Ages(k', stamp', elapsed')
  <2>1. CASE k.suspended = 0
    <3>1. Later(k, k', 1)
      BY <1>3, <2>1 DEF Strikes
    <3>2. Dues(k', due')
      <4> SUFFICES ASSUME NEW t \in Blocked(k')
                   PROVE  due'[t] + k'.missedTicks = Left(k', t)
        BY DEF Dues
      <4>1. t \in Blocked(k) /\ Left(k', t) = Left(k, t) - 1
        BY <3>1 DEF Later
      <4> QED BY <1>2, <1>5, <1>7, <2>1, <4>1
    <3>3. Ages(k', stamp', elapsed')
      <4> SUFFICES ASSUME NEW t \in Task, stamp[t] # << >>, elapsed'[t] <= TickRange
                   PROVE  /\ k'.missedTicks <= elapsed'[t]
                          /\ Passed(k', stamp[t][1], elapsed'[t] - k'.missedTicks)
        BY <1>1 DEF Ages
      <4>1. /\ elapsed[t] + 1 = elapsed'[t] /\ elapsed[t] \in Nat /\ stamp[t][1] \in TimeOuts
            /\ Passed(k, stamp[t][1], elapsed[t] - k.missedTicks)
        BY <1>10
      <4>2. Passed(k, stamp[t][1], elapsed[t])
        BY <1>5, <2>1, <4>1
      <4>3. Passed(k', stamp[t][1], elapsed[t] + 1)
        BY <3>1, <4>1, <4>2 DEF Later
      <4>4. elapsed[t] + 1 = elapsed'[t] - k'.missedTicks
        BY <1>5, <2>1, <4>1
      <4> QED BY <1>5, <2>1, <4>1, <4>3, <4>4
    <3> QED BY <1>2, <1>5, <2>1, <3>2, <3>3
  <2>2. CASE k.suspended # 0
    <3>1. /\ k'.tick = k.tick /\ k'.overflows = k.overflows
          /\ k'.missedTicks = k.missedTicks + 1 /\ SameLists(k, k')
      BY <1>3, <2>2 DEF Strikes
    <3>2. Blocked(k') = Blocked(k) /\ \A t \in Blocked(k) : Left(k', t) = Left(k, t)
      BY <3>1 DEF SameLists, Blocked, Left
    <3>3. Dues(k', due')
      BY <1>2, <1>7, <3>1, <3>2 DEF Dues
    <3>4. \A time, e : Passed(k, time, e) => Passed(k', time, e)
      BY <3>1 DEF Passed
    <3>5. Ages(k', stamp', elapsed')
      <4> SUFFICES ASSUME NEW t \in Task, stamp[t] # << >>, elapsed'[t] <= TickRange
                   PROVE  /\ k'.missedTicks <= elapsed'[t]
                          /\ Passed(k', stamp[t][1], elapsed'[t] - k'.missedTicks)
        BY <1>1 DEF Ages
      <4>1. /\ elapsed[t] + 1 = elapsed'[t] /\ elapsed[t] \in Nat
            /\ k.missedTicks <= elapsed[t]
            /\ Passed(k, stamp[t][1], elapsed[t] - k.missedTicks)
        BY <1>10
      <4>2. /\ k'.missedTicks <= elapsed'[t]
            /\ elapsed'[t] - k'.missedTicks = elapsed[t] - k.missedTicks
        BY <1>2, <3>1, <4>1
      <4> QED BY <3>4, <4>1, <4>2
    <3> QED BY <1>1, <1>2, <3>1, <3>3, <3>5
  <2> QED BY <2>1, <2>2
<1>12. Clock'
  BY <1>1, <1>6, <1>8, <1>9, <1>11 DEF Clock, Dues, Ages
<1>13. /\ k'.pending = << >>
       /\ \/ /\ k.suspended = 0 /\ k'.current \in live /\ IsRunnable(k', k'.current)
             /\ Later(k, k', 1)
          \/ /\ k.suspended # 0 /\ k'.current = k.current /\ SameLists(k, k')
  BY <1>3, <1>5 DEF Strikes, IInv, SameLists
<1>14. Calls'
  BY <1>1, <1>4, <1>13 DEF IInv, Calls, Excluding
<1>15. Lives'
  BY <1>1 DEF IInv, Lives, life
<1>16. Awake'
  <2>1. CASE k.suspended = 0
    BY <1>1, <1>13, <2>1 DEF Awake, life
  <2>2. CASE k.suspended # 0
    <3>1. k'.current = k.current /\ \A t : IsRunnable(k, t) => IsRunnable(k', t)
      BY <1>13, <2>2 DEF SameLists, IsRunnable
    <3> QED BY <1>1, <3>1 DEF IInv, Awake, life
  <2> QED BY <2>1, <2>2
<1>17. WakesDue
  <2> SUFFICES ASSUME NEW t \in Blocked(k), t \notin Blocked(k') PROVE due'[t] <= 0
    BY DEF WakesDue
  <2>1. k.suspended = 0
    BY <1>13 DEF SameLists, Blocked
  <2>2. Left(k, t) <= 1
    BY <1>13, <2>1 DEF Later
  <2> QED BY <1>2, <1>5, <1>7, <2>1, <2>2
<1> QED BY <1>1, <1>4, <1>12, <1>13, <1>14, <1>15, <1>16, <1>17 DEF IInv, life

(* Nothing happens.                                                        *)
LEMMA StutterStep ==
  ASSUME IInv, UNCHANGED vars
  PROVE  IInv' /\ WakesDue
<1>1. /\ k' = k /\ pc' = pc /\ live' = live /\ termination' = termination
      /\ toReclaim' = toReclaim /\ tasks' = tasks /\ found' = found
      /\ due' = due /\ stamp' = stamp /\ elapsed' = elapsed
  BY DEF vars, life
<1>2. Calls' /\ Awake' /\ Lives'
  BY <1>1 DEF IInv, Calls, Awake, Lives
<1>3. Clock' /\ WakesDue
  BY <1>1 DEF IInv, Clock, Dues, Ages, WakesDue
<1> QED BY <1>1, <1>2, <1>3 DEF IInv

-----------------------------------------------------------------------------
(* The invariant holds when the scheduler starts.                          *)
LEMMA InitInv ==
  ASSUME DelayAssumption, Init
  PROVE  IInv
<1>1. TaskAssumption /\ TickAssumption /\ MaxMissed \in Nat /\ MaxDelay \in Nat
  BY DEF DelayAssumption, TickAssumption, MaxDelay
<1>2. /\ pc = [t \in Task |-> "run"] /\ live = Task /\ termination = << >>
      /\ toReclaim = 0 /\ tasks = Cardinality(Task) /\ found = FALSE
      /\ due = [t \in Task |-> 0] /\ stamp = [t \in Task |-> << >>]
      /\ elapsed = [t \in Task |-> 0]
  BY DEF Init
<1>3. Starts(k)
  BY <1>1, StartedSteady DEF Init
<1>4. /\ Settled(k, live) /\ k.suspended = 0 /\ k.pending = << >> /\ k.missedTicks = 0
      /\ IsRunnable(k, k.current) /\ Blocked(k) = {} /\ k.current \in Task
  BY <1>2, <1>3 DEF Starts, Steady, Settled, Sound, Typed
<1>5. Calls /\ Awake
  BY <1>1, <1>2, <1>4 DEF Calls, Awake, Excluding, TaskAssumption
<1>6. Lives
  <2>1. Cardinality(Task) \in Nat /\ Len(termination) = 0
    BY <1>1, <1>2, FS_CardinalityType DEF TaskAssumption
  <2>2. IsInjective(termination) /\ ToSet(termination) = {} /\ termination \in TaskList
    BY <1>2, EmptyList
  <2>3. toReclaim = Len(termination) /\ tasks = Cardinality(live) + Len(termination)
    BY <1>2, <2>1
  <2>4. Idle \in live /\ live \subseteq Task /\ found = FALSE /\ pc[Idle] = "run"
    BY <1>1, <1>2 DEF TaskAssumption
  <2>5. live \cap ToSet(termination) = {} /\ found \in BOOLEAN
    BY <2>2, <2>4
  <2> QED BY <2>2, <2>3, <2>4, <2>5 DEF Lives
<1>7. Clock
  <2>1. /\ due \in [Task -> -MaxMissed..MaxDelay] /\ stamp \in [Task -> Stamps]
        /\ elapsed \in [Task -> 0..TickRange + 1] /\ \A t \in Task : stamp[t] = << >>
    BY <1>1, <1>2 DEF Stamps, TickAssumption
  <2> QED BY <1>1, <1>4, <2>1 DEF Clock, Dues, Ages
<1> QED BY <1>4, <1>5, <1>6, <1>7 DEF IInv

(* Every step keeps it, and wakes those only whose time has come.          *)
LEMMA NextInv ==
  ASSUME DelayAssumption, IInv, [Next]_vars
  PROVE  IInv' /\ WakesDue
<1>1. /\ pc \in [Task -> Excluding \cup {"run", "yield", "gone", "reclaim"}]
      /\ pc[Idle] \in {"run", "looked", "reclaim"} /\ found \in BOOLEAN /\ Idle \in Task
      /\ toReclaim = Len(termination) /\ \A t \in Task \ {Idle} : pc[t] \notin {"looked", "reclaim"}
  BY Typing DEF IInv, Calls, Lives, TaskAssumption
<1>2. ASSUME NEW t \in Task, DelaySuspend(t) \/ Enter(t) PROVE IInv' /\ WakesDue
  <2>1. PICK step \in {"sleep", "exclusive"} : Goto(t, step)
    BY <1>2 DEF DelaySuspend, Enter
  <2>2. /\ At(t, "run") /\ k' = SuspendAll(k) /\ t # Idle /\ step # "looked"
        /\ UNCHANGED <<live, termination, toReclaim, tasks, due, stamp, elapsed>>
        /\ found' = found
    BY <1>2, <2>1 DEF DelaySuspend, Enter, life
  <2> QED BY <1>1, <2>1, <2>2, SuspendStep
<1>3. ASSUME NEW t \in Task, NEW n \in Delays, DelayPlace(t, n) PROVE IInv' /\ WakesDue
  BY <1>3, PlaceStep
<1>4. ASSUME NEW t \in Task, DelayResume(t) PROVE IInv' /\ WakesDue
  <2>1. /\ k.current = t /\ pc[t] = "resume" /\ k' = ResumeAll(k)
        /\ Goto(t, IF AlreadyYielded(k) THEN "run" ELSE "yield")
        /\ UNCHANGED <<life, due, stamp, elapsed>> /\ t # Idle
    BY <1>1, <1>4 DEF DelayResume, At
  <2>2. PICK step \in {"run", "yield"} :
          Goto(t, step) /\ (step = "yield" \/ AlreadyYielded(k))
    BY <2>1
  <2> QED BY <2>1, <2>2, ResumeStep DEF Excluding
<1>5. ASSUME NEW t \in Task, Yield(t) \/ DeleteYield(t) PROVE IInv' /\ WakesDue
  BY <1>5, SwitchStep DEF Yield, DeleteYield, At
<1>6. ASSUME NEW t \in Task, Leave(t) PROVE IInv' /\ WakesDue
  BY <1>6, ResumeStep DEF Leave, At, Excluding
<1>7. ASSUME NEW t \in Task, SetTimeOut(t) PROVE IInv' /\ WakesDue
  BY <1>7, StampStep
<1>8. ASSUME NEW t \in Task, NEW u \in Task, Delete(t, u) PROVE IInv' /\ WakesDue
  BY <1>8, DeleteStep
<1>9. ASSUME NEW t \in Task, NEW u \in Task, Create(t, u) PROVE IInv' /\ WakesDue
  BY <1>9, CreateStep
<1>10. CASE IdleLook
  <2>1. /\ At(Idle, "run") /\ k' = SuspendAll(k) /\ Goto(Idle, "looked")
        /\ UNCHANGED <<live, termination, toReclaim, tasks, due, stamp, elapsed>>
        /\ found' = (termination # << >>)
    BY <1>10 DEF IdleLook
  <2> QED BY <1>1, <2>1, SuspendStep
<1>11. CASE IdleResume
  <2>1. /\ k.current = Idle /\ pc[Idle] = "looked" /\ k' = ResumeAll(k)
        /\ Goto(Idle, IF found THEN "reclaim" ELSE "run")
        /\ UNCHANGED <<life, due, stamp, elapsed>>
    BY <1>11 DEF IdleResume, At
  <2>2. PICK step \in {"run", "reclaim"} : Goto(Idle, step) /\ (step = "reclaim" => found)
    BY <1>1, <2>1
  <2> QED BY <1>1, <2>1, <2>2, ResumeStep DEF Excluding
<1>12. CASE IdleReclaim
  BY <1>12, ReclaimStep
<1>13. CASE Timer
  BY <1>13, TimerStep
<1>14. CASE UNCHANGED vars
  BY <1>14, StutterStep
<1> QED BY <1>2, <1>3, <1>4, <1>5, <1>6, <1>7, <1>8, <1>9, <1>10, <1>11, <1>12, <1>13, <1>14
        DEF Next, TaskStep

(* So the lists, the clock and the termination list are always sound.      *)
THEOREM Invariant == ASSUME DelayAssumption PROVE Spec => []IInv
<1>1. Init => IInv
  BY InitInv
<1>2. IInv /\ [Next]_vars => IInv'
  BY NextInv
<1> QED BY <1>1, <1>2, PTL DEF Spec

(* Every living task is in one list by its generic item: ready, in the     *)
(* list of its priority, or delayed.                                       *)
THEOREM TypeCorrect == ASSUME DelayAssumption PROVE Spec => []TypeOK
<1>1. IInv => TypeOK
  <2> SUFFICES ASSUME IInv PROVE TypeOK
    OBVIOUS
  <2>1. ListsSound(k, live)
    BY Typing, SoundLists DEF IInv
  <2>2. pc \in [Task -> {"run", "sleep", "resume", "yield", "exclusive", "gone", "looked",
                        "reclaim"}]
    BY DEF IInv, Calls, Excluding
  <2> QED BY <2>1, <2>2 DEF IInv, Lives, Clock, TypeOK
<1> QED BY <1>1, Invariant, PTL

(* A sleeping task has as many ticks left as interrupts are missing,       *)
(* counting those that are put off, across every wrap of the count.        *)
THEOREM SleepersOnTime == ASSUME DelayAssumption PROVE Spec => []OnTime
<1>1. IInv => OnTime
  <2> SUFFICES ASSUME IInv, NEW t \in Blocked(k)
               PROVE  /\ due[t] + k.missedTicks \in 1..MaxDelay
                      /\ (k.wake[t] - k.tick) % TickRange = due[t] + k.missedTicks
    BY DEF OnTime
  <2>1. due[t] + k.missedTicks = Left(k, t) /\ Left(k, t) \in 1..MaxDelay
    BY Typing DEF IInv, Clock, Dues
  <2> QED BY <2>1 DEF Left
<1> QED BY <1>1, Invariant, PTL

(* No task leaves a delayed list before its time, whatever the timer and   *)
(* the suspensions do: a task that is woken has had all its interrupts.    *)
THEOREM WakesInTime == ASSUME DelayAssumption PROVE Spec => NeverEarly
<1>1. IInv /\ [Next]_vars => [WakesDue]_vars
  BY NextInv
<1> QED BY <1>1, Invariant, PTL DEF Spec, NeverEarly

(* The assertion of vTaskIncrementTick holds: at a wrap of the count no    *)
(* task is left in the list of the turn that ends.                         *)
THEOREM TurnEndsClean == ASSUME DelayAssumption PROVE Spec => []WrapsClean
<1>1. IInv => WrapsClean
  BY Typing DEF WrapsClean, Timed
<1> QED BY <1>1, Invariant, PTL

(* The time-out of a blocking call is recognised after exactly its ticks,  *)
(* for every position of the two counts and up to a full turn.             *)
THEOREM TimeOutsExact == ASSUME DelayAssumption PROVE Spec => []TimeOutExact
<1>1. IInv => TimeOutExact
  <2> SUFFICES ASSUME IInv, NEW t \in live, NEW n \in Delays,
                      stamp[t] # << >>, k.missedTicks = 0, elapsed[t] <= TickRange
               PROVE  TimedOut(k, stamp[t][1], n) <=> elapsed[t] >= n
    BY DEF TimeOutExact
  <2>1. /\ TickAssumption /\ TickRange \in Nat /\ t \in Task /\ n \in 1..MaxDelay
        /\ k.tick \in 0..MaxDelay /\ k.overflows \in 0..OverflowRange - 1
    BY Typing DEF DelayAssumption
  <2>2. /\ elapsed[t] \in 0..TickRange + 1 /\ stamp[t] \in Stamps
        /\ Passed(k, stamp[t][1], elapsed[t] - k.missedTicks)
    BY <2>1 DEF IInv, Clock, Ages
  <2>3. /\ elapsed[t] \in 0..TickRange /\ stamp[t][1] \in TimeOuts
        /\ Passed(k, stamp[t][1], elapsed[t])
    BY <2>1, <2>2 DEF Stamps
  <2> QED BY <2>1, <2>3, StampsExact
<1> QED BY <1>1, Invariant, PTL

(* The parts of TimeSound together: sleepers, the lists of a turn and      *)
(* time-outs agree with real time in every state.                          *)
THEOREM TimeIsSound == ASSUME DelayAssumption PROVE Spec => []TimeSound
<1>1. TypeOK /\ OnTime /\ WrapsClean /\ TimeOutExact => TimeSound
  BY DEF TimeSound
<1> QED BY <1>1, TypeCorrect, SleepersOnTime, TurnEndsClean, TimeOutsExact, PTL

(* The processor never runs a task whose memory has been taken back, and   *)
(* the memory of a deleted task is taken back once.                        *)
THEOREM MemoryReclaimedOnce == ASSUME DelayAssumption PROVE Spec => []ReclaimedOnce
<1>1. IInv => ReclaimedOnce
  BY DEF IInv, Awake, Lives, ReclaimedOnce
<1> QED BY <1>1, Invariant, PTL
===============================================================================
