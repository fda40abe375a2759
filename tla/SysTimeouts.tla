---------------------------- MODULE SysTimeouts ----------------------------
(***************************************************************************)
(* A thread's list of time-outs (lwip/core/sys.c) as the tcp/ip thread     *)
(* uses it (lwip/api/tcpip.c, board/tll6219/lwip/sys_arch.c): every entry  *)
(* holds the time from its predecessor, the list's time advances only      *)
(* while the thread waits, and handlers start time-outs again.  A wait for *)
(* a semaphore with a limit is a time-out that points to the frame of the  *)
(* function that waits.                                                    *)
(***************************************************************************)
EXTENDS Integers, Sequences, SequencesExt, FiniteSetsExt

CONSTANTS Periodic,    \* the timers of tcpip_thread, which start themselves again
          OneShot,     \* handlers that other threads start and stop with messages
          Waiter,      \* sswt_handler of sys_sem_wait_timeout
          Period,      \* the interval of a periodic timer
          Delays,      \* times that are asked for
          MaxLate,     \* how much later than it could a wait ends (a bound)
          MaxSignals   \* signals nobody has taken yet (a bound)

Handler == Periodic \union OneShot \union {Waiter}

TimeoutsAssumption ==
  /\ Waiter \notin Periodic \union OneShot /\ Periodic \intersect OneShot = {}
  /\ Period \in [Periodic -> Nat \ {0}] /\ Delays \subseteq Nat \ {0}
  /\ MaxLate \in Nat /\ MaxSignals \in Nat

VARIABLES
  list,      \* timeouts->next and so on: records [h, time]
  left,      \* list time until a handler in the list is due
  wall,      \* real time before which it must not run
  early,     \* the last handler ran before its time
  mode,      \* "fetch" (sys_mbox_fetch), "run" (a message), "wait" (sys_sem_wait)
  sem,       \* count of the semaphore waited for
  timeflag   \* timeflag of the frame that waits

vars == <<list, left, wall, early, mode, sem, timeflag>>

InList(l) == {l[i].h : i \in 1..Len(l)}

(* The time from now to entry k of l.                                      *)
TimeTo(l, k) == FoldLeft(LAMBDA sum, e : sum + e.time, 0, SubSeq(l, 1, k))

(* Mutant: the entry that follows keeps its time.                          *)
InsertedCarelessly(l, h, ms) ==
  LET k == Min({i \in 0..Len(l) : i = Len(l) \/ l[i + 1].time > ms - TimeTo(l, i)})
  IN InsertAt(l, k + 1, [h |-> h, time |-> ms - TimeTo(l, k)])

(* Mutant: the new entry goes first, and the list is forgotten.            *)
InsertedAlone(l, h, ms) ==
  LET k == Min({i \in 0..Len(l) : i = Len(l) \/ l[i + 1].time > ms - TimeTo(l, i)})
  IN Append(SubSeq(l, 1, k), [h |-> h, time |-> ms - TimeTo(l, k)])

(* sys_timeout: the new entry goes before the first one that is due later, *)
(* which loses the new entry's share of its time.                          *)
Inserted(l, h, ms) ==
  LET k == Min({i \in 0..Len(l) : i = Len(l) \/ l[i + 1].time > ms - TimeTo(l, i)})
      new == [h |-> h, time |-> ms - TimeTo(l, k)]
      rest == SubSeq(l, k + 1, Len(l))
  IN SubSeq(l, 1, k) \o <<new>>
       \o (IF rest = << >> THEN rest
           ELSE <<[Head(rest) EXCEPT !.time = @ - new.time]>> \o Tail(rest))

(* Mutant: the successor does not get the removed entry's time.            *)
RemovedCarelessly(l, h) == SelectSeq(l, LAMBDA e : e.h # h)

(* sys_untimeout: the entry that follows gets the removed one's time.      *)
Removed(l, h) ==
  IF h \notin InList(l) THEN l
  ELSE LET k == CHOOSE i \in 1..Len(l) : l[i].h = h
           rest == SubSeq(l, k + 1, Len(l))
       IN SubSeq(l, 1, k - 1)
            \o (IF rest = << >> THEN rest
                ELSE <<[Head(rest) EXCEPT !.time = @ + l[k].time]>> \o Tail(rest))

(* tcpip_thread has started its timers.                                    *)
Init ==
  /\ left = [h \in Handler |-> IF h \in Periodic THEN Period[h] ELSE 0]
  /\ wall = left
  /\ list = FoldSet(LAMBDA h, l : Inserted(l, h, Period[h]), << >>, Periodic)
  /\ early = FALSE /\ mode = "fetch" /\ sem = 0 /\ timeflag = FALSE

-----------------------------------------------------------------------------
AtMost(a, b) == IF a < b THEN a ELSE b
Down(f, d) == [h \in Handler |-> f[h] - AtMost(f[h], d)]

(* A handler is due in ms.                                                 *)
Ask(h, ms) == /\ left' = [left EXCEPT ![h] = ms]
              /\ wall' = [wall EXCEPT ![h] = ms]

(* The end of a wait that was not a time-out: of the time e it took the    *)
(* list is charged what its first entry has.                               *)
Charge(e) ==
  IF list = << >> THEN UNCHANGED <<list, left>> /\ wall' = Down(wall, e)
  ELSE LET d == AtMost(e, list[1].time)
       IN /\ list' = [list EXCEPT ![1].time = @ - d]
          /\ left' = Down(left, d)
          /\ wall' = Down(wall, e)

Longest == IF list = << >> THEN 0 ELSE list[1].time

(* sys_mbox_fetch returns a message after e.                               *)
Message ==
  /\ mode = "fetch"
  /\ \E e \in 0..(Longest + MaxLate) : Charge(e)
  /\ mode' = "run"
  /\ UNCHANGED <<early, sem, timeflag>>

(* A message is served: TCPIP_MSG_TIMEOUT, TCPIP_MSG_UNTIMEOUT, or another *)
(* one, and it takes a while.                                              *)
StartOne(h, ms) ==
  /\ mode = "run" /\ h \in OneShot /\ h \notin InList(list)
  /\ list' = Inserted(list, h, ms)
  /\ Ask(h, ms)
  /\ mode' = "fetch"
  /\ UNCHANGED <<early, sem, timeflag>>

StopOne(h) ==
  /\ mode = "run" /\ h \in OneShot
  /\ list' = Removed(list, h)
  /\ mode' = "fetch"
  /\ UNCHANGED <<left, wall, early, sem, timeflag>>

Work ==
  /\ mode = "run"
  /\ \E e \in 0..MaxLate : wall' = Down(wall, e)
  /\ mode' = "fetch"
  /\ UNCHANGED <<list, left, early, sem, timeflag>>

(* sys_sem_wait_timeout begins.                                            *)
WaitTimeout(ms) ==
  /\ mode = "run"
  /\ list' = Inserted(list, Waiter, ms)
  /\ Ask(Waiter, ms)
  /\ timeflag' = FALSE
  /\ mode' = "wait"
  /\ UNCHANGED <<early, sem>>

(* Another thread signals the semaphore.                                   *)
Signal ==
  /\ sem < MaxSignals
  /\ sem' = sem + 1
  /\ UNCHANGED <<list, left, wall, early, mode, timeflag>>

(* A wait times out, or its first entry is due at once: the entry leaves   *)
(* the list and its handler runs.  A periodic timer starts itself again;   *)
(* sswt_handler sets the flag and signals the semaphore.  The thread then  *)
(* waits again.                                                            *)
Expire ==
  /\ mode \in {"fetch", "wait"} /\ list # << >>
  /\ mode = "wait" => sem = 0 \/ list[1].time = 0
  /\ \E e \in list[1].time..(list[1].time + MaxLate) :
       LET h == list[1].h
           past == [left |-> Down(left, list[1].time), wall |-> Down(wall, e)]
       IN /\ early' = (past.wall[h] > 0)
          /\ IF h \in Periodic
               THEN /\ list' = Inserted(Tail(list), h, Period[h])
                    /\ left' = [past.left EXCEPT ![h] = Period[h]]
                    /\ wall' = [past.wall EXCEPT ![h] = Period[h]]
               ELSE /\ list' = Tail(list)
                    /\ left' = past.left /\ wall' = past.wall
          /\ IF h = Waiter
               THEN timeflag' = TRUE /\ sem' = sem + 1
               ELSE UNCHANGED <<timeflag, sem>>
  /\ UNCHANGED mode

(* Mutant: the time-out is left in the list when the semaphore came first. *)
TakenCarelessly ==
  /\ mode = "wait" /\ sem > 0 /\ (list = << >> \/ list[1].time > 0)
  /\ sem' = sem - 1
  /\ \E e \in 0..(Longest + MaxLate) : Charge(e)
  /\ mode' = "fetch"
  /\ UNCHANGED <<early, timeflag>>

(* sys_sem_wait gets the semaphore; if its time-out has not run,           *)
(* sys_sem_wait_timeout removes it before its frame goes.                  *)
Taken ==
  /\ mode = "wait" /\ sem > 0 /\ (list = << >> \/ list[1].time > 0)
  /\ sem' = sem - 1
  /\ \E e \in 0..(Longest + MaxLate) :
       LET d == AtMost(e, Longest)
           charged == IF list = << >> THEN list ELSE [list EXCEPT ![1].time = @ - d]
       IN /\ list' = IF timeflag THEN charged ELSE Removed(charged, Waiter)
          /\ left' = Down(left, d)
          /\ wall' = Down(wall, e)
  /\ mode' = "fetch"
  /\ UNCHANGED <<early, timeflag>>

Next ==
  \/ Message \/ Work \/ Signal \/ Expire \/ Taken
  \/ \E h \in OneShot, ms \in Delays : StartOne(h, ms)
  \/ \E h \in OneShot : StopOne(h)
  \/ \E ms \in Delays : WaitTimeout(ms)

Spec == Init /\ [][Next]_vars

-----------------------------------------------------------------------------
TypeOK ==
  /\ \A i \in 1..Len(list) : list[i] \in [h : Handler, time : Nat]
  /\ left \in [Handler -> Nat] /\ wall \in [Handler -> Nat]
  /\ mode \in {"fetch", "run", "wait"}
  /\ sem \in 0..(MaxSignals + 1)
  /\ early \in BOOLEAN /\ timeflag \in BOOLEAN

(* Through every insertion in the middle, removal and charge the           *)
(* differences in the list add up to each handler's own remaining time     *)
(* (sys.c, sys_timeout and sys_untimeout).                                 *)
DifferencesAddUp ==
  \A k \in 1..Len(list) : TimeTo(list, k) = left[list[k].h]

(* No handler runs before the time it was asked for.                       *)
NeverEarly == ~early

(* A time-out that points into the frame of sys_sem_wait_timeout is gone   *)
(* when the function returns.                                              *)
NoDanglingFrame == Waiter \in InList(list) => mode = "wait" /\ ~timeflag

(* The tcp/ip thread's own timers never drop out of the list, whatever     *)
(* other threads start and stop.                                           *)
TimersKept == Periodic \subseteq InList(list)
=============================================================================
