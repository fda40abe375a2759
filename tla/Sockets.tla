------------------------------ MODULE Sockets ------------------------------
(***************************************************************************)
(* Sockets (lwip/api/sockets.c): a table of slots over netconns, a count   *)
(* of what waits in each, and select.                                      *)
(* Threads call; the tcp/ip thread, here "stack", delivers what arrives    *)
(* and answers the calls it is asked for, one job after the other; a job   *)
(* that posts to a full mailbox waits.  Both                               *)
(* run event_callback, whose steps interleave; the sections between        *)
(* sys_sem_wait and sys_sem_signal of one semaphore are single steps, as   *)
(* nothing waits inside them.  A netconn's mailbox holds pieces, numbered  *)
(* by the bytes in them, the end of the stream, or accepted netconns.      *)
(* A slot is used by one call at a time, select apart, as lwIP demands,    *)
(* and is asked for what its kind allows; select is given slots whose      *)
(* number some call has returned.                                          *)
(***************************************************************************)
EXTENDS Integers, FiniteSetsExt, SequencesExt

CONSTANTS
  Server,      \* threads that open, read, write and close sockets
  Watcher,     \* threads that call select
  Conn,        \* netconns there is memory for
  NumSockets,  \* NUM_SOCKETS
  BoxSize,     \* DEFAULT_TCP_RECVMBOX_SIZE and the others
  Pieces,      \* the bytes a segment or datagram may carry
  MaxBytes,    \* bound: bytes that arrive for one netconn
  MaxAvail,    \* bound: how far recv_avail is counted up
  Lens,        \* the lengths given to recv
  Flags,       \* its flags: [peek, block]
  OffMod,      \* the range of a u16_t
  Kinds,       \* what lwip_socket is asked for: "new" (a stream), "unbound", "raw"
  Requests,    \* of "bind", "listen", "connect", "write", "timeo" (setsockopt
               \* SO_RCVTIMEO) and "nonblock" (ioctl FIONBIO), those that are called
  Watches      \* what is given to select: [read, write, timeo]

SocketsAssumption ==
  /\ NumSockets \in Nat \ {0} /\ BoxSize \in Nat \ {0} /\ MaxBytes \in Nat
  /\ MaxAvail \in Nat
  /\ Pieces \subseteq Nat \ {0} /\ \A n \in Lens : n \in 1..(OffMod - 1)
  /\ Server \intersect Watcher = {} /\ "stack" \notin Server \union Watcher
  /\ \A w \in Watches : w.read \union w.write \subseteq 0..(NumSockets - 1)

VARIABLES
  conns,    \* struct netconn
  sockets,  \* the array sockets
  cblist,   \* select_cb_list: [thread, watch, signalled]
  calls,    \* where each thread is
  ev,       \* where each thread is in event_callback
  job,      \* what the tcp/ip thread has still to do for the job at hand
  known     \* the slots whose numbers the threads have and have not closed

vars == <<conns, sockets, cblist, calls, ev, job, known>>

Slot == 0..(NumSockets - 1)
Actor == Server \union Watcher \union {"stack"}
Null == "null"
Eof == [from |-> 0, to |-> 0, push |-> TRUE]
NoBuf == [from |-> 0, to |-> 0, push |-> FALSE]

Receiving == {"tcp", "udp", "raw"}

Freed == [kind |-> "free", socket |-> -1, box |-> <<>>, err |-> "ok", pcb |-> FALSE,
          fin |-> FALSE, low |-> FALSE, next |-> 1, got |-> 1, avail |-> 0,
          timeo |-> FALSE]
Empty == [conn |-> Null, lastdata |-> NoBuf, lastoffset |-> 0, rcvevent |-> 0,
          sendevent |-> 0, nonblock |-> FALSE]
Idle == [at |-> "idle", s |-> -1, conn |-> Null, next |-> "idle", dels |-> <<>>]
NoEvent == [at |-> "none", conn |-> Null]

Init ==
  /\ conns = [c \in Conn |-> Freed]
  /\ sockets = [s \in Slot |-> Empty]
  /\ cblist = <<>>
  /\ calls = [t \in Server \union Watcher |-> Idle]
  /\ ev = [a \in Actor |-> NoEvent]
  /\ job = <<>>
  /\ known = {}

-----------------------------------------------------------------------------
(* event_callback.  A netconn without a socket counts down from -1 what    *)
(* arrives for it; lwip_accept makes that the socket's count.              *)
Begin(c, evt) == [at |-> "look", conn |-> c, evt |-> evt]

(* The slot an event is for: none if it is no longer in use.               *)
For(e, s) == IF sockets[s].conn = Null THEN NoEvent
             ELSE [e EXCEPT !.at = "set"] @@ [slot |-> s]

Look(a) ==
  /\ ev[a].at = "look"
  /\ LET s == conns[ev[a].conn].socket
     IN  ev' = [ev EXCEPT ![a] = IF s < 0 THEN [@ EXCEPT !.at = "lock"] ELSE For(@, s)]
  /\ UNCHANGED <<conns, sockets, cblist, calls, job, known>>

(* Mutant: not looked again under the semaphore.                           *)
LockBlind(a) ==
  /\ ev[a].at = "lock"
  /\ conns' = IF ev[a].evt = "rcv+" THEN [conns EXCEPT ![ev[a].conn].socket = @ - 1] ELSE conns
  /\ ev' = [ev EXCEPT ![a] = NoEvent]
  /\ UNCHANGED <<sockets, cblist, calls, job, known>>

Lock(a) ==
  /\ ev[a].at = "lock"
  /\ LET c == ev[a].conn
         s == conns[c].socket
     IN  IF s < 0
           THEN /\ conns' = IF ev[a].evt = "rcv+" THEN [conns EXCEPT ![c].socket = @ - 1]
                            ELSE conns
                /\ ev' = [ev EXCEPT ![a] = NoEvent]
           ELSE conns' = conns /\ ev' = [ev EXCEPT ![a] = For(@, s)]
  /\ UNCHANGED <<sockets, cblist, calls, job, known>>

Counted(sock, evt) ==
  CASE evt = "rcv+"  -> [sock EXCEPT !.rcvevent = @ + 1]
    [] evt = "rcv-"  -> [sock EXCEPT !.rcvevent = @ - 1]
    [] evt = "send+" -> [sock EXCEPT !.sendevent = 1]
    [] evt = "send-" -> [sock EXCEPT !.sendevent = 0]

SetEvent(a) ==
  /\ ev[a].at = "set"
  /\ sockets' = [sockets EXCEPT ![ev[a].slot] = Counted(@, ev[a].evt)]
  /\ ev' = [ev EXCEPT ![a].at = "scan"]
  /\ UNCHANGED <<conns, cblist, calls, job, known>>

(* A waiting select that the state of slot s lets go on.                   *)
Waits(cb, s) ==
  /\ ~cb.signalled
  /\ \/ s \in cb.watch.read /\ sockets[s].rcvevent > 0
     \/ s \in cb.watch.write /\ sockets[s].sendevent = 1

(* Mutant: only the first select in the list is signalled.                 *)
ScanOnce(a) ==
  /\ ev[a].at = "scan"
  /\ LET found == {i \in DOMAIN cblist : Waits(cblist[i], ev[a].slot)}
     IN  /\ ev' = [ev EXCEPT ![a] = NoEvent]
         /\ cblist' = IF found = {} THEN cblist
                      ELSE [cblist EXCEPT ![Min(found)].signalled = TRUE]
  /\ UNCHANGED <<conns, sockets, calls, job, known>>

(* One pass over the list: the first such select is signalled, and the     *)
(* list is searched again until there is none.                             *)
Scan(a) ==
  /\ ev[a].at = "scan"
  /\ LET found == {i \in DOMAIN cblist : Waits(cblist[i], ev[a].slot)}
     IN  IF found = {} THEN ev' = [ev EXCEPT ![a] = NoEvent] /\ cblist' = cblist
         ELSE ev' = ev /\ cblist' = [cblist EXCEPT ![Min(found)].signalled = TRUE]
  /\ UNCHANGED <<conns, sockets, calls, job, known>>

EventCallback == \E a \in Actor : Look(a) \/ Lock(a) \/ SetEvent(a) \/ Scan(a)

-----------------------------------------------------------------------------
(* Calls.  A thread goes on when its own callback has ended.               *)
At(t, place) == calls[t].at = place /\ ev[t].at = "none"
InUse(s) == \E t \in Server : calls[t].s = s
Conn_(s) == sockets[s].conn
Begun(t, s) == At(t, "idle") /\ s \in known /\ ~InUse(s)
Goes(t, place) == calls' = [calls EXCEPT ![t].at = place]
Returns(t) == calls' = [calls EXCEPT ![t] = Idle]

(* lwip_socket and lwip_accept: a netconn, a slot for it, then its number. *)
Socket(t, kind) ==
  /\ At(t, "idle")
  /\ \E c \in Conn :
       /\ conns[c].kind = "free"
       /\ conns' = [conns EXCEPT ![c] = [Freed EXCEPT !.kind = kind, !.pcb = TRUE]]
       /\ calls' = [calls EXCEPT ![t] =
            [Idle EXCEPT !.at = "alloc", !.conn = c, !.next = "name"]]
  /\ UNCHANGED <<sockets, cblist, ev, job, known>>

(* Mutant: the counts of the last use of the slot stay.                    *)
SlotForStale(c, sock) == [sock EXCEPT !.conn = c]

(* The slot as alloc_socket fills it.                                      *)
SlotFor(c, sock) == [Empty EXCEPT !.conn = c, !.sendevent = 1]

AllocSocket(t) ==
  /\ At(t, "alloc")
  /\ LET free == {s \in Slot : Conn_(s) = Null}
         c == calls[t].conn
     IN  IF free = {}
           THEN /\ calls' = [calls EXCEPT ![t].at = "delete", ![t].dels = <<c>>]
                /\ sockets' = sockets
           ELSE /\ sockets' = [sockets EXCEPT ![Min(free)] = SlotFor(c, @)]
                /\ calls' = [calls EXCEPT ![t].at = calls[t].next, ![t].s = Min(free)]
  /\ UNCHANGED <<conns, cblist, ev, job, known>>

Name(t) ==
  /\ At(t, "name")
  /\ conns' = [conns EXCEPT ![calls[t].conn].socket = calls[t].s]
  /\ known' = known \union {calls[t].s}
  /\ Returns(t)
  /\ UNCHANGED <<sockets, cblist, ev, job>>

(* Mutant: what came before the slot is forgotten.                         *)
CountBeforeNone(c) == 0

(* What event_callback has counted for a netconn without a slot.           *)
CountBefore(c) == -1 - conns[c].socket

Attach(t) ==
  /\ At(t, "attach")
  /\ LET c == calls[t].conn
         s == calls[t].s
     IN  /\ sockets' = [sockets EXCEPT ![s].rcvevent = @ + CountBefore(c)]
         /\ conns' = [conns EXCEPT ![c].socket = s]
         /\ known' = known \union {s}
  /\ Returns(t)
  /\ UNCHANGED <<cblist, ev, job>>

(* A non-blocking accept returns at once when the count is not positive.   *)
Accept(t, s) ==
  /\ Begun(t, s) /\ conns[Conn_(s)].kind = "listen"
  /\ ~(sockets[s].nonblock /\ sockets[s].rcvevent <= 0)
  /\ calls' = [calls EXCEPT ![t] = [Idle EXCEPT !.at = "accept", !.s = s]]
  /\ UNCHANGED <<conns, sockets, cblist, ev, job, known>>

(* netconn_accept                                                          *)
AcceptFetch(t) ==
  /\ At(t, "accept")
  /\ LET l == Conn_(calls[t].s)
     IN  /\ conns[l].box # <<>>
         /\ conns' = [conns EXCEPT ![l].box = Tail(@)]
         /\ calls' = [calls EXCEPT ![t].at = "peer", ![t].conn = Head(conns[l].box)]
         /\ ev' = [ev EXCEPT ![t] = Begin(l, "rcv-")]
  /\ UNCHANGED <<sockets, cblist, job, known>>

(* netconn_accept with recv_timeout: no connection came.                   *)
AcceptTimeout(t) ==
  /\ At(t, "accept")
  /\ LET l == conns[Conn_(calls[t].s)] IN l.box = <<>> /\ l.timeo
  /\ Returns(t)
  /\ UNCHANGED <<conns, sockets, cblist, ev, job, known>>

Quiet == job = <<>> /\ ev["stack"].at = "none"

(* netconn_peer, answered by the tcp/ip thread: fails when the connection  *)
(* has been reset.                                                         *)
Peer(t) ==
  /\ At(t, "peer") /\ Quiet
  /\ LET c == calls[t].conn
     IN  calls' = [calls EXCEPT ![t] =
            IF conns[c].pcb THEN [@ EXCEPT !.at = "alloc", !.next = "attach"]
            ELSE [@ EXCEPT !.at = "delete", !.dels = <<c>>]]
  /\ UNCHANGED <<conns, sockets, cblist, ev, job, known>>

-----------------------------------------------------------------------------
(* lwip_recvfrom.  mem is what has been copied, base the first byte that   *)
(* had not been read when the call began.                                  *)
Recv(t, s, len, flags) ==
  /\ Begun(t, s) /\ conns[Conn_(s)].kind \in Receiving
  /\ calls' = [calls EXCEPT ![t] = [Idle EXCEPT !.at = "recv", !.s = s] @@
       [len |-> len, peek |-> flags.peek, block |-> flags.block, off |-> 0, mem |-> <<>>,
        buf |-> NoBuf, base |-> conns[Conn_(s)].got]]
  /\ UNCHANGED <<conns, sockets, cblist, ev, job, known>>

Fatal(err) == err \in {"closed", "reset"}

(* The top of the loop: what was left, or else the mailbox.                *)
RecvTop(t) ==
  /\ At(t, "recv")
  /\ LET sock == sockets[calls[t].s]
     IN  Goes(t, IF sock.lastdata # NoBuf THEN "copy"
                 ELSE IF (~calls[t].block \/ sock.nonblock) /\ sock.rcvevent <= 0 THEN "return"
                 ELSE IF Fatal(conns[sock.conn].err) THEN "return"
                 ELSE "fetch")
  /\ UNCHANGED <<conns, sockets, cblist, ev, job, known>>

(* netconn_recv: a piece, and the event that it is gone; or the time is    *)
(* over or there is no memory for it, which is noted of a TCP netconn as   *)
(* an error that passes.                                                   *)
RecvFetch(t) ==
  /\ At(t, "fetch")
  /\ LET c == Conn_(calls[t].s)
         p == Head(conns[c].box)
     IN  /\ conns[c].box # <<>>
         /\ conns' = [conns EXCEPT ![c].box = Tail(@),
                                   ![c].avail = @ - (p.to - p.from)]
         /\ ev' = [ev EXCEPT ![t] = Begin(c, "rcv-")]
         /\ calls' = [calls EXCEPT ![t].at = "fetched", ![t].buf = p]
  /\ UNCHANGED <<sockets, cblist, job, known>>

RecvFails(t) ==
  /\ At(t, "fetch")
  /\ LET c == Conn_(calls[t].s)
         tcp == conns[c].kind = "tcp"
     IN  /\ (conns[c].box = <<>> /\ conns[c].timeo) \/ tcp
         /\ conns' = IF tcp THEN [conns EXCEPT ![c].err = "passing"] ELSE conns
  /\ Goes(t, "return")
  /\ UNCHANGED <<sockets, cblist, ev, job, known>>

(* The end of the stream is noted, unless there is an error already; of    *)
(* other data the tcp/ip thread is told (do_recv), and it is put in the    *)
(* slot, where select may see it.                                          *)
Fetched(t) ==
  /\ At(t, "fetched")
  /\ LET s == calls[t].s
         c == Conn_(s)
         p == calls[t].buf
     IN  IF p = Eof
           THEN /\ conns' = [conns EXCEPT ![c].err = IF @ = "ok" THEN "closed" ELSE @]
                /\ sockets' = sockets
                /\ Goes(t, "return")
           ELSE /\ conns[c].kind = "tcp" => Quiet
                /\ sockets' = [sockets EXCEPT ![s].lastdata = p]
                /\ conns' = conns
                /\ Goes(t, "copy")
  /\ UNCHANGED <<cblist, ev, job, known>>

(* The bytes of buf from byte k on, n of them, in memory from off on.      *)
Written(mem, off, buf, k, n) ==
  [i \in 1..Max({Len(mem), off + n}) |->
     IF i \in (off + 1)..(off + n) THEN buf.from + k + (i - off - 1) ELSE mem[i]]

(* Mutant: the offset of the last read is kept when the data is used up.   *)
RestOffset(sock, buf, n, tcp) ==
  IF tcp /\ sock.lastoffset + n < buf.to - buf.from
    THEN [sock EXCEPT !.lastdata = buf, !.lastoffset = @ + n]
    ELSE [sock EXCEPT !.lastdata = NoBuf]

(* The slot after n bytes of buf were taken: the rest of a segment stays,  *)
(* the rest of a datagram is dropped.                                      *)
Rest(sock, buf, n, tcp) ==
  IF tcp /\ sock.lastoffset + n < buf.to - buf.from
    THEN [sock EXCEPT !.lastdata = buf, !.lastoffset = @ + n]
    ELSE [sock EXCEPT !.lastdata = NoBuf, !.lastoffset = 0]

(* Mutant: a peek that reads on.                                           *)
DoneUnpeeked(call, buf, len, count) == len = 0 \/ buf.push \/ count <= 0

(* When the loop for a TCP socket ends.                                    *)
Done(call, buf, len, count) == len = 0 \/ buf.push \/ count <= 0 \/ call.peek

Copy(t) ==
  /\ At(t, "copy")
  /\ LET call == calls[t]
         s == call.s
         sock == sockets[s]
         c == sock.conn
         tcp == conns[c].kind = "tcp"
         buf == sock.lastdata
         n == Min({call.len, (buf.to - buf.from) - sock.lastoffset})
     IN  /\ sockets' = [sockets EXCEPT ![s] =
               IF call.peek THEN @ ELSE Rest(@, buf, n, tcp)]
         /\ conns' = [conns EXCEPT ![c].got =
               IF call.peek THEN @ ELSE IF tcp THEN @ + n ELSE buf.to]
         /\ calls' = [calls EXCEPT ![t] =
               [@ EXCEPT !.mem = Written(@, call.off, buf, sock.lastoffset, n),
                         !.off = (@ + n) % OffMod,
                         !.len = @ - n,
                         !.at = IF tcp /\ ~Done(call, buf, call.len - n, sock.rcvevent)
                                THEN "recv" ELSE "return"]]
  /\ UNCHANGED <<cblist, ev, job, known>>

Return(t) ==
  /\ At(t, "return") /\ Returns(t)
  /\ UNCHANGED <<conns, sockets, cblist, ev, job, known>>

-----------------------------------------------------------------------------
(* Calls the tcp/ip thread answers: lwip_bind, lwip_listen, lwip_connect   *)
(* and lwip_send; and lwip_close, which then empties the slot.             *)
Ask(t, s, req, kind) ==
  /\ req \in Requests /\ Begun(t, s) /\ conns[Conn_(s)].kind = kind
  /\ calls' = [calls EXCEPT ![t] = [Idle EXCEPT !.at = req, !.s = s]]
  /\ UNCHANGED <<conns, sockets, cblist, ev, job, known>>

Bind(t, s) == Ask(t, s, "bind", "unbound")
Listen(t, s) == Ask(t, s, "listen", "new")
Connect(t, s) == Ask(t, s, "connect", "new")
Send(t, s) == Ask(t, s, "write", "tcp")
SetTimeout(t, s) == \E kind \in Receiving \union {"listen"} : Ask(t, s, "timeo", kind)

(* lwip_ioctl with FIONBIO.                                                *)
SetNonblock(t, s) ==
  /\ "nonblock" \in Requests /\ Begun(t, s)
  /\ sockets' = [sockets EXCEPT ![s].nonblock = ~@]
  /\ UNCHANGED <<conns, cblist, calls, ev, job, known>>

Close(t, s) ==
  /\ Begun(t, s)
  /\ known' = known \ {s}
  /\ calls' = [calls EXCEPT ![t] =
       [Idle EXCEPT !.at = "delete", !.s = s, !.next = "clear", !.dels = <<Conn_(s)>>]]
  /\ UNCHANGED <<conns, sockets, cblist, ev, job>>

(* netconn_free: first the netconns that wait to be accepted go.           *)
FreeConn(t) ==
  /\ At(t, "free")
  /\ LET dels == calls[t].dels
         c == Head(dels)
         box == conns[c].box
     IN  IF conns[c].kind = "listen" /\ box # <<>>
           THEN /\ conns' = [conns EXCEPT ![c].box = Tail(@)]
                /\ calls' = [calls EXCEPT ![t].at = "delete", ![t].dels = <<Head(box)>> \o @]
           ELSE /\ conns' = [conns EXCEPT ![c] = Freed]
                /\ calls' = [calls EXCEPT ![t] =
                     IF Tail(dels) # <<>> THEN [@ EXCEPT !.dels = Tail(@)]
                     ELSE IF @.next = "clear" THEN [@ EXCEPT !.at = "clear", !.dels = <<>>]
                     ELSE Idle]
  /\ UNCHANGED <<sockets, cblist, ev, job, known>>

(* Mutant: what was left of the last read stays.                           *)
ClearedKept(sock) == [sock EXCEPT !.conn = Null]

Cleared(sock) == [sock EXCEPT !.conn = Null, !.lastdata = NoBuf, !.lastoffset = 0]

Clear(t) ==
  /\ At(t, "clear")
  /\ sockets' = [sockets EXCEPT ![calls[t].s] = Cleared(@)]
  /\ Returns(t)
  /\ UNCHANGED <<conns, cblist, ev, job, known>>

ServerStep ==
  \E t \in Server :
    \/ \E kind \in Kinds : Socket(t, kind)
    \/ AllocSocket(t) \/ Name(t) \/ Attach(t)
    \/ AcceptFetch(t) \/ AcceptTimeout(t) \/ Peer(t)
    \/ RecvTop(t) \/ RecvFetch(t) \/ RecvFails(t) \/ Fetched(t) \/ Copy(t) \/ Return(t)
    \/ FreeConn(t) \/ Clear(t)
    \/ \E s \in Slot :
         \/ Accept(t, s) \/ Close(t, s)
         \/ Bind(t, s) \/ Listen(t, s) \/ Connect(t, s) \/ Send(t, s)
         \/ SetTimeout(t, s) \/ SetNonblock(t, s)
         \/ \E len \in Lens, f \in Flags : Recv(t, s, len, f)

-----------------------------------------------------------------------------
(* lwip_select                                                             *)
Ready(watch) ==
  \/ \E s \in watch.read : /\ Conn_(s) # Null
                           /\ sockets[s].lastdata # NoBuf \/ sockets[s].rcvevent > 0
  \/ \E s \in watch.write : Conn_(s) # Null /\ sockets[s].sendevent = 1

(* Mutant: joins the list without a look at the sets.                      *)
SelectUnlooked(t, watch) ==
  /\ At(t, "idle") /\ watch.read \union watch.write \subseteq known
  /\ cblist' = <<[thread |-> t, watch |-> watch, signalled |-> FALSE]>> \o cblist
  /\ Goes(t, "wait")
  /\ UNCHANGED <<conns, sockets, ev, job, known>>

(* If something is ready, or its time is zero, the select returns.  Or     *)
(* else it joins the list, in the section in which it has looked.          *)
Select(t, watch) ==
  /\ At(t, "idle") /\ watch.read \union watch.write \subseteq known
  /\ \/ (Ready(watch) \/ watch.timeo) /\ UNCHANGED <<cblist, calls>>
     \/ /\ ~Ready(watch)
        /\ cblist' = <<[thread |-> t, watch |-> watch, signalled |-> FALSE]>> \o cblist
        /\ Goes(t, "wait")
  /\ UNCHANGED <<conns, sockets, ev, job, known>>

(* The semaphore is signalled, or the time is over if there is a limit;    *)
(* then off the list.                                                      *)
Wake(t) ==
  /\ At(t, "wait")
  /\ \E i \in DOMAIN cblist : /\ cblist[i].thread = t
                              /\ cblist[i].signalled \/ cblist[i].watch.timeo
  /\ Goes(t, "off")
  /\ UNCHANGED <<conns, sockets, cblist, ev, job, known>>

(* Mutant: the head of the list goes.                                      *)
WithoutHead(list, t) == Tail(list)

Without(list, t) == SelectSeq(list, LAMBDA cb : cb.thread # t)

(* What the select then returns, the sets looked at once more or empty     *)
(* ones, changes nothing here.                                             *)
Off(t) ==
  /\ At(t, "off")
  /\ cblist' = Without(cblist, t)
  /\ Returns(t)
  /\ UNCHANGED <<conns, sockets, ev, job, known>>

WatcherStep == \E t \in Watcher : (\E w \in Watches : Select(t, w)) \/ Wake(t) \/ Off(t)

-----------------------------------------------------------------------------
(* The tcp/ip thread: what arrives, and what the threads ask for.          *)
Event(c, evt) == [op |-> "event", conn |-> c, evt |-> evt]
Post(c, p) == [op |-> "post", conn |-> c, p |-> p]
Count(c, n) == [op |-> "count", conn |-> c, n |-> n]
Answer(t, place) == [op |-> "answer", thread |-> t, at |-> place]

Room(c) == Len(conns[c].box) < BoxSize

(* A netconn that tcp_close has failed for: tcp_recv is taken back.        *)
Closing(c) == \E t \in Server : calls[t].at = "closing" /\ Head(calls[t].dels) = c

(* recv_raw, recv_udp: a datagram to the mailbox, or else it is thrown     *)
(* away; then SYS_ARCH_INC, then the event.                                *)
ArriveUdp(c, n) ==
  /\ conns[c].kind \in Receiving \ {"tcp"} /\ conns[c].pcb /\ Room(c)
  /\ conns[c].next + n - 1 <= MaxBytes
  /\ conns' = [conns EXCEPT
       ![c].box = Append(@, [from |-> conns[c].next, to |-> conns[c].next + n, push |-> FALSE]),
       ![c].next = @ + n]
  /\ job' = <<Count(c, n), Event(c, "rcv+")>>
  /\ UNCHANGED calls

(* recv_tcp: SYS_ARCH_INC, then to the mailbox and the event.  A segment   *)
(* for which there is no room has been counted, and comes again.           *)
Arrive(c, n, push) ==
  /\ conns[c].kind = "tcp" /\ conns[c].pcb /\ ~conns[c].fin /\ ~Closing(c)
  /\ conns[c].next + n - 1 <= MaxBytes /\ conns[c].avail + n <= MaxAvail
  /\ LET counted == [conns EXCEPT ![c].avail = @ + n, ![c].err = "ok"]
         p == [from |-> conns[c].next, to |-> conns[c].next + n, push |-> push]
     IN  IF Room(c)
           THEN /\ conns' = [counted EXCEPT ![c].box = Append(@, p), ![c].next = @ + n]
                /\ job' = <<Event(c, "rcv+")>>
           ELSE conns' = counted /\ job' = <<>>
  /\ UNCHANGED calls

(* recv_tcp at the end of the stream, which a full mailbox loses: tcp_in.c *)
(* does not look at the answer.                                            *)
Fin(c) ==
  /\ conns[c].kind = "tcp" /\ conns[c].pcb /\ ~conns[c].fin /\ ~Closing(c)
  /\ LET ended == [conns EXCEPT ![c].fin = TRUE, ![c].err = "ok"]
     IN  IF Room(c)
           THEN /\ conns' = [ended EXCEPT ![c].box = Append(@, Eof)]
                /\ job' = <<Event(c, "rcv+")>>
           ELSE conns' = ended /\ job' = <<>>
  /\ UNCHANGED calls

(* err_tcp: the event, then the mailbox.                                   *)
Erred(c) == [conns EXCEPT ![c].pcb = FALSE, ![c].err = "reset"]
ErredJob(c) == <<Event(c, "rcv+"), Post(c, Eof)>>

Reset(c) ==
  /\ conns[c].kind = "tcp" /\ conns[c].pcb /\ ~Closing(c)
  /\ conns' = Erred(c) /\ job' = ErredJob(c)
  /\ UNCHANGED calls

(* accept_function.  Without room the netconn goes again and the           *)
(* connection with it, which is Netconn's subject.                         *)
Incoming(l, c) ==
  /\ conns[l].kind = "listen" /\ conns[l].pcb /\ Room(l) /\ conns[c].kind = "free"
  /\ conns' = [conns EXCEPT ![c] = [Freed EXCEPT !.kind = "tcp", !.pcb = TRUE],
                            ![l].box = Append(@, c)]
  /\ job' = <<Event(l, "rcv+")>>
  /\ UNCHANGED calls

(* sent_tcp: the buffer has room again; the event for one that had room    *)
(* would set what is set.                                                  *)
Sent(c) ==
  /\ conns[c].kind = "tcp" /\ conns[c].pcb /\ conns[c].low
  /\ conns' = [conns EXCEPT ![c].low = FALSE]
  /\ job' = <<Event(c, "send+")>>
  /\ UNCHANGED calls

(* do_bind, do_connect and do_listen, which may fail; do_write, which may  *)
(* leave little room, with all or a part written; and                      *)
(* lwip_setsockopt_internal.  A connection that is refused ends in         *)
(* err_tcp, which answers the call.                                        *)
Asked(t) == conns[Conn_(calls[t].s)]
Becomes(t, kind) ==
  /\ conns' = [conns EXCEPT ![Conn_(calls[t].s)].kind = kind]
  /\ job' = <<>> /\ Returns(t)

DoBind(t) == At(t, "bind") /\ \E kind \in {"unbound", "udp"} : Becomes(t, kind)
DoConnect(t) == At(t, "connect") /\ Becomes(t, "tcp")
DoListen(t) == At(t, "listen") /\ \E kind \in {"new", "listen"} : Becomes(t, kind)

Refuse(t) ==
  /\ At(t, "connect")
  /\ LET c == Conn_(calls[t].s)
     IN  /\ conns' = [Erred(c) EXCEPT ![c].kind = "tcp"]
         /\ job' = ErredJob(c) \o <<Answer(t, "return")>>
  /\ Goes(t, "asked")

DoSetTimeout(t) ==
  /\ At(t, "timeo")
  /\ conns' = [conns EXCEPT ![Conn_(calls[t].s)].timeo = ~@]
  /\ job' = <<>> /\ Returns(t)

DoWrite(t) ==
  /\ At(t, "write")
  /\ \/ ~(Asked(t).low /\ Asked(t).pcb) /\ conns' = conns /\ job' = <<>> /\ Returns(t)
     \/ /\ Asked(t).pcb
        /\ conns' = [conns EXCEPT ![Conn_(calls[t].s)].low = TRUE]
        /\ \/ /\ job' = <<Event(Conn_(calls[t].s), "send-")>>
              /\ UNCHANGED calls
           \/ /\ job' = <<Event(Conn_(calls[t].s), "send-"), Answer(t, "return")>>
              /\ Goes(t, "asked")

(* do_delconn: no more callbacks, and every select is told.  tcp_close may *)
(* lack memory: then poll_tcp tries again, or the connection is reset.     *)
Closed(t, c) ==
  /\ conns' = [conns EXCEPT ![c].pcb = FALSE,
                 ![c].err = IF conns[c].pcb /\ conns[c].kind \notin {"unbound", "udp", "raw"}
                            THEN "ok" ELSE @]
  /\ job' = <<Event(c, "rcv+"), Event(c, "send+"), Answer(t, "free")>>
  /\ Goes(t, "asked")

DoDelconn(t) ==
  /\ At(t, "delete") \/ At(t, "closing")
  /\ Closed(t, Head(calls[t].dels))

CloseFails(t) ==
  /\ At(t, "delete")
  /\ LET c == conns[Head(calls[t].dels)] IN c.kind = "tcp" /\ c.pcb
  /\ Goes(t, "closing") /\ job' = <<>>
  /\ UNCHANGED conns

CloseReset(t) ==
  /\ At(t, "closing")
  /\ LET c == Head(calls[t].dels)
     IN  conns' = Erred(c) /\ job' = ErredJob(c) \o <<Answer(t, "free")>>
  /\ Goes(t, "asked")

(* The next piece of the job at hand.                                      *)
Work ==
  /\ ev["stack"].at = "none" /\ job # <<>>
  /\ job' = Tail(job)
  /\ LET j == Head(job)
     IN  \/ /\ j.op = "event" /\ ev' = [ev EXCEPT !["stack"] = Begin(j.conn, j.evt)]
            /\ UNCHANGED <<conns, calls>>
         \/ /\ j.op = "post" /\ Room(j.conn)
            /\ conns' = [conns EXCEPT ![j.conn].box = Append(@, j.p)]
            /\ UNCHANGED <<ev, calls>>
         \/ /\ j.op = "count" /\ conns' = [conns EXCEPT ![j.conn].avail = @ + j.n]
            /\ UNCHANGED <<ev, calls>>
         \/ /\ j.op = "answer" /\ Goes(j.thread, j.at)
            /\ UNCHANGED <<ev, conns>>
  /\ UNCHANGED <<sockets, cblist, known>>

StackStep ==
  \/ Work
  \/ /\ Quiet
     /\ \/ \E c \in Conn : \/ Fin(c) \/ Reset(c) \/ Sent(c)
                           \/ \E n \in Pieces : \/ ArriveUdp(c, n)
                                              \/ \E push \in BOOLEAN : Arrive(c, n, push)
                           \/ \E l \in Conn : Incoming(l, c)
        \/ \E t \in Server : \/ DoBind(t) \/ DoConnect(t) \/ Refuse(t) \/ DoListen(t)
                             \/ DoWrite(t) \/ DoSetTimeout(t)
                             \/ DoDelconn(t) \/ CloseFails(t) \/ CloseReset(t)
     /\ UNCHANGED <<sockets, cblist, ev, known>>

Next == EventCallback \/ ServerStep \/ WatcherStep \/ StackStep

Spec == Init /\ [][Next]_vars

-----------------------------------------------------------------------------
TypeOK ==
  /\ \A c \in Conn : /\ conns[c].kind \in Receiving \union {"free", "new", "unbound", "listen"}
                    /\ conns[c].socket \in (-1 - BoxSize - 2)..(NumSockets - 1)
                    /\ Len(conns[c].box) <= BoxSize
  /\ \A s \in Slot : /\ sockets[s].conn \in Conn \union {Null}
                    /\ sockets[s].rcvevent \in -1..(BoxSize + 2)
                    /\ sockets[s].sendevent \in {0, 1}
  /\ \A t \in Server : calls[t].s \in Slot \union {-1}
  /\ known \subseteq Slot

(* Events for netconn c that are not in its count yet, and pieces that are *)
(* counted and not yet in its mailbox.                                     *)
Coming(c, evt) ==
  Cardinality({a \in Actor : ev[a].conn = c /\ ev[a].evt = evt
                             /\ ev[a].at \in {"look", "lock", "set"}})
  + Cardinality({i \in DOMAIN job : job[i] = Event(c, evt)})
Posting(c) == Cardinality({i \in DOMAIN job : job[i] = Post(c, Eof)})
Deleted(c) ==
  \E t \in Server : \/ c \in ToSet(calls[t].dels)
                    \/ calls[t].at = "clear" /\ Conn_(calls[t].s) = c

(* The count of a netconn, in its slot or before it has one, is what waits *)
(* in its mailbox, whatever event_callbacks are under way and whenever     *)
(* accept attaches it.                                                     *)
CountsTrue ==
  \A c \in Conn : conns[c].kind # "free" /\ ~Deleted(c) =>
    LET s == conns[c].socket
        count == IF s < 0 THEN -1 - s ELSE sockets[s].rcvevent
    IN  count + Coming(c, "rcv+") - Coming(c, "rcv-") = Len(conns[c].box) + Posting(c)

(* A select that has not been signalled waits for nothing that is there,   *)
(* unless a callback is about to look at the list.                         *)
NoMissedEvent ==
  \A i \in DOMAIN cblist : \A s \in Slot :
    calls[cblist[i].thread].at = "wait" /\ Conn_(s) # Null /\ Waits(cblist[i], s) =>
      \E a \in Actor : ev[a].at = "scan" /\ ev[a].slot = s

(* The list holds each select that is in it once, and no other.            *)
ListTrue ==
  /\ \A i, j \in DOMAIN cblist : cblist[i].thread = cblist[j].thread => i = j
  /\ {cblist[i].thread : i \in DOMAIN cblist}
       = {t \in Watcher : calls[t].at \in {"wait", "off"}}

(* Each slot has a netconn of its own that is not freed before the slot is *)
(* being emptied, and events reach the slot of their netconn.              *)
SlotsTrue ==
  /\ \A s \in Slot : Conn_(s) # Null =>
       \/ conns[Conn_(s)].socket = s
       \/ \E t \in Server : calls[t].s = s /\ calls[t].at \in {"name", "attach", "clear"}
  /\ \A c \in Conn : conns[c].kind # "free" /\ conns[c].socket >= 0 => Conn_(conns[c].socket) = c
  /\ \A a \in Actor : /\ ev[a].at # "none" => conns[ev[a].conn].kind # "free"
                      /\ ev[a].at = "set" => Conn_(ev[a].slot) = ev[a].conn
  /\ \A s \in Slot : Conn_(s) = Null => sockets[s].lastdata = NoBuf

(* A call returns the bytes that follow those the calls before it took.    *)
InOrder ==
  \A t \in Server : "mem" \in DOMAIN calls[t] =>
    calls[t].mem = [i \in 1..calls[t].off |-> calls[t].base + i - 1]

(* What has not been read is what was left, and then what is in the        *)
(* mailbox, without a gap.                                                 *)
Unread(s) ==
  LET sock == sockets[s]
      box == SelectSeq(conns[sock.conn].box, LAMBDA p : p # Eof)
      held == {calls[t].buf : t \in {u \in Server : calls[u].s = s /\ calls[u].at = "fetched"}}
                \ {Eof}
  IN  (IF sock.lastdata # NoBuf
         THEN <<[sock.lastdata EXCEPT !.from = @ + sock.lastoffset]>> ELSE <<>>)
      \o SetToSeq(held) \o box
NothingLost ==
  \A s \in Slot :
    Conn_(s) # Null /\ conns[Conn_(s)].kind \in Receiving /\ ~Deleted(Conn_(s)) =>
      LET u == Unread(s)
          c == conns[Conn_(s)]
      IN  IF u = <<>> THEN c.got = c.next
          ELSE /\ u[1].from = c.got /\ u[Len(u)].to = c.next
               /\ \A i \in 1..(Len(u) - 1) : u[i].to = u[i + 1].from

(* Mutant: the piece at hand is forgotten.                                 *)
FionreadMailbox(s) == Max({0, conns[sockets[s].conn].avail})

(* What lwip_ioctl answers to FIONREAD.                                    *)
Fionread(s) ==
  LET sock == sockets[s]
  IN  Max({0, conns[sock.conn].avail})
        + (sock.lastdata.to - sock.lastdata.from) - sock.lastoffset

(* Between calls FIONREAD tells the bytes that have arrived at a datagram  *)
(* socket and were not read, once the tcp/ip thread has counted them; of a *)
(* stream it tells no fewer: more when segments had to be refused.         *)
ReadableTold ==
  \A s \in known :
    LET c == Conn_(s)
        unread == conns[c].next - conns[c].got
    IN  conns[c].kind \in Receiving /\ ~InUse(s) =>
          IF conns[c].kind = "tcp" THEN Fionread(s) >= unread
          ELSE (\A i \in DOMAIN job : job[i].op # "count") => Fionread(s) = unread

(* All of it: lwip/api/sockets.c keeps its counts, its list of selects and *)
(* its slots right, and reads lose nothing.                                *)
SocketsSound ==
  CountsTrue /\ NoMissedEvent /\ ListTrue /\ SlotsTrue /\ InOrder /\ NothingLost
  /\ ReadableTold
=============================================================================
