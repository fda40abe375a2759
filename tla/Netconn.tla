------------------------------ MODULE Netconn -------------------------------
(***************************************************************************)
(* TCP connections of the sequential interface (lwip/api/api_lib.c and     *)
(* api_msg.c).  One application thread calls netconn_...; the tcp/ip       *)
(* thread runs the do_... handler of each call and signals the netconn's   *)
(* semaphore, at once or from a callback of the connection.  The callbacks *)
(* run in the tcp/ip thread for timers and, on this board, in ethTask for  *)
(* segments.  Handlers and callbacks are atomic here.                      *)
(* The application follows the rules whose violation stops the board: it   *)
(* connects and listens on closed blocks only, and writes to none that is  *)
(* closed or listening.                                                    *)
(***************************************************************************)
EXTENDS Naturals, Sequences, FiniteSets

CONSTANTS Nobody,      \* no netconn
          Conn,        \* the netconns there is memory for
          BoxSize,     \* DEFAULT_TCP_RECVMBOX_SIZE, DEFAULT_ACCEPTMBOX_SIZE
          Lengths,     \* the sizes of the application's writes
          SndBuf,      \* TCP_SND_BUF
          Tags         \* packets of a connection are numbered 1..Tags, over and over

NetconnAssumption ==
  /\ Nobody \notin Conn
  /\ BoxSize \in Nat \ {0} /\ SndBuf \in Nat \ {0} /\ Tags > BoxSize + 1
  /\ Lengths \subseteq Nat \ {0}

VARIABLES
  nc,      \* struct netconn: [used, state, err, kind, box, sem, left]
  tp,      \* its pcb: [state, recv, room, refused, next, fin]
  user,    \* the application thread: [at, call, conn, parent, got]
  stuck    \* the netconn whose full mailbox each thread waits to post to

vars == <<nc, tp, user, stuck>>

Thread == {"tcpip", "eth"}
Eof == 0
Unused == [used |-> FALSE, state |-> "none", err |-> "ok", kind |-> "recv",
           box |-> <<>>, sem |-> 0, left |-> 0]
NoPcb == [state |-> "none", recv |-> FALSE, room |-> SndBuf, refused |-> 0, next |-> 1,
          fin |-> FALSE]
NoUser == [at |-> "idle", call |-> "none", conn |-> Nobody, parent |-> Nobody]

Init ==
  /\ nc = [c \in Conn |-> Unused]
  /\ tp = [c \in Conn |-> NoPcb]
  /\ user = NoUser
  /\ stuck = [t \in Thread |-> Nobody]

-----------------------------------------------------------------------------
Succ(x) == IF x = Tags THEN 1 ELSE x + 1
Runs(t) == stuck[t] = Nobody
Signalled(n) == [n EXCEPT !.sem = @ + 1]
Fatal(n) == n.err = "fatal"
Room(n) == Len(n.box) < BoxSize

(* setup_tcp: the connection's callbacks and their argument.               *)
SetUp(p) == [p EXCEPT !.recv = TRUE]

(* netconn_alloc                                                           *)
Allocated == [Unused EXCEPT !.used = TRUE]

(* Mutant: err_tcp wakes a thread that connects only.                      *)
ErredConnect(n) ==
  LET posted == [n EXCEPT !.box = Append(@, Eof)]
  IN IF n.state = "connect" THEN Signalled([posted EXCEPT !.state = "none"]) ELSE posted

(* The rest of err_tcp, once the mailbox has room for its NULL.            *)
Erred(n) ==
  LET posted == [n EXCEPT !.box = Append(@, Eof)]
  IN IF n.state \in {"connect", "write", "close"}
       THEN Signalled([posted EXCEPT !.state = "none"]) ELSE posted

(* recv_tcp: a packet or NULL for the mailbox, refused when it is full.    *)
(* Without a callback tcp_recv_null frees the packet.                      *)
Delivered(n, p, x) ==
  IF p.recv /\ Room(n) THEN [n EXCEPT !.box = Append(@, x), !.err = "ok"]
  ELSE IF p.recv THEN [n EXCEPT !.err = "ok"] ELSE n

Refuses(n, p) == p.recv /\ ~Room(n)

(* Mutant: the call is finished as soon as anything has been written.      *)
WrittenOnce(n, p, len) ==
  IF len < n.left
    THEN Signalled([n EXCEPT !.left = @ - len, !.state = "none", !.err = "ok"])
    ELSE Signalled([n EXCEPT !.left = 0, !.state = "none", !.err = "ok"])

(* do_writemore after tcp_write took len bytes.                            *)
Written(n, p, len) ==
  IF len < n.left
    THEN [n EXCEPT !.left = @ - len, !.err = "ok"]
    ELSE Signalled([n EXCEPT !.left = 0, !.state = "none", !.err = "ok"])

AtMost(a, b) == IF a < b THEN a ELSE b

(* do_writemore: tcp_write takes what fits into the send buffer, or fails  *)
(* for want of memory.                                                     *)
WriteMore(c, n, p) ==
  \/ LET len == AtMost(n.left, p.room)
     IN /\ nc' = [nc EXCEPT ![c] = Written(n, p, len)]
        /\ tp' = [tp EXCEPT ![c] = [p EXCEPT !.room = @ - len]]
  \/ nc' = [nc EXCEPT ![c] = n] /\ tp' = [tp EXCEPT ![c] = p]

(* Mutant: the callbacks stay when tcp_close succeeds.                     *)
CloseInternalHooked(c, n, p) ==
  \/ /\ nc' = [nc EXCEPT ![c] = Signalled([n EXCEPT !.state = "none", !.err = "ok"])]
     /\ UNCHANGED tp
  \/ /\ p.state = "est"
     /\ nc' = [nc EXCEPT ![c] = n]
     /\ tp' = [tp EXCEPT ![c] = [p EXCEPT !.recv = FALSE]]

(* do_close_internal: tcp_close takes the callbacks off and the block away *)
(* from the netconn; it fails for want of memory if a FIN must be sent,    *)
(* and all callbacks but recv_tcp are set again.                           *)
CloseInternal(c, n, p) ==
  \/ /\ nc' = [nc EXCEPT ![c] = Signalled([n EXCEPT !.state = "none", !.err = "ok"])]
     /\ tp' = [tp EXCEPT ![c] = NoPcb]
  \/ /\ p.state = "est"
     /\ nc' = [nc EXCEPT ![c] = n]
     /\ tp' = [tp EXCEPT ![c] = [p EXCEPT !.recv = FALSE]]

-----------------------------------------------------------------------------
(* The application's calls: tcpip_apimsg posts the handler and waits.      *)
Post(call, c, parent) == user' = [at |-> "posted", call |-> call, conn |-> c, parent |-> parent]

(* netconn_new                                                             *)
New(c) ==
  /\ user = NoUser /\ ~nc[c].used
  /\ nc' = [nc EXCEPT ![c] = Allocated]
  /\ Post("newconn", c, Nobody)
  /\ UNCHANGED <<tp, stuck>>

(* Accepted netconns are the application's only after netconn_accept.      *)
Queued(c) == \E l \in Conn : nc[l].kind = "accept" /\ \E i \in 1..Len(nc[l].box) : nc[l].box[i] = c
Mine(c) == nc[c].used /\ ~Queued(c)

(* netconn_bind, _connect, _listen, _close and _delete.                    *)
Call(c, call) ==
  /\ user = NoUser /\ Mine(c)
  /\ call \in {"bind", "connect", "listen"} => tp[c].state \in {"none", "closed"}
  /\ Post(call, c, Nobody)
  /\ UNCHANGED <<nc, tp, stuck>>

(* netconn_write                                                           *)
Write(c, len) ==
  /\ user = NoUser /\ Mine(c) /\ tp[c].state \notin {"closed", "listen"}
  /\ nc' = [nc EXCEPT ![c].left = len]
  /\ Post("write", c, Nobody)
  /\ UNCHANGED <<tp, stuck>>

(* netconn_recv and netconn_accept wait for the mailbox.                   *)
Fetch(c) ==
  /\ user = NoUser /\ Mine(c)
  /\ nc[c].kind = "recv" => ~Fatal(nc[c])
  /\ user' = [NoUser EXCEPT !.at = "fetch", !.conn = c]
  /\ UNCHANGED <<nc, tp, stuck>>

(* The mailbox has something: data is acknowledged by do_recv.             *)
Fetched ==
  LET c == user.conn
      x == Head(nc[c].box)
  IN /\ user.at = "fetch" /\ nc[c].box # <<>>
     /\ IF nc[c].kind = "recv" /\ x # Eof
          THEN Post("recv", c, Nobody) ELSE user' = NoUser
     /\ nc' = [nc EXCEPT ![c].box = Tail(@),
                         ![c].err = IF nc[c].kind = "recv" /\ x = Eof /\ @ = "ok" THEN "fatal" ELSE @]
     /\ UNCHANGED <<tp, stuck>>

(* recv_timeout                                                            *)
Timeout ==
  LET c == user.conn
  IN /\ user.at = "fetch" /\ nc[c].box = <<>>
     /\ nc' = [nc EXCEPT ![c].err = IF nc[c].kind = "recv" THEN "timeout" ELSE @]
     /\ user' = NoUser
     /\ UNCHANGED <<tp, stuck>>

-----------------------------------------------------------------------------
(* The tcp/ip thread's handlers.                                           *)
Handles(call) == user.at = "posted" /\ user.call = call /\ Runs("tcpip")

Wait == user' = [user EXCEPT !.at = "waiting"]

(* TCPIP_APIMSG_ACK                                                        *)
Ack(n) == nc' = [nc EXCEPT ![user.conn] = Signalled(n)]

(* do_newconn, pcb_new                                                     *)
DoNewconn ==
  LET c == user.conn
  IN /\ Handles("newconn") /\ Wait
     /\ \/ Ack(nc[c]) /\ tp' = [tp EXCEPT ![c] = SetUp([NoPcb EXCEPT !.state = "closed"])]
        \/ Ack([nc[c] EXCEPT !.err = "mem"]) /\ UNCHANGED tp
     /\ UNCHANGED stuck

(* do_bind: another block may have the address.                            *)
DoBind ==
  LET c == user.conn
  IN /\ Handles("bind") /\ Wait
     /\ \E e \in IF Fatal(nc[c]) \/ tp[c].state = "none" THEN {"fatal"} ELSE {"ok", "fatal"} :
          Ack([nc[c] EXCEPT !.err = e])
     /\ UNCHANGED <<tp, stuck>>

(* do_connect: when tcp_connect fails nothing signals.                     *)
DoConnect ==
  LET c == user.conn
  IN /\ Handles("connect") /\ Wait
     /\ IF tp[c].state = "none"
          THEN Ack(nc[c]) /\ UNCHANGED tp
          ELSE \/ /\ nc' = [nc EXCEPT ![c].state = "connect", ![c].err = "ok"]
                  /\ tp' = [tp EXCEPT ![c] = SetUp([@ EXCEPT !.state = "syn"])]
               \/ /\ nc' = [nc EXCEPT ![c].state = "connect", ![c].err = "mem"]
                  /\ tp' = [tp EXCEPT ![c] = SetUp(@)]
     /\ UNCHANGED stuck

(* do_listen: the accept mailbox takes the place of the other.             *)
DoListen ==
  LET c == user.conn
  IN /\ Handles("listen") /\ Wait
     /\ IF Fatal(nc[c]) \/ tp[c].state = "none" THEN Ack(nc[c]) /\ UNCHANGED tp
        ELSE \/ Ack([nc[c] EXCEPT !.err = "mem"]) /\ UNCHANGED tp
             \/ /\ Ack([nc[c] EXCEPT !.kind = "accept", !.box = <<>>,
                                     !.state = IF nc[c].err = "ok" THEN "listen" ELSE @])
                /\ tp' = [tp EXCEPT ![c].state = IF nc[c].err = "ok" THEN "listen" ELSE "none"]
     /\ UNCHANGED stuck

(* do_recv: tcp_recved opens the window.                                   *)
DoRecv ==
  /\ Handles("recv") /\ Wait
  /\ Ack(nc[user.conn])
  /\ UNCHANGED <<tp, stuck>>

(* do_write                                                                *)
DoWrite ==
  LET c == user.conn
  IN /\ Handles("write") /\ Wait
     /\ IF Fatal(nc[c]) \/ tp[c].state = "none"
          THEN Ack([nc[c] EXCEPT !.err = "fatal"]) /\ UNCHANGED tp
          ELSE WriteMore(c, [nc[c] EXCEPT !.state = "write"], tp[c])
     /\ UNCHANGED stuck

(* do_close and do_delconn                                                 *)
DoClose ==
  LET c == user.conn
  IN /\ Handles("close") \/ Handles("delete")
     /\ Wait
     /\ IF tp[c].state = "none"
          THEN /\ Ack([nc[c] EXCEPT !.err = IF user.call = "close" THEN "fatal" ELSE @])
               /\ UNCHANGED tp
          ELSE CloseInternal(c, [nc[c] EXCEPT !.state = "close"], tp[c])
     /\ UNCHANGED stuck

(* The call returns; netconn_free empties the accept mailbox by deleting   *)
(* what is in it, one call each.  A thread that waits to post to the freed *)
(* mailbox goes on, in memory that is not its own any more.                *)
Return ==
  LET c == user.conn
      l == user.parent
      gone == [nc EXCEPT ![c] = Unused]
      Freed(d) == [t \in Thread |-> IF stuck[t] = d THEN Nobody ELSE stuck[t]]
      Empty(m, d) ==  \* go on with the mailbox of d
        IF m[d].kind = "accept" /\ m[d].box # <<>>
          THEN Post("delete", Head(m[d].box), d) /\ nc' = [m EXCEPT ![d].box = Tail(@), ![d].sem = 0]
          ELSE user' = NoUser /\ nc' = [m EXCEPT ![d] = Unused]
  IN /\ user.at = "waiting" /\ nc[c].sem > 0
     /\ IF user.call = "delete"
          THEN (IF l = Nobody THEN Empty(nc, c) ELSE Empty(gone, l)) /\ stuck' = Freed(c)
        ELSE IF user.call = "newconn" /\ nc[c].err # "ok"
          THEN nc' = gone /\ user' = NoUser /\ UNCHANGED stuck
          ELSE nc' = [nc EXCEPT ![c].sem = @ - 1] /\ user' = NoUser /\ UNCHANGED stuck
     /\ UNCHANGED tp

-----------------------------------------------------------------------------
(* What happens to a connection: the callbacks of its block.               *)

(* do_connected: the handshake is complete.                                *)
Established(c) ==
  /\ Runs("eth") /\ tp[c].state = "syn"
  /\ tp' = [tp EXCEPT ![c] = SetUp([@ EXCEPT !.state = "est"])]
  /\ IF nc[c].state = "connect"
       THEN nc' = [nc EXCEPT ![c] = Signalled([@ EXCEPT !.state = "none", !.err = "ok"])]
       ELSE UNCHANGED nc
  /\ UNCHANGED <<user, stuck>>

(* Mutant: newer data does not wait for what was refused.                  *)
SegmentAhead(c) ==
  LET n == nc[c]
      p == tp[c]
  IN /\ Runs("eth") /\ p.state = "est" /\ ~p.fin
     /\ nc' = [nc EXCEPT ![c] = Delivered(n, p, p.next)]
     /\ tp' = [tp EXCEPT ![c].next = Succ(@), ![c].refused = IF Refuses(n, p) THEN p.next ELSE @]
     /\ UNCHANGED <<user, stuck>>

(* tcp_input of data: what was refused comes first, and while it is        *)
(* refused the segment is dropped, for the peer to send again.             *)
Segment(c) ==
  LET n == nc[c]
      p == tp[c]
  IN /\ Runs("eth") /\ p.state = "est" /\ ~p.fin /\ p.refused = 0
     /\ nc' = [nc EXCEPT ![c] = Delivered(n, p, p.next)]
     /\ tp' = [tp EXCEPT ![c].next = Succ(@), ![c].refused = IF Refuses(n, p) THEN p.next ELSE 0]
     /\ UNCHANGED <<user, stuck>>

(* The peer's FIN: NULL is posted, and lost when the mailbox is full.      *)
Fin(c) ==
  LET n == nc[c]
      p == tp[c]
  IN /\ Runs("eth") /\ p.state = "est" /\ ~p.fin /\ p.refused = 0
     /\ nc' = [nc EXCEPT ![c] = Delivered(n, p, Eof)]
     /\ tp' = [tp EXCEPT ![c].fin = TRUE]
     /\ UNCHANGED <<user, stuck>>

(* tcp_fasttmr and tcp_input offer refused data again.                     *)
Again(c, t) ==
  LET n == nc[c]
      p == tp[c]
  IN /\ Runs(t) /\ p.refused # 0 /\ ~Refuses(n, p)
     /\ nc' = [nc EXCEPT ![c] = Delivered(n, p, p.refused)]
     /\ tp' = [tp EXCEPT ![c].refused = 0]
     /\ UNCHANGED <<user, stuck>>

(* sent_tcp and poll_tcp go on with what the application waits for.        *)
GoOn(c, p) ==
  \/ nc[c].state = "write" /\ WriteMore(c, nc[c], p)
  \/ nc[c].state = "close" /\ CloseInternal(c, nc[c], p)

(* The peer acknowledges: sent_tcp.                                        *)
Sent(c) ==
  /\ Runs("eth") /\ tp[c].state = "est" /\ tp[c].room < SndBuf
  /\ LET p == [tp[c] EXCEPT !.room = SndBuf]
     IN \/ GoOn(c, p)
        \/ nc[c].state = "none" /\ tp' = [tp EXCEPT ![c] = p] /\ UNCHANGED nc
  /\ UNCHANGED <<user, stuck>>

(* The two-second timer: poll_tcp.                                         *)
Poll(c) ==
  /\ Runs("tcpip") /\ tp[c].state = "est"
  /\ GoOn(c, tp[c])
  /\ UNCHANGED <<user, stuck>>

(* err_tcp: the connection is reset, timed out or aborted.  Its post waits *)
(* when the mailbox is full, and the thread with it.                       *)
Err(c, t) ==
  LET n == [nc[c] EXCEPT !.err = "fatal"]
  IN /\ Runs(t) /\ tp[c].state \in {"syn", "est"}
     /\ tp' = [tp EXCEPT ![c] = NoPcb]
     /\ IF Room(n)
          THEN nc' = [nc EXCEPT ![c] = Erred(n)] /\ UNCHANGED stuck
          ELSE nc' = [nc EXCEPT ![c] = n] /\ stuck' = [stuck EXCEPT ![t] = c]
     /\ UNCHANGED user

Unstick(t) ==
  LET c == stuck[t]
  IN /\ ~Runs(t) /\ Room(nc[c])
     /\ nc' = [nc EXCEPT ![c] = Erred(@)]
     /\ stuck' = [stuck EXCEPT ![t] = Nobody]
     /\ UNCHANGED <<tp, user>>

(* accept_function: a new connection of a listening block gets a netconn.  *)
(* Without memory tcp_process aborts it; so it does when the mailbox is    *)
(* full, and its err_tcp then writes to the netconn that was freed.        *)
Incoming(l, c) ==
  /\ Runs("eth") /\ tp[l].state = "listen" /\ ~nc[c].used /\ Room(nc[l])
  /\ nc' = [nc EXCEPT ![c] = Allocated, ![l].box = Append(@, c)]
  /\ tp' = [tp EXCEPT ![c] = SetUp([NoPcb EXCEPT !.state = "est"])]
  /\ UNCHANGED <<user, stuck>>

Handler == DoNewconn \/ DoBind \/ DoConnect \/ DoListen \/ DoRecv \/ DoWrite \/ DoClose

Event ==
  \/ \E c \in Conn : Established(c) \/ Segment(c) \/ Fin(c) \/ Sent(c) \/ Poll(c)
  \/ \E c \in Conn, t \in Thread : Again(c, t) \/ Err(c, t)
  \/ \E t \in Thread : Unstick(t)
  \/ \E l, c \in Conn : Incoming(l, c)

Application ==
  \/ \E c \in Conn : New(c) \/ Fetch(c)
  \/ \E c \in Conn, call \in {"bind", "connect", "listen", "close", "delete"} : Call(c, call)
  \/ \E c \in Conn, len \in Lengths : Write(c, len)
  \/ Fetched \/ Timeout \/ Return

Next == Application \/ Handler \/ Event

-----------------------------------------------------------------------------
TypeOK ==
  /\ nc \in [Conn -> [used : BOOLEAN, state : {"none", "connect", "write", "close", "listen"},
                      err : {"ok", "mem", "timeout", "fatal"}, kind : {"recv", "accept"},
                      box : Seq(0..Tags \union Conn), sem : Nat, left : Nat]]
  /\ tp \in [Conn -> [state : {"none", "closed", "listen", "syn", "est"}, recv : BOOLEAN,
                      room : 0..SndBuf, refused : 0..Tags, next : 1..Tags,
                      fin : BOOLEAN]]
  /\ user.at \in {"idle", "posted", "waiting", "fetch"}
  /\ user.conn \in Conn \union {Nobody} /\ user.parent \in Conn \union {Nobody}
  /\ stuck \in [Thread -> Conn \union {Nobody}]

(* A semaphore is signalled once, and only while the application waits for *)
(* it: no answer is left over that would let a later call return early.    *)
OneAnswer ==
  \A c \in Conn : nc[c].sem > 0 => nc[c].sem = 1 /\ user.at = "waiting" /\ user.conn = c

(* A callback that goes on with a call finds the call's message: it is in  *)
(* the frame of the application's function, which must not have returned.  *)
FramesAlive ==
  \A c \in Conn : nc[c].state \in {"connect", "write", "close"} =>
    /\ user.at = "waiting" /\ user.conn = c
    /\ user.call = nc[c].state \/ (nc[c].state = "close" /\ user.call = "delete")

(* A write returns without an error only when all of it was written.       *)
WriteComplete ==
  \A c \in Conn : nc[c].sem > 0 /\ user.call = "write" /\ nc[c].err = "ok" => nc[c].left = 0

(* The callbacks of a block never get a netconn that has been freed, and   *)
(* a netconn in an accept mailbox is in use.                               *)
HooksAlive ==
  /\ \A c \in Conn : tp[c].state # "none" => nc[c].used
  /\ \A c \in Conn : Queued(c) => nc[c].used
  /\ \A t \in Thread : stuck[t] # Nobody => nc[stuck[t]].used

(* Data reaches the application in order: what is in the mailbox comes     *)
(* just before what was refused, and that just before what is next.        *)
InOrder ==
  \A c \in Conn : nc[c].kind = "recv" /\ tp[c].recv /\ tp[c].state = "est" =>
    LET data == SelectSeq(nc[c].box, LAMBDA x : x # Eof)
        all == IF tp[c].refused = 0 THEN data ELSE Append(data, tp[c].refused)
    IN \A i \in 1..Len(all) : Succ(all[i]) = IF i = Len(all) THEN tp[c].next ELSE all[i + 1]

(* The application waits for an answer that nothing will give.             *)
NoAnswer ==
  \/ \E t \in Thread : stuck[t] # Nobody
  \/ user.call = "connect" /\ user.at = "waiting" /\ tp[user.conn].state = "closed"

(* Every call is answered, unless err_tcp waits for a full mailbox or      *)
(* tcp_connect failed: while the application waits, the block's callbacks  *)
(* are there to go on with the call.                                       *)
AnswerOwed ==
  user.at = "waiting" /\ nc[user.conn].sem = 0 =>
    \/ NoAnswer
    \/ nc[user.conn].state = "connect" /\ tp[user.conn].state = "syn"
    \/ nc[user.conn].state \in {"write", "close"} /\ tp[user.conn].state = "est"
=============================================================================
