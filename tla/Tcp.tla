-------------------------------- MODULE Tcp ---------------------------------
(***************************************************************************)
(* One TCP connection between two hosts that both run lwIP (lwip/core/     *)
(* tcp.c, tcp_in.c, tcp_out.c): a connects, b listens.  The network loses  *)
(* and reorders segments.  Every byte is a segment of its own, so mss is 1 *)
(* and Nagle's algorithm holds nothing back; a segment that comes early is *)
(* dropped, as the code does without memory (TcpReceive has the queue).    *)
(* Any number of segments up to the window may be sent at a time, which    *)
(* stands for cwnd, and any duplicate acknowledgement may be the third.    *)
(* The timers may run out at any time; only the waits of two segment       *)
(* lifetimes are as long as that.                                          *)
(***************************************************************************)
EXTENDS Integers, Sequences, SequencesExt, FiniteSets

CONSTANTS Side,       \* both hosts
          Opener,     \* the one that connects
          ToWrite,    \* what each application writes
          Window,     \* TCP_WND
          MaxRtx,     \* TCP_MAXRTX, TCP_SYNMAXRTX
          MaxNet,     \* bound on the segments under way
          Lingers     \* whether applications close only when all is acknowledged

TcpAssumption ==
  /\ Cardinality(Side) = 2 /\ Opener \in Side
  /\ ToWrite \in [Side -> Nat] /\ Window \in Nat \ {0} /\ MaxRtx \in Nat /\ MaxNet \in Nat
  /\ Lingers \in BOOLEAN

VARIABLES
  pcb,   \* struct tcp_pcb of each side
  net,   \* segments under way: [to, seg]
  app    \* each application: [wrote, got, unread, eof, end]

vars == <<pcb, net, app>>

Peer(s) == CHOOSE t \in Side : t # s
AtMost(a, b) == IF a < b THEN a ELSE b
Bit(b) == IF b THEN 1 ELSE 0
TcpLen(q) == q.len + Bit(q.syn \/ q.fin)
End(q) == q.seq + TcpLen(q)

Open == {"SYN_RCVD", "ESTABLISHED", "FIN_WAIT_1", "FIN_WAIT_2", "CLOSE_WAIT", "CLOSING", "LAST_ACK"}
Active == Open \union {"SYN_SENT"}

(* tcp_alloc and tcp_connect: a sequence starts with its SYN at 0.         *)
Fresh ==
  [state |-> "CLOSED", rnxt |-> 0, snxt |-> 1, lbb |-> 0, una |-> 0, unsent |-> <<>>,
   unacked |-> <<>>, swnd |-> Window, wl1 |-> -1, wl2 |-> 0, persist |-> FALSE, now |-> FALSE,
   delay |-> FALSE, rwnd |-> Window, ann |-> Window, edge |-> 0, nrtx |-> 0, infr |-> FALSE, out |-> <<>>]

Init ==
  /\ pcb = [s \in Side |-> [Fresh EXCEPT !.state = IF s = Opener THEN "CLOSED" ELSE "LISTEN"]]
  /\ net = {}
  /\ app = [s \in Side |-> [wrote |-> 0, got |-> 0, unread |-> 0, eof |-> FALSE, end |-> "no"]]

-----------------------------------------------------------------------------
(* Sending (tcp_out.c).  A sent segment waits in out for the network.      *)

Header(e, q) ==
  [seq |-> q.seq, len |-> q.len, syn |-> q.syn, fin |-> q.fin, rst |-> FALSE,
   ack |-> e.state # "SYN_SENT", ackno |-> IF e.state = "SYN_SENT" THEN 0 ELSE e.rnxt, wnd |-> e.ann]

Control(seq, ackno, rst, wnd) ==
  [seq |-> seq, len |-> 0, syn |-> FALSE, fin |-> FALSE, rst |-> rst, ack |-> TRUE,
   ackno |-> ackno, wnd |-> wnd]

(* tcp_rst                                                                 *)
Rst(seq, ackno) == Control(seq, ackno, TRUE, Window)

Told(e) == [e EXCEPT !.edge = e.rnxt + e.ann, !.now = FALSE, !.delay = FALSE]

(* tcp_send_empty_ack                                                      *)
EmptyAck(e) ==
  Told([e EXCEPT !.out = Append(@, Control(e.snxt, e.rnxt, FALSE, e.ann))])

(* tcp_enqueue: a segment after the last that was written.                 *)
NewSegment(e, len, syn, fin) == [seq |-> e.lbb, len |-> len, syn |-> syn, fin |-> fin]

(* ... and its place.  A FIN joins the last unsent segment if that has     *)
(* data.                                                                   *)
Enqueue(e, len, syn, fin) ==
  LET joins == fin /\ e.unsent # <<>> /\ Last(e.unsent).len > 0 /\ ~Last(e.unsent).fin
      q == NewSegment(e, len, syn, fin)
  IN [e EXCEPT !.lbb = @ + TcpLen(q),
               !.unsent = IF joins THEN Append(Front(@), [Last(@) EXCEPT !.fin = TRUE])
                                   ELSE Append(@, q)]

Fits(e, q, w) == q.seq - e.una + q.len <= w

(* How many of the unsent segments fit into a window.                      *)
Sendable(e, w) ==
  LET i == SelectInSeq(e.unsent, LAMBDA q : ~Fits(e, q, w))
  IN IF i = 0 THEN Len(e.unsent) ELSE i - 1

Sorted(q) == SortSeq(q, LAMBDA x, y : x.seq < y.seq)
Highest(n, q) == FoldLeft(LAMBDA m, x : IF End(x) > m THEN End(x) ELSE m, n, q)

(* tcp_output with a congestion window of c.                               *)
Output(e, c) ==
  LET w == AtMost(e.swnd, c)
      n == Sendable(e, w)
      sent == SubSeq(e.unsent, 1, n)
      rest == SubSeq(e.unsent, n + 1, Len(e.unsent))
      f == IF n = 0 THEN e ELSE
             Told([e EXCEPT !.unacked = Sorted(@ \o sent), !.snxt = Highest(@, sent),
                            !.out = @ \o [i \in 1..n |-> Header(e, sent[i])]])
  IN IF e.now /\ n = 0 THEN EmptyAck(e)
     ELSE [f EXCEPT !.unsent = rest,
                    !.persist = @ \/ (rest # <<>> /\ ~Fits(e, Head(rest), e.swnd))]

(* tcp_rexmit_rto puts all that is unacknowledged before the unsent; a     *)
(* tcp_rexmit does so with the first segment.  MaxRtx + 1 stands for every *)
(* count above MaxRtx.                                                     *)
Rexmit(e, n) ==
  [e EXCEPT !.unacked = SubSeq(@, n + 1, Len(@)), !.nrtx = AtMost(@ + 1, MaxRtx + 1),
            !.unsent = Sorted(SubSeq(e.unacked, 1, n) \o @)]

(* tcp_rexmit_fast, once until there is a new acknowledgement.             *)
RexmitFast(e) == IF e.infr THEN e ELSE [Rexmit(e, 1) EXCEPT !.infr = TRUE]

(* tcp_zero_window_probe: the first byte again.                            *)
Probe(e) ==
  LET q == Head(e.unacked \o e.unsent)
      first == [q EXCEPT !.syn = FALSE, !.fin = q.fin /\ q.len = 0, !.len = Bit(~(q.fin /\ q.len = 0))]
  IN [e EXCEPT !.out = Append(@, Header(e, first)), !.edge = e.rnxt + e.ann]

-----------------------------------------------------------------------------
(* Receiving (tcp_in.c).                                                   *)

(* tcp_update_rcv_ann_wnd                                                  *)
Announced(e) ==
  [e EXCEPT !.ann = IF e.rnxt + e.rwnd >= e.edge + AtMost(Window \div 2, 1) THEN e.rwnd
                    ELSE IF e.rnxt > e.edge THEN 0 ELSE e.edge - e.rnxt]

(* What a segment says of the peer's window.                               *)
WindowOf(e, h) ==
  [e EXCEPT !.swnd = h.wnd, !.wl1 = h.seq, !.wl2 = h.ackno, !.persist = @ /\ h.wnd = 0]

(* tcp_receive: the peer's window, from segments newer than the last.      *)
Update(e, h) ==
  IF \/ e.wl1 < h.seq
     \/ e.wl1 = h.seq /\ e.wl2 < h.ackno
     \/ e.wl2 = h.ackno /\ h.wnd > e.swnd
    THEN WindowOf(e, h) ELSE e

Acceptable(e, h) == h.ackno > e.una /\ h.ackno <= e.snxt

(* tcp_receive: segments that are acknowledged leave both queues.          *)
Acked(e, h) ==
  LET new(q) == SelectSeq(q, LAMBDA x : End(x) > h.ackno)
  IN IF Acceptable(e, h)
       THEN [e EXCEPT !.una = h.ackno, !.nrtx = 0, !.infr = FALSE, !.unacked = new(@), !.unsent = new(@)]
       ELSE e

IsDuplicate(e, f, h) ==
  /\ h.ackno = e.una /\ TcpLen(h) = 0 /\ e.unacked # <<>>
  /\ f.swnd + f.wl2 = e.swnd + e.wl2

(* tcp_receive: data and FIN.  What is old is cut off; what does not start *)
(* at rcv_nxt is acknowledged and dropped; the rest is cut to the window.  *)
InWindow(e, n) == n >= e.rnxt /\ n < e.rnxt + e.rwnd

Data(e, h) ==
  LET old == e.rnxt > h.seq /\ e.rnxt < End(h)
      new == IF old THEN [h EXCEPT !.seq = e.rnxt, !.len = 0] ELSE h
      cut == IF TcpLen(new) > e.rwnd THEN [new EXCEPT !.fin = FALSE, !.len = e.rwnd] ELSE new
      f == Announced([e EXCEPT !.rnxt = @ + TcpLen(cut), !.rwnd = @ - TcpLen(cut)])
      late == [e EXCEPT !.now = @ \/ h.seq < e.rnxt]
  IN IF TcpLen(h) = 0
       THEN [pcb |-> [e EXCEPT !.now = @ \/ ~InWindow(e, h.seq)], len |-> 0, fin |-> FALSE]
     ELSE IF new.seq = e.rnxt /\ InWindow(e, new.seq)
       THEN [pcb |-> [f EXCEPT !.now = @ \/ e.delay, !.delay = ~@], len |-> cut.len, fin |-> cut.fin]
     ELSE [pcb |-> EmptyAck(late), len |-> 0, fin |-> FALSE]

(* tcp_process after tcp_receive: the states of closing.  "CLOSED" stands  *)
(* for TF_CLOSED.                                                          *)
(* Mutant: FIN_WAIT_1 does not look at what is acknowledged.               *)
ClosingStepEarly(state, fin, all) ==
  CASE state = "ESTABLISHED" -> IF fin THEN "CLOSE_WAIT" ELSE state
    [] state = "FIN_WAIT_1" -> IF fin THEN "TIME_WAIT" ELSE IF all THEN "FIN_WAIT_2" ELSE state
    [] state = "FIN_WAIT_2" -> IF fin THEN "TIME_WAIT" ELSE state
    [] state = "CLOSING" -> IF all THEN "TIME_WAIT" ELSE state
    [] state = "LAST_ACK" -> IF all THEN "CLOSED" ELSE state
    [] OTHER -> state

ClosingStep(state, fin, all) ==
  CASE state = "ESTABLISHED" -> IF fin THEN "CLOSE_WAIT" ELSE state
    [] state = "FIN_WAIT_1" ->
         IF fin THEN IF all THEN "TIME_WAIT" ELSE "CLOSING"
         ELSE IF all THEN "FIN_WAIT_2" ELSE state
    [] state = "FIN_WAIT_2" -> IF fin THEN "TIME_WAIT" ELSE state
    [] state = "CLOSING" -> IF all THEN "TIME_WAIT" ELSE state
    [] state = "LAST_ACK" -> IF all THEN "CLOSED" ELSE state
    [] OTHER -> state

-----------------------------------------------------------------------------
(* The network takes any of the segments that are handed to it.            *)
Transmit(s, out, flying) ==
  LET all == {[to |-> Peer(s), seg |-> out[i]] : i \in 1..Len(out)}
  IN \E kept \in SUBSET all :
       /\ Cardinality(flying \union kept) <= MaxNet
       /\ net' = flying \union kept

(* A side's block takes its new value and its segments leave.              *)
Become(s, e, flying) ==
  /\ pcb' = [pcb EXCEPT ![s] = [e EXCEPT !.out = <<>>]]
  /\ Transmit(s, e.out, flying)

(* tcp_pcb_purge                                                           *)
Purged(e, state) ==
  [e EXCEPT !.state = state, !.unsent = <<>>, !.unacked = <<>>, !.persist = FALSE, !.nrtx = 0]

Gone(e) == [Purged(e, "CLOSED") EXCEPT !.now = FALSE, !.delay = FALSE]

(* A connection ends with TCP_EVENT_ERR.                                   *)
Fails(s, e, flying) ==
  /\ Become(s, e, flying)
  /\ app' = [app EXCEPT ![s].end = IF @ = "no" THEN "error" ELSE @]

Congestion == {1, Window}

-----------------------------------------------------------------------------
(* tcp_connect                                                             *)
Connect(s) ==
  /\ s = Opener /\ pcb[s] = Fresh /\ app[s].end = "no"
  /\ Become(s, Output(Enqueue([Fresh EXCEPT !.state = "SYN_SENT"], 0, TRUE, FALSE), 1), net)
  /\ UNCHANGED app

(* tcp_write of one byte.                                                  *)
Write(s) ==
  /\ pcb[s].state \in {"ESTABLISHED", "CLOSE_WAIT"}
  /\ app[s].wrote < ToWrite[s]
  /\ \E c \in Congestion : Become(s, Output(Enqueue(pcb[s], 1, FALSE, FALSE), c), net)
  /\ app' = [app EXCEPT ![s].wrote = @ + 1]

(* tcp_close                                                               *)
Close(s) ==
  LET e == pcb[s]
  IN /\ e.state \in {"SYN_SENT", "SYN_RCVD", "ESTABLISHED", "CLOSE_WAIT"}
     /\ app[s].wrote = ToWrite[s]
     /\ Lingers => e.una = e.lbb
     /\ IF e.state = "SYN_SENT"
          THEN Become(s, Gone(e), net)
          ELSE \E c \in Congestion :
                 Become(s, Output([Enqueue(e, 0, FALSE, TRUE) EXCEPT
                                     !.state = IF e.state = "CLOSE_WAIT" THEN "LAST_ACK" ELSE "FIN_WAIT_1"], c),
                        net)
     /\ UNCHANGED app

(* tcp_abandon: the application gives up.                                  *)
Abort(s) ==
  /\ pcb[s].state \in Open
  /\ Fails(s, [Gone(pcb[s]) EXCEPT !.out = <<Rst(pcb[s].snxt, pcb[s].rnxt)>>], net)

(* tcp_recved of one byte, with TCP_WND_UPDATE_THRESHOLD below 1.          *)
Recved(s) ==
  LET e == pcb[s]
      f == Announced([e EXCEPT !.rwnd = AtMost(@ + 1, Window)])
      more == f.rnxt + f.ann > e.edge
  IN /\ e.state \in Open /\ app[s].unread > 0
     /\ \E c \in Congestion : Become(s, IF more THEN Output([f EXCEPT !.now = TRUE], c) ELSE f, net)
     /\ app' = [app EXCEPT ![s].unread = @ - 1]

(* tcp_listen_input: a SYN makes a block; b serves one connection.         *)
ListenInput(s, h, flying) ==
  LET e == [Fresh EXCEPT !.state = "SYN_RCVD", !.rnxt = h.seq + 1, !.edge = h.seq + 1,
                         !.swnd = h.wnd, !.wl1 = h.seq - 1]
  IN /\ pcb[s].state = "LISTEN"
     /\ \/ h.ack /\ Become(s, [pcb[s] EXCEPT !.out = <<Rst(h.ackno + 1, End(h))>>], flying)
        \/ ~h.ack /\ h.syn /\ Become(s, Output(Enqueue(e, 0, TRUE, FALSE), 1), flying)
        \/ ~h.ack /\ ~h.syn /\ Become(s, pcb[s], flying)
     /\ UNCHANGED app

(* tcp_input without a block: a reset answers all but resets.              *)
NoPcbInput(s, h, flying) ==
  /\ pcb[s].state = "CLOSED"
  /\ Transmit(s, IF h.rst THEN <<>> ELSE <<Rst(h.ackno, End(h))>>, flying)
  /\ UNCHANGED <<pcb, app>>

(* tcp_timewait_input                                                      *)
TimeWaitInput(s, h, flying) ==
  LET e == pcb[s]
  IN /\ e.state = "TIME_WAIT"
     /\ IF h.rst THEN Become(s, e, flying)
        ELSE IF h.syn /\ h.seq >= e.rnxt /\ h.seq <= e.rnxt + e.rwnd
          THEN Become(s, [e EXCEPT !.out = <<Rst(h.ackno, End(h))>>], flying)
        ELSE Become(s, IF TcpLen(h) > 0 THEN EmptyAck(e) ELSE e, flying)
     /\ UNCHANGED app

(* tcp_process of a reset.                                                 *)
ResetInput(s, h, flying) ==
  LET e == pcb[s]
  IN /\ e.state \in Active /\ h.rst
     /\ IF \/ e.state = "SYN_SENT" /\ h.ackno = e.snxt
           \/ e.state # "SYN_SENT" /\ h.seq >= e.rnxt /\ h.seq <= e.rnxt + e.rwnd
          THEN Fails(s, Gone(e), flying)
          ELSE \E c \in Congestion : Become(s, Output(e, c), flying) /\ UNCHANGED app

(* tcp_process in SYN_SENT.                                                *)
SynSentInput(s, h, flying) ==
  LET e == pcb[s]
      f == [e EXCEPT !.state = "ESTABLISHED", !.rnxt = h.seq + 1, !.edge = h.seq + 1,
                     !.una = h.ackno, !.swnd = h.wnd, !.wl1 = h.seq - 1, !.now = TRUE,
                     !.unacked = Tail(@), !.nrtx = 0]
  IN /\ e.state = "SYN_SENT" /\ ~h.rst
     /\ IF h.ack /\ h.syn /\ e.unacked # <<>> /\ h.ackno = Head(e.unacked).seq + 1
          THEN \E c \in Congestion : Become(s, Output(f, c), flying)
          ELSE Become(s, [Output(e, 1) EXCEPT !.out = IF h.ack THEN Append(@, Rst(h.ackno, End(h))) ELSE @],
                      flying)
     /\ UNCHANGED app

(* tcp_process in the other states, with what tcp_input does after it: the *)
(* application gets data and the end, and tcp_output runs.  A SYN for a    *)
(* connection that is beyond it is only acknowledged.                      *)
OpenInput(s, h, flying) ==
  LET e == pcb[s]
      u == Update(e, h)
      rexmits == IF IsDuplicate(e, u, h) THEN BOOLEAN ELSE {FALSE}
      Received(twice) ==
        LET a == IF h.ack THEN Acked(u, h) ELSE e
        IN Data(IF twice THEN RexmitFast(a) ELSE a, h)
      Refused == e.state = "SYN_RCVD" /\ h.ack /\ ~Acceptable(e, h)
      SynAgain == e.state = "SYN_RCVD" /\ ~h.ack
      Established == IF e.state = "SYN_RCVD" THEN "ESTABLISHED" ELSE e.state
  IN /\ e.state \in Open /\ ~h.rst
     /\ \E c \in Congestion :
          IF h.syn /\ e.state # "SYN_RCVD"
            THEN Become(s, Output([e EXCEPT !.now = TRUE], c), flying) /\ UNCHANGED app
          ELSE IF Refused
            THEN /\ Become(s, [Output(e, c) EXCEPT !.out = Append(@, Rst(h.ackno, End(h)))], flying)
                 /\ UNCHANGED app
          ELSE IF SynAgain
            THEN /\ Become(s, Output(IF h.syn /\ h.seq = e.rnxt - 1 THEN Rexmit(e, 1) ELSE e, c), flying)
                 /\ UNCHANGED app
          ELSE \E twice \in rexmits :
            LET r == Received(twice)
                state == ClosingStep(Established, r.fin, h.ack /\ h.ackno = r.pcb.snxt)
                f == [r.pcb EXCEPT !.state = state, !.now = @ \/ r.fin]
            IN /\ CASE state = "CLOSED" -> Become(s, Gone(r.pcb), flying)
                    [] state = "TIME_WAIT" -> Become(s, Output(Purged(f, state), c), flying)
                    [] OTHER -> Become(s, Output(f, c), flying)
               /\ app' = [app EXCEPT ![s].got = @ + r.len, ![s].unread = @ + r.len,
                                     ![s].eof = @ \/ r.fin,
                                     ![s].end = IF state \in {"CLOSED", "TIME_WAIT"} /\ @ = "no"
                                                  THEN "closed" ELSE @]

(* tcp_input: a segment arrives.                                           *)
Input(s) ==
  \E m \in net :
    LET flying == net \ {m}
        h == m.seg
    IN /\ m.to = s
       /\ \/ ListenInput(s, h, flying) \/ NoPcbInput(s, h, flying) \/ TimeWaitInput(s, h, flying)
          \/ ResetInput(s, h, flying) \/ SynSentInput(s, h, flying) \/ OpenInput(s, h, flying)

-----------------------------------------------------------------------------
(* tcp_fasttmr: a delayed acknowledgement.                                 *)
FastTimer(s) ==
  /\ pcb[s].state \in Active /\ pcb[s].delay
  /\ Become(s, Told(Output([pcb[s] EXCEPT !.now = TRUE], Window)), net)
  /\ UNCHANGED app

(* tcp_slowtmr: the retransmission timer, which rests while the window is  *)
(* probed.                                                                 *)
Retransmit(s) ==
  LET e == pcb[s]
  IN /\ e.state \in Active /\ ~e.persist /\ e.unacked # <<>> /\ e.nrtx # MaxRtx
     /\ Become(s, Output(Rexmit(e, Len(e.unacked)), 1), net)
     /\ UNCHANGED app

PersistTimer(s) ==
  LET e == pcb[s]
  IN /\ e.state \in Active /\ e.persist /\ e.nrtx # MaxRtx /\ e.unacked \o e.unsent # <<>>
     /\ Become(s, Probe(e), net)
     /\ UNCHANGED app

(* The poll timer calls tcp_output.                                        *)
PollTimer(s) ==
  /\ pcb[s].state \in Active /\ pcb[s].unsent # <<>>
  /\ \E c \in Congestion : Become(s, Output(pcb[s], c), net)
  /\ UNCHANGED app

(* Too many retransmissions, or too long in a state: ERR_ABRT.             *)
Expire(s) ==
  LET e == pcb[s]
  IN /\ \/ e.state \in Active /\ e.nrtx = MaxRtx
        \/ e.state \in {"FIN_WAIT_2", "SYN_RCVD"}
        \/ e.state = "LAST_ACK" /\ net = {}
     /\ Fails(s, Gone(e), net)

(* 2 * TCP_MSL in TIME_WAIT.                                               *)
TimeWaitOver(s) ==
  /\ pcb[s].state = "TIME_WAIT" /\ net = {}
  /\ Become(s, Gone(pcb[s]), net)
  /\ UNCHANGED app

Next ==
  \E s \in Side :
    \/ Connect(s) \/ Write(s) \/ Close(s) \/ Abort(s) \/ Recved(s) \/ Input(s)
    \/ FastTimer(s) \/ Retransmit(s) \/ PersistTimer(s) \/ PollTimer(s)
    \/ Expire(s) \/ TimeWaitOver(s)

-----------------------------------------------------------------------------
TypeOK ==
  /\ \A s \in Side : /\ pcb[s].state \in Active \union {"CLOSED", "LISTEN", "TIME_WAIT"}
                     /\ pcb[s].rwnd \in 0..Window /\ pcb[s].ann \in 0..Window
                     /\ pcb[s].out = <<>>
  /\ app \in [Side -> [wrote : Nat, got : Nat, unread : 0..Window, eof : BOOLEAN,
                       end : {"no", "closed", "error"}]]

(* The send queues cover the sequence numbers from the first that is not   *)
(* acknowledged to the last that was written, each once.                   *)
QueuesCover ==
  \A s \in Side : pcb[s].state \in Active =>
    LET e == pcb[s]
        q == e.unacked \o e.unsent
        all == Sorted(q)
    IN /\ (q = <<>>) <=> (e.una = e.lbb)
       /\ q # <<>> => all[1].seq <= e.una /\ End(all[1]) > e.una /\ End(Last(all)) = e.lbb
       /\ \A i \in 1..(Len(all) - 1) : End(all[i]) = all[i + 1].seq

(* What one side takes for acknowledged the other has received, and it has *)
(* received nothing that was not written.                                  *)
AckedIsReceived ==
  \A s \in Side : LET e == pcb[s] f == pcb[Peer(s)] IN
    e.state \in Open /\ f.rnxt > 0 => e.una <= f.rnxt /\ f.rnxt <= e.lbb

(* The end of a stream comes after the whole of it.                        *)
EofComplete ==
  \A s \in Side : app[s].eof => app[s].got = app[Peer(s)].wrote

(* A connection that ended well was heard of: the peer was told of the end, *)
(* and so got all.  tcp.c:194: "unsent data is sent from tcp timer         *)
(* functions, also".                                                       *)
CloseDelivers == \A s \in Side : app[s].end = "closed" => app[Peer(s)].eof

(* In FIN_WAIT_2 the peer has been told already.                           *)
FinHeard == \A s \in Side : pcb[s].state = "FIN_WAIT_2" => app[Peer(s)].eof

(* The receiver's window is never taken back.                              *)
WindowKept ==
  \A s \in Side : pcb[s].state \in Open =>
    pcb[s].rnxt + pcb[s].ann >= pcb[s].edge /\ pcb[s].ann <= pcb[s].rwnd
=============================================================================
