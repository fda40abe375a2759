----------------------------- MODULE TcpReceive -----------------------------
(***************************************************************************)
(* The receiving half of a TCP connection (tcp_receive of lwip/core/       *)
(* tcp_in.c and the window of tcp.c): segments of one stream arrive in any *)
(* order, any number of times and cut in any way that the announced window *)
(* allows; what is early waits in the queue ooseq.  Bytes are numbered     *)
(* from 1, so a byte's number is its sequence number.                      *)
(***************************************************************************)
EXTENDS Naturals, Sequences, SequencesExt

CONSTANTS Length,    \* bytes of the stream; the FIN follows
          Window,    \* TCP_WND
          FinInside  \* whether the peer counts its FIN against the window:
                     \* lwIP's own tcp_output does not

ReceiveAssumption == Length \in Nat /\ Window \in Nat \ {0} /\ FinInside \in BOOLEAN

VARIABLES
  nxt,     \* rcv_nxt
  wnd,     \* rcv_wnd
  ann,     \* rcv_ann_wnd
  edge,    \* rcv_ann_right_edge: what the peer was last told
  ooseq,   \* the segments that came early: [seq, data, fin]
  got,     \* the bytes given to the application
  unread,  \* how many of them it has not taken
  fins,    \* how often it was told of the end
  failed   \* an assertion has stopped the board

vars == <<nxt, wnd, ann, edge, ooseq, got, unread, fins, failed>>

AtMost(a, b) == IF a < b THEN a ELSE b
Bit(b) == IF b THEN 1 ELSE 0

(* The segments of the stream, by the numbers of their bytes.              *)
Cut(from, len) == [i \in 1..len |-> from + i - 1]
Segment ==
  {s \in [seq : 1..(Length + 1), data : {Cut(f, n) : f \in 1..(Length + 1), n \in 0..Length},
          fin : BOOLEAN] :
    /\ s.seq + Len(s.data) <= Length + 1
    /\ s.data = Cut(s.seq, Len(s.data))
    /\ s.fin => s.seq + Len(s.data) = Length + 1
    /\ s.fin \/ s.data # <<>>}

TcpLen(s) == Len(s.data) + Bit(s.fin)
End(s) == s.seq + Len(s.data)

Init ==
  /\ nxt = 1 /\ wnd = Window /\ ann = Window /\ edge = 1 + Window
  /\ ooseq = <<>> /\ got = <<>> /\ unread = 0 /\ fins = 0 /\ failed = FALSE

-----------------------------------------------------------------------------
(* pbuf_header and pbuf_realloc.                                           *)
Behead(s, to) == [s EXCEPT !.seq = to, !.data = SubSeq(@, to - s.seq + 1, Len(@))]
Shorten(s, to) == [s EXCEPT !.data = SubSeq(@, 1, to - s.seq)]

(* What is left of a queue after the segments that end by e.               *)
After(q, e) ==
  LET i == SelectInSeq(q, LAMBDA o : End(o) > e) IN IF i = 0 THEN <<>> ELSE SubSeq(q, i, Len(q))
CoveredFin(q, e) == \E i \in 1..(Len(q) - Len(After(q, e))) : q[i].fin

(* Mutant: the next segment is not compared with the new one.              *)
OosInsertWhole(s, q) == IF s.fin THEN <<s>> ELSE <<s>> \o After(q, End(s))

(* tcp_oos_insert_segment: s goes before q; it swallows what it covers.    *)
OosInsert(s, q) ==
  LET rest == After(q, End(s))
      t == [s EXCEPT !.fin = CoveredFin(q, End(s))]
  IN IF s.fin THEN <<s>>
     ELSE IF rest # <<>> /\ End(s) > Head(rest).seq THEN <<Shorten(t, Head(rest).seq)>> \o rest
     ELSE <<t>> \o rest

(* A segment's predecessor is cut short where the segment begins.          *)
Clipped(q, s) ==
  IF q # <<>> /\ End(Last(q)) > s.seq THEN Append(Front(q), Shorten(Last(q), s.seq)) ELSE q

(* The queue with an early segment in its place.                           *)
Queued(q, s) ==
  LET before == SelectSeq(q, LAMBDA o : o.seq < s.seq)
      rest == SubSeq(q, Len(before) + 1, Len(q))
  IN IF q = <<>> THEN <<s>>
     ELSE IF rest = <<>> THEN IF Last(q).fin THEN q ELSE Append(Clipped(q, s), s)
     ELSE IF Head(rest).seq = s.seq
       THEN IF Len(s.data) > Len(Head(rest).data) THEN before \o OosInsert(s, rest) ELSE q
     ELSE Clipped(before, s) \o OosInsert(s, rest)

(* tcp_update_rcv_ann_wnd for a segment size of 1.                         *)
Announce(n, w) ==
  IF n + w >= edge + AtMost(Window \div 2, 1) THEN w ELSE IF n > edge THEN 0 ELSE edge - n

(* The next segment in order, cut to the window.                           *)
Fitted(s) ==
  IF TcpLen(s) > wnd THEN [s EXCEPT !.data = SubSeq(@, 1, wnd), !.fin = FALSE] ELSE s

(* ... and joined with ooseq: [seg, rest].  The code takes the place to    *)
(* cut from the queue's old head, even when it has just been freed; with   *)
(* what that held, too little is kept and the peer sends the rest again.   *)
Joined(s) ==
  LET rest == After(ooseq, s.seq + TcpLen(s))
      t == [s EXCEPT !.fin = CoveredFin(ooseq, s.seq + TcpLen(s))]
  IN IF s.fin THEN [seg |-> s, rest |-> <<>>]
     ELSE IF rest # <<>> /\ t.seq + TcpLen(t) > Head(rest).seq
       THEN [seg |-> Shorten(t, Head(ooseq).seq), rest |-> rest]
     ELSE [seg |-> t, rest |-> rest]

(* The segments that become due one after the other.                       *)
Due(n, q) ==
  FoldLeft(LAMBDA r, o : IF o.seq = r.n THEN [n |-> r.n + TcpLen(o), k |-> r.k + 1] ELSE r,
           [n |-> n, k |-> 0], q).k

-----------------------------------------------------------------------------
(* A segment at rcv_nxt.                                                   *)
InOrder(s) ==
  LET j == Joined(Fitted(s))
      first == s.seq + TcpLen(j.seg)
      k == Due(first, j.rest)
      all == <<j.seg>> \o SubSeq(j.rest, 1, k)
      data == FlattenSeq([i \in 1..Len(all) |-> all[i].data])
      len == FoldLeft(LAMBDA n, o : n + TcpLen(o), 0, all)
  IN IF len > wnd
       THEN /\ failed' = TRUE
            /\ UNCHANGED <<nxt, wnd, ann, edge, ooseq, got, unread, fins>>
       ELSE /\ nxt' = nxt + len /\ wnd' = wnd - len
            /\ ann' = Announce(nxt + len, wnd - len)
            /\ ooseq' = SubSeq(j.rest, k + 1, Len(j.rest))
            /\ got' = got \o data /\ unread' = unread + Len(data)
            /\ fins' = fins + Len(SelectSeq(all, LAMBDA o : o.fin))
            /\ UNCHANGED <<edge, failed>>

(* Mutant: what was received before is not cut off.                        *)
NewPartWhole(s) == IF nxt > s.seq /\ nxt < s.seq + TcpLen(s) THEN [s EXCEPT !.seq = nxt] ELSE s

(* The part of a segment that is new.                                      *)
NewPart(s) == IF nxt > s.seq /\ nxt < s.seq + TcpLen(s) THEN Behead(s, nxt) ELSE s

(* tcp_receive: the peer keeps to the window it knows.  There may be no    *)
(* memory for a copy in ooseq.                                             *)
Receive(t) ==
  LET s == NewPart(t)
  IN /\ ~failed
     /\ End(t) + Bit(FinInside /\ t.fin) <= edge
     /\ \/ s.seq = nxt /\ wnd > 0 /\ InOrder(s)
        \/ /\ s.seq > nxt /\ s.seq < nxt + wnd
           /\ ooseq' = Queued(ooseq, s)
           /\ UNCHANGED <<nxt, wnd, ann, edge, got, unread, fins, failed>>

(* An acknowledgement goes out, at once or by tcp_fasttmr.                 *)
Ack ==
  /\ ~failed
  /\ edge' = nxt + ann
  /\ UNCHANGED <<nxt, wnd, ann, ooseq, got, unread, fins, failed>>

(* tcp_recved                                                              *)
Recved(n) ==
  /\ ~failed /\ n <= unread
  /\ wnd' = AtMost(wnd + n, Window)
  /\ ann' = Announce(nxt, wnd')
  /\ unread' = unread - n
  /\ UNCHANGED <<nxt, edge, ooseq, got, fins, failed>>

(* tcp_slowtmr drops ooseq when nothing has come for a while.              *)
OoseqTimeout ==
  /\ ~failed /\ ooseq # <<>>
  /\ ooseq' = <<>>
  /\ UNCHANGED <<nxt, wnd, ann, edge, got, unread, fins, failed>>

Next ==
  \/ \E s \in Segment : Receive(s)
  \/ Ack \/ OoseqTimeout
  \/ \E n \in 1..Window : Recved(n)

-----------------------------------------------------------------------------
TypeOK ==
  /\ nxt \in 1..(Length + 2) /\ wnd \in 0..Window /\ ann \in 0..Window
  /\ edge \in 1..(Length + Window + 2)
  /\ unread \in 0..Window /\ fins \in Nat /\ failed \in BOOLEAN

(* However the stream was cut and shuffled, the application gets its bytes *)
(* once, in order, and the end once, after the last of them.               *)
StreamWhole ==
  /\ got = Cut(1, Len(got)) /\ nxt = Len(got) + 1 + fins
  /\ fins <= 1 /\ (fins = 1 => Len(got) = Length)

(* The queue is in order and without overlaps, each segment holds the      *)
(* bytes of its place, only the last may carry the FIN, and nothing in it  *)
(* is due already.                                                         *)
QueueOrdered ==
  /\ \A i \in 1..Len(ooseq) :
       /\ ooseq[i].seq > nxt
       /\ ooseq[i].data = Cut(ooseq[i].seq, Len(ooseq[i].data))
       /\ ooseq[i].fin => i = Len(ooseq) /\ End(ooseq[i]) = Length + 1
  /\ \A i \in 1..(Len(ooseq) - 1) : End(ooseq[i]) <= ooseq[i + 1].seq

(* A window once announced is not taken back, and there is memory for it.  *)
WindowKept == nxt + ann >= edge /\ ann <= wnd /\ edge <= nxt + wnd

(* LWIP_ASSERT("tcp_receive: tcplen > rcv_wnd") and its twin for ooseq.    *)
FitsWindow == ~failed
=============================================================================
