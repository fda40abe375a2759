----------------------------- MODULE SeedClient -----------------------------
(***************************************************************************)
(* The program's client (board/main.c) over netconn's UDP path (api_lib.c, *)
(* api_msg.c, netbuf.c): it waits for the interface, asks the server once  *)
(* for a seed, and then sends one check sum after another from the same    *)
(* memory, to which its buffers only refer.  Datagrams may be lost and     *)
(* duplicated; a datagram whose address is not resolved waits in the ARP   *)
(* queue and goes out later, from ethTask.                                 *)
(***************************************************************************)
EXTENDS Naturals, Sequences, SequencesExt, FiniteSetsExt

CONSTANTS MailboxSize,   \* DEFAULT_UDP_RECVMBOX_SIZE
          MaxCount,      \* check sums the client sends (a bound)
          MaxReplies     \* replies the network delivers (a bound)

SeedAssumption == MailboxSize \in Nat \ {0} /\ MaxCount \in Nat /\ MaxReplies \in Nat

VARIABLES
  up,         \* ethIsUp()
  main,       \* where _main is
  bound,      \* the pcb has its port
  memory,     \* what the buffer refers to, [id, sum]: the request, then
              \* the check sums from number one
  resolved,   \* the server's entry of the ARP table is stable
  queue,      \* the datagrams that wait for it
  sent,       \* the datagrams the board has sent
  mailbox,    \* recvmbox: how many replies
  netbuf,     \* the pbufs the client's netbuf holds
  pbufs,      \* allocated pbufs
  asked,      \* the server has been asked
  replies,    \* replies delivered so far
  lost        \* the request or its reply is lost

vars == <<up, main, bound, memory, resolved, queue, sent, mailbox, netbuf, pbufs, asked,
          replies, lost>>

Request == [id |-> 0, sum |-> 0]

Init ==
  /\ up = FALSE /\ main = "poll" /\ bound = FALSE
  /\ memory = Request
  /\ resolved = FALSE /\ queue = << >> /\ sent = {}
  /\ mailbox = 0 /\ netbuf = 0 /\ pbufs = 0
  /\ asked = FALSE /\ replies = 0 /\ lost = FALSE

-----------------------------------------------------------------------------
(* The interface gets its address, and may go down again.                  *)
Up == /\ ~up /\ up' = TRUE
      /\ UNCHANGED <<main, bound, memory, resolved, queue, sent, mailbox, netbuf, pbufs, asked,
                     replies, lost>>
Down == /\ up /\ up' = FALSE
        /\ UNCHANGED <<main, bound, memory, resolved, queue, sent, mailbox, netbuf, pbufs, asked,
                       replies, lost>>

(* Mutant: the connection is not bound.                                    *)
PollOnly ==
  /\ main = "poll" /\ up
  /\ main' = "request"
  /\ UNCHANGED <<up, bound, memory, resolved, queue, sent, mailbox, netbuf, pbufs, asked, replies,
                 lost>>

(* while (!ethIsUp()); then netconn_new and netconn_bind.                  *)
Poll ==
  /\ main = "poll" /\ up
  /\ main' = "request" /\ bound' = TRUE
  /\ UNCHANGED <<up, memory, resolved, queue, sent, mailbox, netbuf, pbufs, asked, replies, lost>>

(* Mutant: the buffer the netbuf held is not freed.                        *)
RefKeeps(next) ==
  /\ netbuf' = 1
  /\ pbufs' = pbufs + 1
  /\ main' = next

(* netbuf_ref: what the netbuf held is freed, and a new pbuf refers to the *)
(* memory; without one the following send stops at an assertion.           *)
Ref(next) ==
  \/ /\ netbuf' = 1
     /\ pbufs' = pbufs - netbuf + 1
     /\ main' = next
  \/ /\ netbuf' = 0
     /\ pbufs' = pbufs - netbuf
     /\ main' = "halted"

RefRequest ==
  /\ main = "request"
  /\ Ref("ask")
  /\ UNCHANGED <<up, bound, memory, resolved, queue, sent, mailbox, asked, replies, lost>>

(* netconn_sendto, do_send, udp_send, etharp_output: the frame is copied to*)
(* the chip, or a copy of a pbuf that refers waits for the address; without*)
(* memory for the copy, or without a route, the datagram is lost.          *)
Send(next) ==
  /\ main' = next
  /\ \/ up /\ resolved /\ sent' = sent \union {memory} /\ UNCHANGED <<queue, pbufs>>
     \/ /\ up /\ ~resolved
        /\ queue' = Append(queue, memory) /\ pbufs' = pbufs + 1 /\ UNCHANGED sent
     \/ UNCHANGED <<queue, pbufs, sent>>

Ask ==
  /\ main = "ask"
  /\ Send("receive")
  /\ lost' = (queue' = queue /\ sent' = sent)
  /\ UNCHANGED <<up, bound, memory, resolved, mailbox, netbuf, asked, replies>>

(* netconn_recv returns the first reply's netbuf; the request's stays      *)
(* allocated.  The seed is copied out of it.                               *)
Receive ==
  /\ main = "receive" /\ mailbox > 0
  /\ mailbox' = mailbox - 1
  /\ netbuf' = 1
  /\ main' = "fill"
  /\ UNCHANGED <<up, bound, memory, resolved, queue, sent, pbufs, asked, replies, lost>>

(* The next check sum is written to the memory: its number, then its sum.  *)
FillId ==
  /\ main = "fill" /\ memory.id < MaxCount
  /\ memory' = [memory EXCEPT !.id = @ + 1]
  /\ main' = "sum"
  /\ UNCHANGED <<up, bound, resolved, queue, sent, mailbox, netbuf, pbufs, asked, replies, lost>>

FillSum ==
  /\ main = "sum"
  /\ memory' = [memory EXCEPT !.sum = memory.id]
  /\ main' = "ref"
  /\ UNCHANGED <<up, bound, resolved, queue, sent, mailbox, netbuf, pbufs, asked, replies, lost>>

RefSum ==
  /\ main = "ref"
  /\ Ref("send")
  /\ UNCHANGED <<up, bound, memory, resolved, queue, sent, mailbox, asked, replies, lost>>

SendSum ==
  /\ main = "send"
  /\ Send("fill")
  /\ UNCHANGED <<up, bound, memory, resolved, mailbox, netbuf, asked, replies, lost>>

-----------------------------------------------------------------------------
(* Mutant: what waits refers to the client's memory.                       *)
ResolveReads ==
  /\ ~resolved
  /\ resolved' = TRUE
  /\ sent' = sent \union {memory : d \in Range(queue)}
  /\ queue' = << >>
  /\ pbufs' = pbufs - Len(queue)
  /\ UNCHANGED <<up, main, bound, memory, mailbox, netbuf, asked, replies, lost>>

(* An ARP reply: what waits is sent, and its copies are freed.             *)
Resolve ==
  /\ ~resolved
  /\ resolved' = TRUE
  /\ sent' = sent \union Range(queue)
  /\ queue' = << >>
  /\ pbufs' = pbufs - Len(queue)
  /\ UNCHANGED <<up, main, bound, memory, mailbox, netbuf, asked, replies, lost>>

(* The entry gets too old; a pending one takes its packets with it.        *)
Expire ==
  /\ resolved \/ queue # << >>
  /\ resolved' = FALSE
  /\ queue' = << >>
  /\ pbufs' = pbufs - Len(queue)
  /\ lost' = (lost \/ Request \in Range(queue))
  /\ UNCHANGED <<up, main, bound, memory, sent, mailbox, netbuf, asked, replies>>

(* The request reaches the server.                                         *)
Serve ==
  /\ Request \in sent /\ ~asked /\ ~lost
  /\ asked' = TRUE
  /\ UNCHANGED <<up, main, bound, memory, resolved, queue, sent, mailbox, netbuf, pbufs,
                 replies, lost>>

(* The network loses the request or the reply.                             *)
Lose ==
  /\ Request \in sent /\ replies = 0
  /\ lost' = TRUE
  /\ UNCHANGED <<up, main, bound, memory, resolved, queue, sent, mailbox, netbuf, pbufs, asked,
                 replies>>

(* ethTask: a reply, or a copy of it, is posted to recvmbox by recv_udp,   *)
(* which frees it when the mailbox is full or the netbuf cannot be made.   *)
Reply ==
  /\ asked /\ ~lost /\ bound /\ replies < MaxReplies
  /\ replies' = replies + 1
  /\ \/ mailbox < MailboxSize /\ mailbox' = mailbox + 1 /\ pbufs' = pbufs + 1 /\ UNCHANGED lost
     \/ UNCHANGED <<mailbox, pbufs>> /\ lost' = (replies = 0)
  /\ UNCHANGED <<up, main, bound, memory, resolved, queue, sent, netbuf, asked>>

Next ==
  \/ Up \/ Down \/ Poll \/ RefRequest \/ Ask \/ Receive
  \/ FillId \/ FillSum \/ RefSum \/ SendSum
  \/ Resolve \/ Expire \/ Serve \/ Lose \/ Reply

Client == Poll \/ RefRequest \/ Ask \/ Receive \/ FillId \/ FillSum \/ RefSum \/ SendSum

(* The client and ethTask share the processor by time slices; the server   *)
(* answers, and ARP requests are answered.                                 *)
Fairness ==
  /\ WF_vars(Client) /\ WF_vars(Resolve) /\ WF_vars(Serve)
  /\ WF_vars(replies = 0 /\ Reply)

Spec == Init /\ [][Next]_vars /\ Fairness

-----------------------------------------------------------------------------
Datagram == [id : 0..MaxCount, sum : 0..MaxCount]

TypeOK ==
  /\ up \in BOOLEAN /\ bound \in BOOLEAN /\ resolved \in BOOLEAN
  /\ main \in {"poll", "request", "ask", "receive", "fill", "sum", "ref", "send", "halted"}
  /\ memory \in Datagram /\ sent \subseteq Datagram
  /\ mailbox \in 0..MailboxSize /\ netbuf \in 0..1 /\ replies \in 0..MaxReplies

(* Every check sum that leaves the board is the one of its number, although*)
(* the client writes the next into the memory its buffers refer to while   *)
(* earlier ones wait for an address (main.c:171, etharp.c:964).            *)
SumsMatch == \A d \in sent : d.id = d.sum

(* Every pbuf is held by the mailbox, the client's netbuf or the ARP queue;*)
(* the request's netbuf, which main.c:139 overwrites, is the one exception.*)
BuffersAccounted ==
  pbufs = mailbox + netbuf + Len(queue)
            + (IF main \in {"fill", "sum", "ref", "send"} \/ (main = "halted" /\ replies > 0)
               THEN 1 ELSE 0)

(* Once the request is on its way the client goes on, unless a datagram is *)
(* lost or memory is missing: nothing else can keep it waiting.            *)
WaitsOnlyForLost == main = "receive" ~> main # "receive" \/ lost
=============================================================================
