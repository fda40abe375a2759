------------------------------- MODULE MCKernel -------------------------------
(***************************************************************************)
(* A queue of the kernel, and what is built on queues, on small instances. *)
(* One of them moves in a behaviour; the queue is that of RtosQueue itself *)
(* and stays at its start while the other part moves:                      *)
(*   queue     two cells; one task receives and peeks, a more important    *)
(*   one sends to the front, both with time-outs; handlers send and        *)
(*   receive, and a tick may come while the scheduler is suspended         *)
(*   netconn   two connections of the sequential interface                 *)
(***************************************************************************)
EXTENDS RtosQueue, TLC

CONSTANTS idle, low, high, conn1, conn2

VARIABLES part, nc, tp, user, stuck

netconnVars == <<nc, tp, user, stuck>>
MCvars == <<part, vars, netconnVars>>

Priority == idle :> 0 @@ low :> 1 @@ high :> 2
Calls == low :> {"receive", "peek"} @@ high :> {"sendToFront"}

Api == INSTANCE Netconn WITH
  Nobody <- Nothing, Conn <- {conn1, conn2}, Lengths <- {2}, BoxSize <- 1,
  SndBuf <- 1, Tags <- 3

ASSUME Api!NetconnAssumption

(* What these are called makes no difference; items are only copied.       *)
Symmetry == Permutations(Items) \union Permutations({conn1, conn2})

NoNetconn == nc = Nothing /\ tp = Nothing /\ user = Nothing /\ stuck = Nothing

MCInit ==
  /\ Init
  /\ \/ part = "queue" /\ NoNetconn
     \/ part = "netconn" /\ Api!Init

MCNext ==
  /\ UNCHANGED part
  /\ \/ part = "queue" /\ Next /\ UNCHANGED netconnVars
     \/ part = "netconn" /\ Api!Next /\ UNCHANGED vars

MCSpec ==
  /\ MCInit /\ [][MCNext]_MCvars

-----------------------------------------------------------------------------
(* Every call gets one answer, callbacks meet living connections, and data *)
(* is written and read whole, once and in order.                           *)
ApiSound ==
  /\ part = "netconn" => Api!TypeOK /\ Api!OneAnswer /\ Api!FramesAlive /\
       Api!WriteComplete /\ Api!HooksAlive /\ Api!InOrder /\ Api!AnswerOwed
=============================================================================
