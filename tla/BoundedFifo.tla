----------------------------- MODULE BoundedFifo -----------------------------
(***************************************************************************)
(* What a FreeRTOS queue promises its callers: a bounded sequence of items *)
(* that tasks and interrupt handlers extend at either end and take from    *)
(* the front, each operation in one step.                                  *)
(***************************************************************************)
EXTENDS Integers, Sequences

CONSTANTS
  Clients,  \* the tasks and handlers that receive
  Items,    \* what may be sent
  Nothing,  \* what a client has before its first receive
  Capacity  \* uxLength

VARIABLES
  items,  \* the queue, oldest first
  got     \* the last item each client received

Init == items = << >> /\ got = [c \in Clients |-> Nothing]

Send ==
  /\ Len(items) < Capacity
  /\ \E d \in Items : items' = Append(items, d)
  /\ UNCHANGED got

SendToFront ==
  /\ Len(items) < Capacity
  /\ \E d \in Items : items' = << d >> \o items
  /\ UNCHANGED got

Receive(c) ==
  /\ items # << >>
  /\ got' = [got EXCEPT ![c] = Head(items)]
  /\ items' = Tail(items)

Peek(c) ==
  /\ items # << >>
  /\ got' = [got EXCEPT ![c] = Head(items)]
  /\ UNCHANGED items

Next == Send \/ SendToFront \/ \E c \in Clients : Receive(c) \/ Peek(c)

Spec == Init /\ [][Next]_<<items, got>>
=============================================================================
