------------------------------- MODULE SnmpAgent -------------------------------
(***************************************************************************)
(* The SNMP agent (lwip/core/snmp/msg_in.c): request slots, and for each   *)
(* request a walk over its bindings that stops whenever an object outside  *)
(* the program must be asked and goes on when it has answered.             *)
(*                                                                         *)
(* A name is a number.  The memory calls succeed, as they do on this board *)
(* with its assertions; only the buffer of a response may be missing.  An  *)
(* external node lists the same names all the time, whether there is an    *)
(* instance or not.                                                        *)
(***************************************************************************)
EXTENDS Integers, Sequences, FiniteSets, SequencesExt, FiniteSetsExt

CONSTANTS Slots,     \* SNMP_CONCURRENT_REQUESTS
          Internal, External,  \* names of the objects of either kind
          Writable,  \* those whose access is read-write
          Values,    \* what they can be set to; other values fail the test
          Requests,  \* what managers ask for: type and bindings
          Stays      \* whether an object asked about for a SET is there until its end

AgentAssumption ==
  /\ Slots \in Nat \ {0} /\ Internal \intersect External = {}
  /\ \A r \in Requests : r.rt \in {"get", "next", "set"} /\ r.vars # <<>>

VARIABLES
  msg,      \* msg_input_list
  value,    \* of each object
  present,  \* external objects that have an instance now
  live,     \* bindings allocated and not yet freed
  asked,    \* the request each slot has taken
  reply,    \* what was sent for it
  applied   \* the bindings it has set

vars == <<msg, value, present, live, asked, reply, applied>>

Slot == 1..Slots
Tree == Internal \union External
NoReply == [status |-> "none"]
NoRequest == [rt |-> "none"]
Gone == 0   \* ident == NULL

(* snmp_init                                                               *)
Empty == [state |-> "EMPTY", rt |-> "get", invb |-> <<>>, outvb |-> <<>>, idx |-> 0, ptr |-> 0, obj |-> Gone]
Init ==
  /\ msg = [s \in Slot |-> Empty]
  /\ \E v \in Values : value = [n \in Tree |-> v]
  /\ present = External /\ live = 0
  /\ asked = [s \in Slot |-> NoRequest] /\ reply = [s \in Slot |-> NoReply] /\ applied = [s \in Slot |-> <<>>]

-----------------------------------------------------------------------------
(* A handler works on w: the slot's record m, and the values, bindings and *)
(* replies it may change; w.room says whether there is a response buffer.  *)

(* snmp_send_response                                                      *)
Send(w, status, index, list) ==
  [w EXCEPT !.reply = IF w.room THEN [status |-> status, index |-> index, list |-> list]
                      ELSE [status |-> "tooBig", index |-> 0, list |-> <<>>]]

(* snmp_varbind_list_free of both lists, and the slot is free.             *)
Release(w) ==
  [w EXCEPT !.live = @ - Len(w.m.invb) - Len(w.m.outvb), !.m.invb = <<>>, !.m.outvb = <<>>, !.m.state = "EMPTY"]

(* Mutant: what was collected for the response is forgotten.               *)
ErrorForgetful(w, status) ==
  Release([Send(w, status, 1 + w.m.idx, w.m.invb) EXCEPT !.m.outvb = <<>>])

(* snmp_error_response                                                     *)
Error(w, status) == Release(Send(w, status, 1 + w.m.idx, w.m.invb))

(* snmp_ok_response                                                        *)
Ok(w) == Release(Send(w, "noError", 0, w.m.outvb))

(* vb_ptr goes to the list's head or to the next binding.                  *)
ToBinding(w) == [w EXCEPT !.m.ptr = IF w.m.idx = 0 THEN 1 ELSE @ + 1]
Binding(w) == w.m.invb[w.m.ptr]
Done(w, state) == [w EXCEPT !.m.state = state, !.m.idx = @ + 1]
Ask(w, name, state) == [w EXCEPT !.m.state = state, !.m.obj = name]

(* A binding of the response, with the object's value.                     *)
Collect(w, name) ==
  [w EXCEPT !.m.outvb = Append(@, [name |-> name, val |-> w.value[name]]), !.live = @ + 1]

(* The name moves from the request's binding to the response's.            *)
MoveName(w) == [Collect(w, Binding(w).name) EXCEPT !.m.invb[w.m.ptr].name = Gone]

(* The while loops of the three handlers, one binding at a time.           *)
GetVar(w) ==
  LET n == Binding(w).name
  IN CASE n \in Internal -> Done(MoveName(w), "SEARCH_OBJ")
       [] n \in External -> Ask(w, n, "EXTERNAL_GET_OBJDEF")
       [] OTHER -> Error(w, "noSuchName")

Later(name) == {n \in Tree : n > name}
NextVar(w) ==
  LET n == IF Later(Binding(w).name) = {} THEN Gone ELSE Min(Later(Binding(w).name))
  IN CASE n \in Internal -> Done(Collect(w, n), "SEARCH_OBJ")
       [] n \in External -> Ask(w, n, "EXTERNAL_GET_OBJDEF")
       [] OTHER -> Error(w, "noSuchName")

(* Mutant: a binding that passes its test is set at once.                  *)
TestVarEager(w) ==
  LET b == Binding(w)
  IN CASE b.name \in External -> Ask(w, b.name, "EXTERNAL_GET_OBJDEF")
       [] b.name \in Internal /\ b.name \in Writable /\ b.val \in Values ->
            Done([w EXCEPT !.value[b.name] = b.val, !.applied = Append(@, b)], "SEARCH_OBJ")
       [] b.name \in Internal /\ b.name \in Writable /\ b.val \notin Values -> Error(w, "badValue")
       [] OTHER -> Error(w, "noSuchName")

TestVar(w) ==
  LET b == Binding(w)
  IN CASE b.name \in External -> Ask(w, b.name, "EXTERNAL_GET_OBJDEF")
       [] b.name \in Internal /\ b.name \in Writable /\ b.val \in Values -> Done(w, "SEARCH_OBJ")
       [] b.name \in Internal /\ b.name \in Writable /\ b.val \notin Values -> Error(w, "badValue")
       [] OTHER -> Error(w, "noSuchName")

Applied(w, b) == [w EXCEPT !.value[b.name] = b.val, !.applied = Append(@, b)]
SetVar(w) ==
  LET b == Binding(w)
  IN IF b.name \in External THEN Ask(w, b.name, "EXTERNAL_GET_OBJDEF_S")
     ELSE Done(Applied(w, b), "INTERNAL_SET_VALUE")

RECURSIVE Run(_)
Run(w) ==
  LET more == w.m.idx < Len(w.m.invb)
      at == ToBinding(w)
  IN CASE w.m.state = "SEARCH_OBJ" /\ more ->
            Run(CASE w.m.rt = "get" -> GetVar(at) [] w.m.rt = "next" -> NextVar(at) [] OTHER -> TestVar(at))
       [] w.m.state = "SEARCH_OBJ" /\ ~more ->
            IF w.m.rt = "set" THEN Run([w EXCEPT !.m.idx = 0, !.m.state = "INTERNAL_SET_VALUE"]) ELSE Ok(w)
       [] w.m.state = "INTERNAL_SET_VALUE" /\ more -> Run(SetVar(at))
       [] w.m.state = "INTERNAL_SET_VALUE" /\ ~more ->
            Ok([w EXCEPT !.m.outvb = w.m.invb, !.m.invb = <<>>])
       [] OTHER -> w

-----------------------------------------------------------------------------
(* The first part of the handlers: an external object has answered.        *)
Found(w) == w.m.obj \in present

ObjdefAnswer(w) ==
  IF ~Found(w) THEN Error(w, "noSuchName")
  ELSE [w EXCEPT !.m.state = IF w.m.rt = "set" THEN "EXTERNAL_SET_TEST" ELSE "EXTERNAL_GET_VALUE"]

ValueAnswer(w) ==
  IF w.m.rt = "get" THEN Done(MoveName(w), "SEARCH_OBJ") ELSE Done(Collect(w, w.m.obj), "SEARCH_OBJ")

TestAnswer(w) ==
  CASE w.m.obj \notin Writable -> Error(w, "noSuchName")
    [] w.m.obj \in Writable /\ Binding(w).val \notin Values -> Error(w, "badValue")
    [] OTHER -> Done(w, "SEARCH_OBJ")

SetObjdefAnswer(w) ==
  IF Found(w) THEN [w EXCEPT !.m.state = "EXTERNAL_SET_VALUE"] ELSE Error(w, "genError")

(* Mutant: the number of the binding is not counted.                       *)
SetAnswerAgain(w) == [Applied(w, Binding(w)) EXCEPT !.m.state = "INTERNAL_SET_VALUE"]

SetAnswer(w) == Done(Applied(w, Binding(w)), "INTERNAL_SET_VALUE")

Answered(w) ==
  CASE w.m.state = "EXTERNAL_GET_OBJDEF" -> ObjdefAnswer(w)
    [] w.m.state = "EXTERNAL_GET_VALUE" -> ValueAnswer(w)
    [] w.m.state = "EXTERNAL_SET_TEST" -> TestAnswer(w)
    [] w.m.state = "EXTERNAL_GET_OBJDEF_S" -> SetObjdefAnswer(w)
    [] w.m.state = "EXTERNAL_SET_VALUE" -> SetAnswer(w)
    [] OTHER -> w

(* snmp_msg_event                                                          *)
Event(s, m, room, old) ==
  LET w == Run(Answered([m |-> m, value |-> value, live |-> live + old, reply |-> NoReply,
                         applied |-> IF old > 0 THEN <<>> ELSE applied[s], room |-> room]))
  IN /\ msg' = [msg EXCEPT ![s] = w.m] /\ value' = w.value /\ live' = w.live
     /\ reply' = [reply EXCEPT ![s] = w.reply] /\ applied' = [applied EXCEPT ![s] = w.applied]

(* snmp_recv: the first free slot takes a request; without one it is lost. *)
Recv(s, r, room) ==
  /\ msg[s].state = "EMPTY" /\ \A t \in 1..(s - 1) : msg[t].state # "EMPTY"
  /\ Event(s, [Empty EXCEPT !.state = "SEARCH_OBJ", !.rt = r.rt, !.invb = r.vars], room, Len(r.vars))
  /\ asked' = [asked EXCEPT ![s] = r] /\ UNCHANGED present

(* snmp_msg_event, called for an external object.                          *)
Answer(s, room) ==
  /\ msg[s].state # "EMPTY"
  /\ Event(s, msg[s], room, 0) /\ UNCHANGED <<asked, present>>

(* An external object is plugged in or out.                                *)
InUse(e) == \E s \in Slot : msg[s].state # "EMPTY" /\ msg[s].rt = "set" /\ \E b \in ToSet(msg[s].invb) : b.name = e
Plug(e) ==
  /\ Stays => ~InUse(e)
  /\ present' = IF e \in present THEN present \ {e} ELSE present \union {e}
  /\ UNCHANGED <<msg, value, live, asked, reply, applied>>

Next ==
  \/ \E s \in Slot, room \in BOOLEAN : Answer(s, room) \/ \E r \in Requests : Recv(s, r, room)
  \/ \E e \in External : Plug(e)

-----------------------------------------------------------------------------
States == {"EMPTY", "EXTERNAL_GET_OBJDEF", "EXTERNAL_GET_VALUE", "EXTERNAL_SET_TEST", "EXTERNAL_GET_OBJDEF_S", "EXTERNAL_SET_VALUE"}
TypeOK ==
  /\ \A s \in Slot :
       /\ msg[s].state \in States /\ msg[s].idx \in 0..3
       /\ msg[s].state # "EMPTY" => msg[s].ptr = msg[s].idx + 1 /\ msg[s].ptr \in 1..Len(msg[s].invb)
  /\ value \in [Tree -> Values] /\ present \subseteq External /\ live \in Nat

(* A free slot holds no binding, and no binding is lost.                   *)
NoLeak ==
  /\ live = MapThenSumSet(LAMBDA s : Len(msg[s].invb) + Len(msg[s].outvb), Slot)
  /\ \A s \in Slot : msg[s].state = "EMPTY" => msg[s].invb = <<>> /\ msg[s].outvb = <<>>

Name(rt, b) == IF rt = "next" THEN Min(Later(b.name)) ELSE b.name

(* A response has the bindings that were asked for, each one's name and    *)
(* for a SET its value, in order; an error tells the first binding that    *)
(* cannot be had, with the reason.                                         *)
AnswerMatches ==
  \A s \in Slot : reply[s].status \notin {"none", "tooBig"} =>
    LET r == reply[s] q == asked[s]
        b == q.vars[r.index]
    IN IF r.status = "noError"
       THEN /\ Len(r.list) = Len(q.vars)
            /\ \A i \in 1..Len(q.vars) :
                 r.list[i].name = Name(q.rt, q.vars[i]) /\ (q.rt = "set" => r.list[i].val = q.vars[i].val)
       ELSE /\ r.index \in 1..Len(q.vars) /\ Len(r.list) = Len(q.vars)
            /\ q.rt # "get" => r.list = q.vars
            /\ \A i \in r.index..Len(q.vars) : r.list[i] = q.vars[i]
            /\ \A i \in 1..(r.index - 1) : IF q.rt = "next" THEN Later(q.vars[i].name) # {} ELSE q.vars[i].name \in Tree
            /\ r.status = "badValue" => b.name \in Writable /\ b.val \notin Values
            /\ r.status = "noSuchName" /\ q.rt = "get" => b.name \notin Internal
            /\ r.status = "noSuchName" /\ q.rt = "set" => b.name \notin Internal \intersect Writable

(* A SET is done whole and in order, or not at all; it is not answered     *)
(* before it is done.                                                      *)
SetAtomic ==
  \A s \in Slot :
    /\ asked[s].rt = "set" => IsPrefix(applied[s], asked[s].vars)
    /\ reply[s].status \in {"noSuchName", "badValue"} => applied[s] = <<>>
    /\ reply[s].status = "noError" /\ asked[s].rt = "set" => applied[s] = asked[s].vars
    /\ Stays => reply[s].status # "genError"
=============================================================================
