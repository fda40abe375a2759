------------------------------ MODULE LinkDhcp ------------------------------
(***************************************************************************)
(* How the board gets and gives up its address: the link interrupt that    *)
(* sets netif.flags, the polling task dhcpTask, the tcp/ip thread that     *)
(* runs dhcp_start and dhcp_stop for it and the DHCP timers, and ethTask,  *)
(* which runs dhcp_recv and dhcp_arp_reply itself because the driver gives *)
(* netif_add ethernet_input.                                               *)
(*                                                                         *)
(* A handler is the sequence of its accesses to what the four share; run   *)
(* holds what is left of the handler each context is in.  Of the protocol, *)
(* the model keeps the client's state and its message buffers; which       *)
(* replies come, and which retry counter has run out, is left open.        *)
(***************************************************************************)
EXTENDS Naturals, Sequences

CONSTANTS
  Preempt,  \* which of "isr" and "task" may strike inside a handler
  MemFails  \* TRUE: an allocation may fail

LinkDhcpAssumption == Preempt \subseteq {"isr", "task"} /\ MemFails \in BOOLEAN

VARIABLES
  link,   \* the cable is in and negotiated
  flags,  \* netif.flags
  client, \* netif->dhcp: at most one DHCP client
  addr,   \* netif.ip_addr is not 0.0.0.0
  run,    \* the accesses each context still has to make
  copy,   \* the copy of flags a context holds within a read-modify-write
  req,    \* the netifapi call dhcpTask waits for
  pc,     \* where dhcpTask is in its loop
  state,  \* dhcpTask's state: 0 no link, 1 started, 2 bound
  fault   \* the assertion or freed client that stopped the program

stack == <<client, addr, run, copy>>
task  == <<req, pc, state>>
vars  == <<link, flags, stack, task, fault>>

Contexts == {"tcpip", "ethTask", "dhcpTask"}
Flags    == {"LINK_UP", "UP", "DHCP"}
States   == {"OFF", "SELECTING", "REQUESTING", "CHECKING", "BOUND",
             "RENEWING", "REBINDING", "BACKING_OFF"}

(* A client: its state, and whether msg_in and p_out are allocated.        *)
Clients == [st : States, in : BOOLEAN, out : BOOLEAN]
NewClient == [st |-> "OFF", in |-> FALSE, out |-> FALSE]

Init ==
  /\ link = FALSE /\ flags = {} /\ client = {} /\ addr = FALSE
  /\ run = [c \in Contexts |-> <<>>] /\ copy = [c \in Contexts |-> {}]
  /\ req = "none" /\ pc = "delay" /\ state = 0
  /\ fault = "none"

-----------------------------------------------------------------------------
(* The handlers as sequences of accesses.                                  *)

Do(op, arg) == <<[op |-> op, arg |-> arg]>>
Write(f) == Do("load", f) \o Do("store", f)
Message == Do("create", "") \o Do("delete", "")
Enter(st) == Do("state", st)

Discover == Enter("SELECTING") \o Message
Select   == Enter("REQUESTING") \o Message
Check    == Enter("CHECKING")
Renew    == Enter("RENEWING") \o Message
Rebind   == Enter("REBINDING") \o Message
Decline  == Enter("BACKING_OFF") \o Message
(* Mutant: the interface is not brought up again.                          *)
BindOnly == Do("addr", "leased") \o Enter("BOUND")
Bind     == Do("addr", "leased") \o Write("up") \o Enter("BOUND")
Release  == Enter("OFF") \o Message \o Write("down") \o Do("addr", "none")
HandleNak == Write("down") \o Do("addr", "none") \o Enter("BACKING_OFF")
             \o Discover
DhcpStart == Write("clearDHCP") \o Do("alloc", "") \o Discover
             \o Write("setDHCP")
DhcpStop  == Write("clearDHCP") \o Do("free", "")
Recv(type) == Do("unfold", "") \o Do("dispatch", type) \o Do("freeReply", "")
(* Mutant: the address is kept when the link goes.                         *)
SetDownOnly == Write("down")
SetDown   == Write("down") \o Do("addr", "none")

(* What dhcp_recv does with a reply in the client's state.                 *)
Dispatch(type, st) ==
  CASE type = "ACK" /\ st = "REQUESTING" -> Check
    [] type = "ACK" /\ st \in {"RENEWING", "REBINDING"} -> Bind
    [] type = "NAK" /\ st \in {"REQUESTING", "RENEWING", "REBINDING"}
         -> HandleNak
    [] type = "OFFER" /\ st = "SELECTING" -> Select
    [] OTHER -> <<>>

(* What dhcp_timeout may do, by the number of tries so far.                *)
Timeout(st) ==
  CASE st \in {"BACKING_OFF", "SELECTING"} -> {Discover}
    [] st = "REQUESTING" -> {Select, Release \o Discover}
    [] st = "CHECKING" -> {Check, Bind}
    [] st = "RENEWING" -> {Renew}
    [] st = "REBINDING" -> {Rebind, Release \o Discover}
    [] OTHER -> {<<>>}

(* Mutant: netif_set_down clears the link flag as well.                    *)
NewFlagsDownAll(old, f) ==
  CASE f = "clearDHCP" -> old \ {"DHCP"}
    [] f = "setDHCP" -> old \cup {"DHCP"}
    [] f = "down" -> old \ {"UP", "LINK_UP"}
    [] f = "up" -> old \cup {"UP"}

NewFlags(old, f) ==
  CASE f = "clearDHCP" -> old \ {"DHCP"}
    [] f = "setDHCP" -> old \cup {"DHCP"}
    [] f = "down" -> old \ {"UP"}
    [] f = "up" -> old \cup {"UP"}

-----------------------------------------------------------------------------
(* One context runs at a time; without "task" it runs its handler through. *)
Turn(c) ==
  /\ fault = "none"
  /\ "task" \in Preempt \/ \A d \in Contexts \ {c} : run[d] = <<>>

Resting(c) == Turn(c) /\ run[c] = <<>>
Begin(c, handler) == Resting(c) /\ run' = [run EXCEPT ![c] = handler]
At(c, op) == Turn(c) /\ run[c] # <<>> /\ Head(run[c]).op = op
Arg(c) == Head(run[c]).arg
Continue(c, handler) == run' = [run EXCEPT ![c] = handler \o Tail(@)]
Advance(c) == Continue(c, <<>>)
Fail(what) == fault' = what /\ UNCHANGED <<flags, stack>>

(* An access to the client: through a pointer to it, or through netif->dhcp *)
(* read anew, either of which is bad once dhcp_stop has freed it.  P is    *)
(* what the code asserts, new what becomes of the client.                  *)
Touch(c, P(_), new(_)) ==
  IF client = {} THEN Fail("freed")
  ELSE \E d \in client :
    IF ~P(d) THEN Fail("assert")
    ELSE client' = {new(d)} /\ Advance(c) /\ UNCHANGED <<flags, addr, copy, fault>>

Always(d) == TRUE

EnterState(c) ==
  /\ At(c, "state")
  /\ Touch(c, Always, LAMBDA d : [d EXCEPT !.st = Arg(c)])
  /\ UNCHANGED <<link, task>>

(* dhcp_create_request: p_out must be free.                                *)
Create(c) ==
  /\ At(c, "create")
  /\ Touch(c, LAMBDA d : ~d.out, LAMBDA d : [d EXCEPT !.out = TRUE])
  /\ UNCHANGED <<link, task>>

(* Mutant: dhcp_start goes on after it stopped the client.                 *)
CreateFailsGoesOn(c) ==
  /\ MemFails
  /\ At(c, "create") /\ \A d \in client : ~d.out
  /\ run' = [run EXCEPT ![c] = IF c = "tcpip" /\ req = "start"
                               THEN DhcpStop \o Tail(@)
                               ELSE Tail(Tail(@))]
  /\ UNCHANGED <<link, flags, client, addr, copy, task, fault>>

(* Without memory there is no message; dhcp_start gives up altogether.     *)
CreateFails(c) ==
  /\ MemFails
  /\ At(c, "create") /\ \A d \in client : ~d.out
  /\ run' = [run EXCEPT ![c] = IF c = "tcpip" /\ req = "start"
                               THEN DhcpStop \o Do("ack", "")
                               ELSE Tail(Tail(@))]
  /\ UNCHANGED <<link, flags, client, addr, copy, task, fault>>

(* After the send, dhcp_delete_request frees p_out.                        *)
Delete(c) ==
  /\ At(c, "delete")
  /\ Touch(c, LAMBDA d : d.out, LAMBDA d : [d EXCEPT !.out = FALSE])
  /\ UNCHANGED <<link, task>>

(* dhcp_unfold_reply copies the reply; without memory it is dropped.       *)
Unfold(c) ==
  /\ At(c, "unfold")
  /\ \/ Touch(c, Always, LAMBDA d : [d EXCEPT !.in = TRUE])
     \/ MemFails /\ run' = [run EXCEPT ![c] = <<>>]
        /\ UNCHANGED <<flags, client, addr, copy, fault>>
  /\ UNCHANGED <<link, task>>

DispatchReply(c) ==
  /\ At(c, "dispatch")
  /\ IF client = {} THEN Fail("freed")
     ELSE /\ \E d \in client : Continue(c, Dispatch(Arg(c), d.st))
          /\ UNCHANGED <<flags, client, addr, copy, fault>>
  /\ UNCHANGED <<link, task>>

(* Mutant: the reply is not freed.                                         *)
FreeReplyForgets(c) ==
  /\ At(c, "freeReply")
  /\ Touch(c, Always, LAMBDA d : d)
  /\ UNCHANGED <<link, task>>

FreeReply(c) ==
  /\ At(c, "freeReply")
  /\ Touch(c, Always, LAMBDA d : [d EXCEPT !.in = FALSE])
  /\ UNCHANGED <<link, task>>

SetAddr(c) ==
  /\ At(c, "addr")
  /\ addr' = (Arg(c) = "leased")
  /\ Advance(c)
  /\ UNCHANGED <<link, flags, client, copy, task, fault>>

(* netif.flags is read ...  netif_set_up and netif_set_down do so only to  *)
(* change NETIF_FLAG_UP.                                                   *)
LoadFlags(c) ==
  /\ At(c, "load")
  /\ copy' = [copy EXCEPT ![c] =
       IF Arg(c) \in {"up", "down"} /\ NewFlags(flags, Arg(c)) = flags
       THEN {} ELSE {flags}]
  /\ Advance(c)
  /\ UNCHANGED <<link, flags, client, addr, task, fault>>

(* ... and written.                                                        *)
StoreFlags(c) ==
  /\ At(c, "store")
  /\ flags' = IF copy[c] = {} THEN flags
              ELSE NewFlags(CHOOSE f \in copy[c] : TRUE, Arg(c))
  /\ copy' = [copy EXCEPT ![c] = {}]
  /\ Advance(c)
  /\ UNCHANGED <<link, client, addr, task, fault>>

(* A client left over would be asserted clean and used again.              *)
Alloc(c) ==
  /\ At(c, "alloc")
  /\ \/ IF \E d \in client : d.in \/ d.out
        THEN Fail("assert")
        ELSE client' = {NewClient} /\ Advance(c)
             /\ UNCHANGED <<flags, addr, copy, fault>>
     \/ MemFails /\ client = {} /\ run' = [run EXCEPT ![c] = Do("ack", "")]
        /\ UNCHANGED <<flags, client, addr, copy, fault>>
  /\ UNCHANGED <<link, task>>

(* Mutant: netif->dhcp still points to the freed client.                   *)
FreeKeepsPointer(c) ==
  /\ At(c, "free")
  /\ IF \E d \in client : d.in
     THEN Fail("assert")
     ELSE Advance(c) /\ UNCHANGED <<flags, client, addr, copy, fault>>
  /\ UNCHANGED <<link, task>>

Free(c) ==
  /\ At(c, "free")
  /\ IF \E d \in client : d.in
     THEN Fail("assert")
     ELSE client' = {} /\ Advance(c) /\ UNCHANGED <<flags, addr, copy, fault>>
  /\ UNCHANGED <<link, task>>

(* The netifapi call is answered.                                          *)
Acknowledge(c) ==
  /\ At(c, "ack")
  /\ req' = "done"
  /\ Advance(c)
  /\ UNCHANGED <<link, flags, client, addr, copy, pc, state, fault>>

Step(c) ==
  EnterState(c) \/ Create(c) \/ CreateFails(c) \/ Delete(c) \/ Unfold(c)
  \/ DispatchReply(c) \/ FreeReply(c) \/ SetAddr(c) \/ LoadFlags(c)
  \/ StoreFlags(c) \/ Alloc(c) \/ Free(c) \/ Acknowledge(c)

-----------------------------------------------------------------------------
(* The tcp/ip thread: netifapi calls and the two DHCP timers.              *)
Serve ==
  /\ req \in {"start", "stop"}
  /\ Begin("tcpip", (IF req = "start" THEN DhcpStart ELSE DhcpStop)
                    \o Do("ack", ""))
  /\ UNCHANGED <<link, flags, client, addr, copy, task, fault>>

FineTimer ==
  /\ \E d \in client : \E h \in Timeout(d.st) : Begin("tcpip", h)
  /\ UNCHANGED <<link, flags, client, addr, copy, task, fault>>

CoarseTimer ==
  /\ \E d \in client : d.st \in {"REQUESTING", "BOUND", "RENEWING"}
  /\ \E h \in {Renew, Rebind} : Begin("tcpip", h)
  /\ UNCHANGED <<link, flags, client, addr, copy, task, fault>>

(* ethTask: a reply for the client's port, or an ARP reply for the offered *)
(* address while it is being checked.                                      *)
Receive ==
  /\ \E d \in client :
       IF d.in THEN Resting("ethTask") /\ Fail("assert")
       ELSE /\ \E type \in {"OFFER", "ACK", "NAK"} :
                 Begin("ethTask", Recv(type))
            /\ UNCHANGED <<flags, client, addr, copy, fault>>
  /\ UNCHANGED <<link, task>>

ArpReply ==
  /\ \E d \in client : d.st = "CHECKING"
  /\ Begin("ethTask", Decline)
  /\ UNCHANGED <<link, flags, client, addr, copy, task, fault>>

-----------------------------------------------------------------------------
(* dhcpTask.                                                               *)

(* After its 250 ms the task calls dhcp_start when the link has come up.   *)
Poll ==
  /\ pc = "delay" /\ Turn("dhcpTask")
  /\ IF state = 0
     THEN /\ "LINK_UP" \in flags
          /\ req' = "start" /\ pc' = "starting"
     ELSE pc' = "check" /\ UNCHANGED req
  /\ UNCHANGED <<link, flags, stack, state, fault>>

Started ==
  /\ pc = "starting" /\ req = "done" /\ Turn("dhcpTask")
  /\ req' = "none" /\ state' = 1 /\ pc' = "check"
  /\ UNCHANGED <<link, flags, stack, fault>>

(* Mutant: netif_is_up asked for netif_is_link_up.                         *)
CheckLinkUp ==
  /\ pc = "check" /\ Turn("dhcpTask")
  /\ IF "UP" \in flags
     THEN pc' = "bound" /\ UNCHANGED req
     ELSE pc' = "stopping" /\ req' = "stop"
  /\ UNCHANGED <<link, flags, stack, state, fault>>

CheckLink ==
  /\ pc = "check" /\ Turn("dhcpTask")
  /\ IF "LINK_UP" \in flags
     THEN pc' = "bound" /\ UNCHANGED req
     ELSE pc' = "stopping" /\ req' = "stop"
  /\ UNCHANGED <<link, flags, stack, state, fault>>

(* netif_set_down and netif_set_addr run in dhcpTask's own context.        *)
Stopped ==
  /\ pc = "stopping" /\ req = "done"
  /\ Begin("dhcpTask", SetDown)
  /\ req' = "none" /\ pc' = "down"
  /\ UNCHANGED <<link, flags, client, addr, copy, state, fault>>

Down ==
  /\ pc = "down" /\ Resting("dhcpTask")
  /\ state' = 0 /\ pc' = "delay"
  /\ UNCHANGED <<link, flags, stack, req, fault>>

(* Mutant: the test of the task's state is missing.                        *)
CheckBoundCounts ==
  /\ pc = "bound" /\ Turn("dhcpTask")
  /\ state' = IF "UP" \in flags /\ addr THEN state + 1 ELSE state
  /\ pc' = "delay"
  /\ UNCHANGED <<link, flags, stack, req, fault>>

CheckBound ==
  /\ pc = "bound" /\ Turn("dhcpTask")
  /\ state' = IF state = 1 /\ "UP" \in flags /\ addr THEN 2 ELSE state
  /\ pc' = "delay"
  /\ UNCHANGED <<link, flags, stack, req, fault>>

DhcpTask == Poll \/ Started \/ CheckLink \/ Stopped \/ Down \/ CheckBound

-----------------------------------------------------------------------------
(* The link changes and ethISR sets both flags to it.                      *)
LinkIsr ==
  /\ fault = "none"
  /\ "isr" \in Preempt \/ \A c \in Contexts : copy[c] = {}
  /\ link' = ~link
  /\ flags' = IF link THEN flags \ {"LINK_UP", "UP"}
              ELSE flags \cup {"LINK_UP", "UP"}
  /\ UNCHANGED <<stack, task, fault>>

Next ==
  \/ \E c \in Contexts : Step(c)
  \/ Serve \/ FineTimer \/ CoarseTimer \/ Receive \/ ArpReply
  \/ DhcpTask \/ LinkIsr

Spec == Init /\ [][Next]_vars
        /\ \A c \in Contexts : WF_vars(Step(c))
        /\ SF_vars(Serve) /\ SF_vars(DhcpTask)

-----------------------------------------------------------------------------
TypeOK ==
  /\ link \in BOOLEAN /\ flags \subseteq Flags /\ addr \in BOOLEAN
  /\ client = {} \/ \E d \in Clients : client = {d}
  /\ run \in [Contexts -> Seq([op : STRING, arg : STRING])]
  /\ copy \in [Contexts -> SUBSET SUBSET Flags]
  /\ req \in {"none", "start", "stop", "done"}
  /\ pc \in {"delay", "starting", "check", "stopping", "down", "bound"}
  /\ state \in 0..2 /\ fault \in {"none", "assert", "freed"}

(* Whenever dhcpTask sleeps, a client exists exactly when its state says   *)
(* so: start and stop are acknowledged by another thread, may fail there,  *)
(* and the link may change at any point in between.                        *)
ClientMatchesTask == pc = "delay" => (state = 0 <=> client = {})

(* Without a client the interface has no address: no handler still under   *)
(* way when the client went can have set it afterwards.                    *)
NoStrayAddress ==
  client = {} /\ pc = "delay" /\ run["ethTask"] = <<>> => ~addr

(* An address in use is usable: a bound client on a live link has the      *)
(* interface up, whatever netif_set_down the release, the NAK or dhcpTask  *)
(* made before.                                                            *)
UpWhenBound ==
  \A d \in client :
    d.st = "BOUND" /\ link /\ (\A c \in Contexts : run[c] = <<>>)
    => addr /\ "UP" \in flags

(* LINK_UP and the link agree while no flag write is under way.            *)
LinkFlagKept ==
  (\A c \in Contexts : copy[c] = {}) => ("LINK_UP" \in flags <=> link)

(* No assertion of the DHCP client fails.                                  *)
AssertionsHold == fault # "assert"

(* A client is never touched after dhcp_stop freed it.                     *)
NoUseAfterFree == fault # "freed"

(* When the link stays down, the client and the address go for good.       *)
CleansUp == <>[](~link) => <>[](client = {} /\ ~addr)
=============================================================================
