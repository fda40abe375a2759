----------------------------- MODULE DhcpClient ------------------------------
(***************************************************************************)
(* The DHCP client's protocol (lwip/core/dhcp.c) against a server on a     *)
(* network that loses, repeats, delays and reorders messages.  LinkDhcp    *)
(* has the same handlers as sequences of accesses of several threads; here *)
(* each is one step, and the retry counters, transaction numbers, lease    *)
(* timers and the server are added.                                        *)
(*                                                                         *)
(* A tick is one of dhcp_coarse_tmr, 60 s.  A message lives for less than  *)
(* a tick, for less than the back-off after a decline and for less than a   *)
(* lost link takes to return; the tries of rebinding, 45 s, last less than *)
(* a tick.                                                                 *)
(***************************************************************************)
EXTENDS Naturals, FiniteSets

CONSTANTS Addr,          \* addresses the server has
          None,          \* 0.0.0.0
          T1, T2, Lease, \* of the server's leases, in ticks
          Width,         \* lease timers count modulo this (2^16)
          RequestTries,  \* 5 in dhcp_timeout
          RebindTries,   \* 8 in dhcp_timeout
          Named,         \* whether offers name the server: {TRUE}, or BOOLEAN
          Allocated,     \* whether buffers are got: {TRUE}, or BOOLEAN
          MaxNet         \* bound on the messages under way

DhcpAssumption ==
  /\ None \notin Addr /\ T1 \in 1..(T2 - 1) /\ T2 \in 1..Lease /\ T2 < Width
  /\ RequestTries \in Nat /\ RebindTries \in Nat /\ MaxNet \in Nat
  /\ Named \subseteq BOOLEAN /\ Allocated \subseteq BOOLEAN

VARIABLES
  client,  \* struct dhcp, with netif's address in ip
  net,     \* messages under way; old ones have seen a tick
  lease,   \* to whom the server has let each address
  left     \* ticks until the client's lease of it ends

vars == <<client, net, lease, left>>

States == {"none", "OFF", "SELECTING", "REQUESTING", "CHECKING", "BOUND", "RENEWING",
           "REBINDING", "BACKING_OFF"}
MaxTries == 2 + IF RequestTries > RebindTries THEN RequestTries ELSE RebindTries
AtMost(a, b) == IF a < b THEN a ELSE b

NoClient ==
  [state |-> "none", tries |-> 0, timer |-> FALSE, t1 |-> 0, t2 |-> 0,
   offered |-> None, leased |-> FALSE, ip |-> None, age |-> 0, ticked |-> FALSE]

Init ==
  /\ client = NoClient /\ net = {}
  /\ lease = [a \in Addr |-> "free"] /\ left = [a \in Addr |-> 0]

-----------------------------------------------------------------------------
(* The client's functions take the client and whether there is memory, and *)
(* give the client and the messages it sends.                              *)

(* dhcp_set_state                                                          *)
Enter(c, state) ==
  IF c.state = state THEN c ELSE [c EXCEPT !.state = state, !.tries = 0, !.ticked = FALSE]

(* dhcp_create_request, the sending, the try that counts and its time-out. *)
(* A new transaction number is taken at the first try only; the messages   *)
(* with another number are no longer current.                              *)
Attempt(c, kind, wanted, ok) ==
  LET ci == IF c.state \in {"RENEWING", "REBINDING"} THEN c.ip ELSE None
  IN [client |-> [c EXCEPT !.tries = AtMost(@ + 1, MaxTries), !.timer = TRUE],
      out |-> IF ok THEN {[to |-> "server", kind |-> kind, addr |-> wanted, ci |-> ci,
                           named |-> FALSE, current |-> TRUE, old |-> FALSE]} ELSE {},
      fresh |-> ok /\ c.tries = 0]

Silent(c) == [client |-> c, out |-> {}, fresh |-> FALSE]

Discover(c, ok) == Attempt(Enter([c EXCEPT !.offered = None], "SELECTING"), "DISCOVER", None, ok)
Select(c, ok) == Attempt(Enter(c, "REQUESTING"), "REQUEST", c.offered, ok)
Renew(c, ok) == Attempt(Enter(c, "RENEWING"), "REQUEST", None, ok)
Rebind(c, ok) == Attempt(Enter(c, "REBINDING"), "REQUEST", None, ok)
Decline(c, ok) == Attempt(Enter(c, "BACKING_OFF"), "DECLINE", c.offered, ok)

(* dhcp_release and dhcp_discover.  The release goes to the address of the *)
(* server, which has just been cleared: no server hears of it.             *)
ReleaseAndDiscover(c, ok) ==
  LET off == Attempt(Enter([c EXCEPT !.offered = None, !.leased = FALSE], "OFF"), "RELEASE", None, ok)
  IN Discover([off.client EXCEPT !.ip = None, !.age = 0], ok)

(* dhcp_check: the ARP query repeats nothing that matters here.            *)
Check(c) ==
  LET d == Enter(c, "CHECKING")
  IN Silent([d EXCEPT !.tries = AtMost(@ + 1, MaxTries), !.timer = TRUE])

(* Mutant: the rebinding timer is left as it is.                           *)
BindOnce(c) ==
  Silent(Enter([c EXCEPT !.t1 = IF c.leased THEN T1 ELSE 1, !.ip = c.offered, !.age = 0], "BOUND"))

(* dhcp_bind                                                               *)
Bind(c) ==
  Silent(Enter([c EXCEPT !.t1 = IF c.leased THEN T1 ELSE 1, !.t2 = IF c.leased THEN T2 ELSE 1,
                         !.ip = c.offered, !.age = 0], "BOUND"))

(* dhcp_handle_nak                                                         *)
HandleNak(c, ok) == Discover(Enter([c EXCEPT !.ip = None, !.age = 0], "BACKING_OFF"), ok)

(* dhcp_timeout                                                            *)
TimedOut(c, ok) ==
  CASE c.state \in {"BACKING_OFF", "SELECTING"} -> Discover(c, ok)
    [] c.state = "REQUESTING" ->
         IF c.tries <= RequestTries THEN Select(c, ok) ELSE ReleaseAndDiscover(c, ok)
    [] c.state = "CHECKING" -> IF c.tries <= 1 THEN Check(c) ELSE Bind(c)
    [] c.state = "RENEWING" -> Renew(c, ok)
    [] c.state = "REBINDING" ->
         IF c.tries <= RebindTries THEN Rebind(c, ok) ELSE ReleaseAndDiscover(c, ok)
    [] OTHER -> Silent(c)

Timed == {"REQUESTING", "BOUND", "RENEWING"}
Down(t) == (t + Width - 1) % Width

(* Mutant: the rebinding timer is not looked at while renewing.            *)
LeaseTimersBound(c, ok) ==
  LET d == [c EXCEPT !.t2 = Down(@)]
      e == [d EXCEPT !.t1 = Down(@)]
  IN CASE c.t2 = 1 /\ c.state \in Timed \ {"RENEWING"} -> Rebind(d, ok)
       [] c.t2 # 1 /\ c.t1 = 1 /\ c.state \in Timed -> Renew(e, ok)
       [] OTHER -> Silent(IF c.t2 = 1 THEN d ELSE e)

(* dhcp_coarse_tmr, dhcp_t1_timeout, dhcp_t2_timeout: a tick that ends T2  *)
(* does not count for T1, and both wrap.                                   *)
LeaseTimers(c, ok) ==
  LET d == [c EXCEPT !.t2 = Down(@)]
      e == [d EXCEPT !.t1 = Down(@)]
  IN CASE c.t2 = 1 /\ c.state \in Timed -> Rebind(d, ok)
       [] c.t2 # 1 /\ c.t1 = 1 /\ c.state \in Timed -> Renew(e, ok)
       [] OTHER -> Silent(IF c.t2 = 1 THEN d ELSE e)

(* Mutant: transaction numbers are not compared.                           *)
ConcernsAny(c, m) == c.state # "none" /\ m.to = "client"
Concerns(c, m) == c.state # "none" /\ m.to = "client" /\ m.current

(* dhcp_recv.  An offer that does not name its server stops the time-out   *)
(* and does nothing else.                                                  *)
Received(c, m, ok) ==
  LET d == [c EXCEPT !.timer = FALSE]
      asked == c.state \in {"REQUESTING", "REBINDING", "RENEWING"}
  IN CASE m.kind = "ACK" /\ c.state = "REQUESTING" ->
            Check([d EXCEPT !.leased = TRUE, !.offered = m.addr])
       [] m.kind = "ACK" /\ asked /\ c.state # "REQUESTING" -> Bind(d)
       [] m.kind = "NAK" /\ asked -> HandleNak(d, ok)
       [] m.kind = "OFFER" /\ c.state = "SELECTING" ->
            IF m.named THEN Select([d EXCEPT !.offered = m.addr], ok)
                       ELSE Silent(d)
       [] OTHER -> Silent(c)

-----------------------------------------------------------------------------
(* The client takes a step: its messages join the others.                  *)
Become(step, others) ==
  /\ client' = step.client
  /\ LET rest == IF step.fresh THEN {[m EXCEPT !.current = FALSE] : m \in others} ELSE others
     IN net' = IF Cardinality(rest \union step.out) <= MaxNet THEN rest \union step.out ELSE rest

(* A decline has reached the server or is lost.                            *)
NoDecline == \A m \in net : m.kind # "DECLINE"

(* dhcp_start: without memory for the first message it stops again.        *)
Start ==
  /\ client.state = "none" /\ NoDecline
  /\ Become(Discover([NoClient EXCEPT !.state = "OFF"], TRUE), net)
  /\ UNCHANGED <<lease, left>>

(* dhcp_stop, then dhcpTask clears the address.                            *)
Stop ==
  /\ client.state # "none"
  /\ client' = NoClient
  /\ UNCHANGED <<net, lease, left>>

(* dhcp_fine_tmr                                                           *)
FineTimer ==
  /\ client.timer
  /\ client.state = "BACKING_OFF" => NoDecline
  /\ \E ok \in Allocated : Become(TimedOut([client EXCEPT !.timer = FALSE], ok), net)
  /\ UNCHANGED <<lease, left>>

(* dhcp_arp_reply: someone has the address that is being checked.          *)
ArpReply ==
  /\ client.state = "CHECKING"
  /\ \E ok \in Allocated : Become(Decline(client, ok), net)
  /\ UNCHANGED <<lease, left>>

(* A tick: old messages are gone, leases run out.                          *)
Aged(c) ==
  [c EXCEPT !.age = IF c.ip = None THEN 0 ELSE AtMost(@ + 1, Width), !.ticked = c.state = "CHECKING"]

CoarseTimer ==
  LET young == {[m EXCEPT !.old = TRUE] : m \in {n \in net : ~n.old}}
  IN /\ client.state # "REBINDING" /\ ~client.ticked
     /\ IF client.state = "none"
          THEN net' = young /\ UNCHANGED client
          ELSE \E ok \in Allocated : Become(LeaseTimers(Aged(client), ok), young)
     /\ left' = [a \in Addr |-> IF left[a] = 0 THEN 0 ELSE left[a] - 1]
     /\ lease' = [a \in Addr |-> IF left[a] = 1 THEN "free" ELSE lease[a]]

(* A message arrives, and may arrive once more.                            *)
Receive(m) ==
  /\ Concerns(client, m)
  /\ \E ok \in Allocated, others \in {net, net \ {m}} : Become(Received(client, m, ok), others)
  /\ UNCHANGED <<lease, left>>

Lose(m) == net' = net \ {m} /\ UNCHANGED <<client, lease, left>>

-----------------------------------------------------------------------------
(* The server.                                                             *)
Answer(m, kind, a) ==
  \E others \in {net, net \ {m}}, named \in Named :
    LET r == [to |-> "client", kind |-> kind, addr |-> a, ci |-> None, current |-> m.current,
              named |-> kind = "OFFER" /\ named, old |-> FALSE]
    IN /\ Cardinality(others \union {r}) <= MaxNet
       /\ net' = others \union {r}

Offer(m, a) ==
  /\ m.kind = "DISCOVER" /\ lease[a] # "other"
  /\ Answer(m, "OFFER", a)
  /\ UNCHANGED <<client, lease, left>>

Grant(m, a) ==
  /\ m.kind = "REQUEST" /\ a \in {m.addr, m.ci} /\ lease[a] # "other"
  /\ Answer(m, "ACK", a)
  /\ lease' = [lease EXCEPT ![a] = "ours"]
  /\ left' = [left EXCEPT ![a] = Lease]
  /\ UNCHANGED client

Refuse(m, a) ==
  /\ m.kind = "REQUEST"
  /\ (m.addr = None /\ m.ci = None) \/ (a \in {m.addr, m.ci} /\ lease[a] = "other")
  /\ Answer(m, "NAK", None)
  /\ UNCHANGED <<client, lease, left>>

Declined(m) ==
  /\ m.kind = "DECLINE"
  /\ net' = net \ {m}
  /\ lease' = [a \in Addr |-> IF a = m.addr THEN "other" ELSE lease[a]]
  /\ left' = [a \in Addr |-> IF a = m.addr THEN 0 ELSE left[a]]
  /\ UNCHANGED client

(* Other hosts come and go.                                                *)
Others(a) ==
  /\ \/ lease[a] = "free" /\ lease' = [lease EXCEPT ![a] = "other"]
     \/ lease[a] = "other" /\ lease' = [lease EXCEPT ![a] = "free"]
  /\ UNCHANGED <<client, net, left>>

Next ==
  \/ Start \/ Stop \/ FineTimer \/ ArpReply \/ CoarseTimer
  \/ \E m \in net :
       \/ Receive(m) \/ Lose(m)
       \/ m.to = "server" /\ Declined(m)
       \/ m.to = "server" /\ \E a \in Addr : Offer(m, a) \/ Grant(m, a) \/ Refuse(m, a)
  \/ \E a \in Addr : Others(a)

-----------------------------------------------------------------------------
TypeOK ==
  /\ client.state \in States /\ client.tries \in 0..MaxTries
  /\ client.t1 \in 0..(Width - 1) /\ client.t2 \in 0..(Width - 1)
  /\ client.ip \in Addr \union {None} /\ client.offered \in Addr \union {None}
  /\ Cardinality(net) <= MaxNet
  /\ lease \in [Addr -> {"free", "ours", "other"}] /\ left \in [Addr -> 0..Lease]

(* Whatever is lost, late or repeated, the server never lets another host  *)
(* have an address that the board uses.                                    *)
NoSharedAddress == client.ip # None => lease[client.ip] = "ours"

(* The client never waits for an answer without a time-out.                *)
Armed == client.state \notin {"none", "OFF", "BOUND"} => client.timer

(* The board has an address while it is bound, renewing or rebinding and   *)
(* at no other time; it renews from T1 on and rebinds from T2 on, wrapping *)
(* timers notwithstanding.                                                 *)
LeaseInTime ==
  /\ client.ip # None => client.state \in {"BOUND", "RENEWING", "REBINDING"}
  /\ client.state = "BOUND" => client.ip # None /\ client.age < T1
  /\ client.state = "RENEWING" /\ client.ip # None => client.age \in T1..(T2 - 1)
  /\ client.state = "REBINDING" /\ client.ip # None => client.age = T2
=============================================================================
