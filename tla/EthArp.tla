------------------------------- MODULE EthArp -------------------------------
(***************************************************************************)
(* The ARP table (lwip/netif/etharp.c).  The tcp/ip thread queries it for  *)
(* packets to send and ages it; every ARP or IP packet that comes in       *)
(* updates it, on this board in ethTask, which calls ethernet_input        *)
(* itself.  A packet for an unresolved address waits in its entry's queue. *)
(* With Preempt, ethTask may run between the steps of a query.             *)
(***************************************************************************)
EXTENDS Naturals, Sequences, SequencesExt, FiniteSetsExt

CONSTANTS Nobody,       \* no host
          Host,         \* the hosts, each with its IP and its Ethernet address
          TableSize,    \* ARP_TABLE_SIZE
          MaxAge,       \* ARP_MAXAGE, in ticks of five seconds
          MaxPending,   \* ARP_MAXPENDING
          MaxQueue,     \* packets that wait in one entry (a bound)
          Preempt

Entry == 1..TableSize

VARIABLES
  arp,       \* arp_table: records [state, ip, mac, ctime, q], q the packets' destinations
  cached,    \* etharp_cached_entry
  query,     \* a query on its way: [at, to, i], at = "idle", "request" or "queue"
  wire       \* the last frame sent: [to, mac]

vars == <<arp, cached, query, wire>>

ArpAssumption ==
  /\ TableSize \in Nat \ {0} /\ MaxQueue \in Nat
  /\ MaxPending \in Nat \ {0} /\ MaxAge \in Nat \ {0}
  /\ Preempt \in BOOLEAN

Blank == [state |-> "empty", ip |-> Nobody, mac |-> Nobody, ctime |-> 0, q |-> << >>]
NoQuery == [at |-> "idle", to |-> Nobody, i |-> 1]

Init ==
  /\ arp = [i \in Entry |-> Blank]
  /\ cached = 1
  /\ query = NoQuery
  /\ wire = [to |-> Nobody, mac |-> Nobody]

-----------------------------------------------------------------------------
In(s) == {i \in Entry : arp[i].state = s}
Matching(ip) == {i \in Entry \ In("empty") : arp[i].ip = ip}
Queueing == {i \in In("pending") : arp[i].q # << >>}

(* The oldest entry of S, the last of several.                             *)
Oldest(S) == CHOOSE i \in S : \A j \in S : \/ arp[j].ctime < arp[i].ctime
                                           \/ arp[j].ctime = arp[i].ctime /\ j <= i

(* Mutant: a pending entry does not match.                                 *)
FindStable(ip, hard) ==
  LET S == {i \in In("stable") : arp[i].ip = ip}
  IN CASE S # {} -> Min(S)
       [] S = {} /\ In("empty") # {} -> Min(In("empty"))
       [] OTHER -> IF ~hard THEN 0 ELSE Oldest(Entry)

(* Mutant: the cached entry is taken without comparing the address.        *)
FindCached(ip, hard) ==
  CASE arp[cached].state = "stable" -> cached
    [] OTHER -> IF Matching(ip) # {} THEN Min(Matching(ip))
                ELSE IF In("empty") # {} THEN Min(In("empty"))
                ELSE IF hard THEN Oldest(Entry) ELSE 0

(* find_entry's search: the cached entry, a matching one, the first empty  *)
(* one, or with ETHARP_TRY_HARD the least destructive to recycle; 0 for    *)
(* ERR_MEM.                                                                *)
Find(ip, hard) ==
  IF arp[cached].state = "stable" /\ arp[cached].ip = ip THEN cached
  ELSE IF Matching(ip) # {} THEN Min(Matching(ip))
  ELSE IF In("empty") # {} THEN Min(In("empty"))
  ELSE IF ~hard THEN 0
  ELSE IF In("stable") # {} THEN Oldest(In("stable"))
  ELSE IF In("pending") # Queueing THEN Oldest(In("pending") \ Queueing)
  ELSE Oldest(Queueing)

(* What find_entry makes of entry i: a match stays, another is recycled.   *)
Claimed(i, ip) ==
  IF i \in Matching(ip) THEN arp[i]
  ELSE [arp[i] EXCEPT !.state = "empty", !.ip = ip, !.ctime = 0,
                      !.q = IF arp[i].state = "pending" THEN << >> ELSE @]

(* etharp_send_ip                                                          *)
Send(to, mac) == wire' = [to |-> to, mac |-> mac]

-----------------------------------------------------------------------------
(* Mutant: the queue is kept when the entry becomes stable.                *)
HearAndKeep(ip, hard) ==
  LET i == Find(ip, hard)
      e == Claimed(i, ip)
  IN /\ query.at = "idle" \/ Preempt
     /\ i # 0
     /\ arp' = [arp EXCEPT ![i] = [e EXCEPT !.state = "stable", !.mac = ip, !.ctime = 0]]
     /\ cached' = i
     /\ UNCHANGED <<query, wire>>

(* update_arp_entry for a packet from host ip: etharp_arp_input (hard when *)
(* the packet is for us) and etharp_ip_input.  The entry becomes stable    *)
(* and what waited is sent.                                                *)
Hear(ip, hard) ==
  LET i == Find(ip, hard)
      e == Claimed(i, ip)
  IN /\ query.at = "idle" \/ Preempt
     /\ i # 0
     /\ arp' = [arp EXCEPT ![i] = [e EXCEPT !.state = "stable", !.mac = ip, !.ctime = 0,
                                            !.q = << >>]]
     /\ cached' = i
     /\ IF e.q # << >> THEN Send(Last(e.q), ip) ELSE UNCHANGED wire
     /\ UNCHANGED query

(* etharp_query for a packet to host ip: the entry is found or made, and a *)
(* fresh one becomes pending.                                              *)
Query(ip) ==
  LET i == Find(ip, TRUE)
      e == Claimed(i, ip)
  IN /\ query.at = "idle"
     /\ i # 0 /\ Len(e.q) < MaxQueue
     /\ arp' = [arp EXCEPT ![i] = [e EXCEPT !.state = IF @ = "empty" THEN "pending" ELSE @]]
     /\ cached' = i
     /\ query' = [at |-> "request", to |-> ip, i |-> i]
     /\ UNCHANGED wire

(* The request of a pending entry is on the way (etharp_request), and the  *)
(* entry is looked at again: when it is stable the packet goes out, when   *)
(* it is pending the packet is copied.                                     *)
Look ==
  /\ query.at = "request"
  /\ IF arp[query.i].state = "stable"
       THEN Send(query.to, arp[query.i].mac) /\ query' = NoQuery
       ELSE query' = [query EXCEPT !.at = "queue"] /\ UNCHANGED wire
  /\ UNCHANGED <<arp, cached>>

(* The copy is appended to the entry's queue.                              *)
Queue ==
  /\ query.at = "queue"
  /\ arp' = [arp EXCEPT ![query.i].q = Append(@, query.to)]
  /\ query' = NoQuery
  /\ UNCHANGED <<cached, wire>>

(* The memory for the copy or the queue entry is missing: ERR_MEM.         *)
QueueFails ==
  /\ query.at = "queue"
  /\ query' = NoQuery
  /\ UNCHANGED <<arp, cached, wire>>

(* Mutant: a pending entry may grow as old as a stable one.                *)
AgeAlike ==
  /\ query.at = "idle"
  /\ arp' = [i \in Entry |->
       LET e == [arp[i] EXCEPT !.ctime = @ + 1]
       IN IF e.state = "empty" THEN arp[i]
          ELSE IF e.ctime < MaxAge THEN e ELSE [e EXCEPT !.state = "empty", !.q = << >>]]
  /\ UNCHANGED <<cached, query, wire>>

(* etharp_tmr: entries that are too old are emptied with their queues.     *)
Age ==
  /\ query.at = "idle"
  /\ arp' = [i \in Entry |->
       LET e == [arp[i] EXCEPT !.ctime = @ + 1]
       IN IF e.state = "empty" THEN arp[i]
          ELSE IF e.ctime < (IF e.state = "stable" THEN MaxAge ELSE MaxPending) THEN e
          ELSE [e EXCEPT !.state = "empty", !.q = << >>]]
  /\ UNCHANGED <<cached, query, wire>>

Next ==
  \/ \E ip \in Host : Query(ip) \/ \E hard \in BOOLEAN : Hear(ip, hard)
  \/ Look \/ Queue \/ QueueFails \/ Age

Spec == Init /\ [][Next]_vars

-----------------------------------------------------------------------------
TypeOK ==
  /\ arp \in [Entry -> [state : {"empty", "pending", "stable"}, ip : Host \union {Nobody},
                        mac : Host \union {Nobody}, ctime : Nat, q : Seq(Host)]]
  /\ cached \in Entry
  /\ query.at \in {"idle", "request", "queue"}

(* No address has two entries: a reply to the second would leave the       *)
(* packets of the first waiting.                                           *)
OneEntryEach ==
  \A i, j \in Entry \ In("empty") : arp[i].ip = arp[j].ip => i = j

(* A frame goes to the host its packet is for, through recycling, ageing   *)
(* and the cached entry.                                                   *)
RightHost == wire.to = wire.mac

(* A stable entry has no packets waiting; find_entry asserts it when it    *)
(* recycles one (etharp.c:372), and nothing but age would send them.       *)
StableQueueEmpty == \A i \in In("stable") : arp[i].q = << >>

(* A queue holds its own entry's packets, and an unanswered request lets   *)
(* them go after MaxPending ticks.                                         *)
WaitBounded ==
  \A i \in Entry : arp[i].q # << >> =>
    /\ \A k \in 1..Len(arp[i].q) : arp[i].q[k] = arp[i].ip
    /\ arp[i].ctime < MaxPending
=============================================================================
