-------------------------------- MODULE Dns --------------------------------
(***************************************************************************)
(* The resolver (lwip/core/dns.c): a table of names that are asked for or  *)
(* known, a timer that asks again, and the answers.                        *)
(* A name is the sequence of its labels, which are all of one length.  A   *)
(* request stands for the function to call and its argument; the function  *)
(* may ask for a name itself.  Answers are lost, late and repeated.        *)
(* count and the born of an entry are dns_seqno and its seqno before they  *)
(* are cut to eight bits; given is the time to live that an answer carried.*)
(***************************************************************************)
EXTENDS Integers, FiniteSetsExt, SequencesExt

CONSTANTS
  Request,     \* callers of dns_gethostbyname
  Name,        \* the names they ask for
  Addr,        \* the address of each name
  TableSize,   \* DNS_TABLE_SIZE
  MaxServers,  \* DNS_MAX_SERVERS
  MaxRetries,  \* DNS_MAX_RETRIES
  Ttls,        \* the times to live that answers carry
  MaxTtl,      \* DNS_MAX_TTL
  TtlRange,    \* the range of ttl, a u32_t
  SeqRange,    \* the range of dns_seqno, a u8_t
  MaxAsked,    \* bound: names that are enqueued
  Reenters     \* the callbacks that may ask again: "found", "timeout", "error"

DnsAssumption ==
  /\ TableSize \in Nat \ {0} /\ MaxServers \in Nat \ {0} /\ MaxRetries \in Nat \ {0}
  /\ MaxTtl \in Nat \ {0} /\ TtlRange > MaxTtl /\ Ttls \subseteq 0..(TtlRange - 1)
  /\ SeqRange \in Nat \ {0} /\ MaxAsked \in Nat
  /\ Reenters \subseteq {"found", "timeout", "error"}

VARIABLES
  dns,      \* [table, count, servers, lost]; lost is a history variable, the
            \* requests that were thrown away without a call
  net,      \* the queries that were sent: each may be answered at any time, and again
  asked,    \* what each request has asked for and has not been told
  told      \* whether every address that was told was one that Fits its name, but
            \* to a callback of an error answer that asks again

vars == <<dns, net, asked, told>>

Index == 0..(TableSize - 1)
NoAddr == "none"
ZeroAddr == "zero"   \* of an entry that never had another
NoName == <<>>
NoCall == <<>>
Full == -1      \* no entry for another name

(* buffer is the array that the entry's name is in: a shorter name leaves  *)
(* the end of a longer one in it.                                          *)
Unused == [state |-> "unused", name |-> NoName, buffer |-> NoName, numdns |-> 0, tmr |-> 0,
           retries |-> 0, born |-> 0, ttl |-> 0, given |-> 0, addr |-> ZeroAddr,
           found |-> NoCall, ticks |-> 0]

Init ==
  /\ dns = [table |-> [i \in Index |-> Unused], count |-> 0, servers |-> {0}, lost |-> {}]
  /\ net = {}
  /\ asked = [r \in Request |-> NoName]
  /\ told = TRUE

-----------------------------------------------------------------------------
(* The handlers work on a record of all four.                              *)
All == [dns |-> dns, net |-> net, asked |-> asked, told |-> told]
Becomes(a) == dns' = a.dns /\ net' = a.net /\ asked' = a.asked /\ told' = a.told

Query(i, name) == [id |-> i, name |-> name]

(* dns_send                                                                *)
Send(a, i) == [a EXCEPT !.net = @ \union {Query(i, a.dns.table[i].name)}]

(* What dns_enqueue finds: an unused entry, the first; or of those that    *)
(* are done the one with the greatest age, if its age is not negative.     *)
Age(d, i) == (d.count % SeqRange) - (d.table[i].born % SeqRange)

(* Mutant: the youngest goes.                                              *)
PlaceYoungest(d) ==
  LET unused == {i \in Index : d.table[i].state = "unused"}
      done == {i \in Index : d.table[i].state = "done"}
  IN  IF unused # {} THEN Min(unused)
      ELSE IF done = {} THEN Full
      ELSE CHOOSE i \in done : \A j \in done : Age(d, i) <= Age(d, j)

Place(d) ==
  LET unused == {i \in Index : d.table[i].state = "unused"}
      done == {i \in Index : d.table[i].state = "done"}
      older == {i \in done : Age(d, i) > 0}
      oldest == {i \in older : \A j \in older : Age(d, i) >= Age(d, j)}
  IN  IF unused # {} THEN Min(unused)
      ELSE IF oldest # {} THEN Min(oldest)
      ELSE IF 0 \in done THEN 0
      ELSE Full

(* The array after strcpy.                                                 *)
Copied(buffer, name) == name \o SubSeq(buffer, Len(name) + 1, Len(buffer))

(* dns_enqueue, with dns_check_entry for a new entry at its end.           *)
Enqueue(a, name, r) ==
  LET i == Place(a.dns)
  IN  IF i = Full THEN a
      ELSE Send([a EXCEPT
             !.dns.table[i] = [Unused EXCEPT !.state = "asking", !.name = name, !.tmr = 1,
                                !.buffer = Copied(a.dns.table[i].buffer, name),
                                !.born = a.dns.count, !.found = r,
                                !.ttl = a.dns.table[i].ttl, !.addr = a.dns.table[i].addr],
             !.dns.count = @ + 1,
             !.asked[r] = name], i)

(* Mutant: an entry that is being asked for counts as known.               *)
LookupAny(d, name) ==
  LET known == {i \in Index : d.table[i].state # "unused" /\ d.table[i].name = name}
  IN  IF known = {} THEN NoAddr ELSE d.table[Min(known)].addr

(* dns_lookup                                                              *)
Lookup(d, name) ==
  LET known == {i \in Index : d.table[i].state = "done" /\ d.table[i].name = name}
  IN  IF known = {} THEN NoAddr ELSE d.table[Min(known)].addr

(* The addresses that an entry for name may get: its own, and those of     *)
(* names that it begins with, as dns_compare_name ends with the name in    *)
(* the answer, or that begin with it, when one of them was in its buffer.  *)
Fits(name) == {Addr[n] : n \in {m \in Name : IsPrefix(m, name) \/ IsPrefix(name, m)}}

(* dns_gethostbyname: ERR_OK with the address, or a query.                 *)
GetHostByName(a, name, r) ==
  IF Lookup(a.dns, name) # NoAddr
    THEN [a EXCEPT !.told = @ /\ Lookup(a.dns, name) \in Fits(name)]
    ELSE Enqueue(a, name, r)

(* What a callback may do: nothing, or ask for a name again.  While that   *)
(* of an error runs its entry is done, with the address of an earlier use: *)
(* told leaves out what it gets.                                           *)
Again(a, r, name, why) ==
  IF name = NoName \/ why \notin Reenters \/ a.dns.count >= MaxAsked THEN a
  ELSE LET b == GetHostByName(a, name, r)
       IN IF why = "error" THEN [b EXCEPT !.told = a.told] ELSE b
Calls == {NoName} \union Name

(* The callback of entry i, if there is one, with an address or NULL.      *)
Callback(a, i, why, addr, call) ==
  LET r == a.dns.table[i].found
  IN  Again([a EXCEPT !.asked[r] = NoName,
                     !.told = @ /\ addr \in {NoAddr} \union Fits(a.dns.table[i].name)],
            r, call, why)

Flush(a, i) == [a EXCEPT !.dns.table[i].state = "unused", !.dns.table[i].found = NoCall]

(* The end of dns_recv after an error: if the callback had the entry given *)
(* to another request, that is lost with it.                               *)
Drop(a, i) ==
  LET e == a.dns.table[i]
      again == IF e.state = "asking" THEN {e.found} ELSE {}
  IN  [Flush(a, i) EXCEPT !.dns.lost = @ \union again]

-----------------------------------------------------------------------------
Ask(r, name) ==
  /\ asked[r] = NoName /\ dns.count < MaxAsked
  /\ Becomes(GetHostByName(All, name, r))

SetServer(n) ==
  /\ dns' = [dns EXCEPT !.servers = @ \union {n}]
  /\ UNCHANGED <<net, asked, told>>

(* Mutant: a change of server that keeps the count of tries.               *)
NextServerCounted(e) == [e EXCEPT !.numdns = @ + 1, !.tmr = 1, !.retries = @ + 1]

(* The next server is asked from its first try on.                         *)
NextServer(e) == [e EXCEPT !.numdns = @ + 1, !.tmr = 1, !.retries = 0]

(* One more try: it waits as many ticks as there were tries.               *)
Retry(e, n) == [e EXCEPT !.tmr = n, !.retries = n]

(* dns_check_entry                                                         *)
CheckEntry(a, i, call) ==
  LET e == a.dns.table[i]
      tries == e.retries + 1
      later == [a EXCEPT !.dns.table[i].ticks = @ + 1]
  IN  CASE e.state = "asking" /\ e.tmr > 1 -> [later EXCEPT !.dns.table[i].tmr = @ - 1]
        [] e.state = "asking" /\ e.tmr = 1 /\ tries # MaxRetries ->
             Send([later EXCEPT !.dns.table[i] = Retry(@, tries)], i)
        [] e.state = "asking" /\ e.tmr = 1 /\ tries = MaxRetries ->
             IF e.numdns + 1 < MaxServers /\ e.numdns + 1 \in a.dns.servers
               THEN [later EXCEPT !.dns.table[i] = NextServer(@)]
               ELSE Flush(Callback(a, i, "timeout", NoAddr, call), i)
        [] e.state = "done" /\ e.ttl = 1 -> Flush(a, i)
        [] e.state = "done" /\ e.ttl # 1 -> [a EXCEPT !.dns.table[i].ttl = (@ - 1) % TtlRange]
        [] e.state = "unused" -> a

(* dns_tmr                                                                 *)
Timer(call) ==
  Becomes(FoldLeft(LAMBDA a, n : CheckEntry(a, n - 1, call), All, [n \in 1..TableSize |-> n]))

(* The server's answer to a query: an error, or records, of which some are *)
(* addresses.                                                              *)
Records == {<<>>} \union {<<[a |-> TRUE, ttl |-> t]>> : t \in Ttls}
           \union {<<[a |-> FALSE, ttl |-> 1], [a |-> TRUE, ttl |-> t]>> : t \in Ttls}

(* Mutant: the names are not compared.                                     *)
MatchesAny(buffer, response) == TRUE

(* dns_compare_name, which passes over the end of the name in the buffer.  *)
Matches(buffer, response) == IsPrefix(response, buffer)

(* The time to live of the first address among the records.                *)
Given(records) == records[Min({k \in DOMAIN records : records[k].a})].ttl

(* Mutant: the time to live is not limited.                                *)
LivesLong(records) == Given(records)

Lives(records) == Min({MaxTtl, Given(records)})

(* Mutant: the answer is not taken for any state but a new one's.          *)
TakesKnown(e) == e.state # "unused"

Takes(e) == e.state = "asking"

(* dns_recv: an answer to q.                                               *)
Recv(q, records, err, call) ==
  LET i == q.id
      e == dns.table[i]
      done == [All EXCEPT !.dns.table[i].state = "done"]
      good == /\ ~err /\ Matches(e.buffer, q.name)
              /\ \E k \in DOMAIN records : records[k].a
  IN  /\ Takes(e) /\ (err => records = <<>>)
      /\ Becomes(
           IF good
             THEN Callback([done EXCEPT !.dns.table[i].ttl = Lives(records),
                                        !.dns.table[i].given = Given(records),
                                        !.dns.table[i].addr = Addr[q.name]],
                           i, "found", Addr[q.name], call)
             ELSE Drop(Callback(done, i, "error", NoAddr, call), i))

Next ==
  \/ \E r \in Request, name \in Name : Ask(r, name)
  \/ \E n \in 0..(MaxServers - 1) : SetServer(n)
  \/ \E call \in Calls :
       \/ Timer(call)
       \/ \E q \in net, records \in Records, err \in BOOLEAN : Recv(q, records, err, call)

Spec == Init /\ [][Next]_vars

-----------------------------------------------------------------------------
TypeOK ==
  /\ dns.servers \subseteq 0..(MaxServers - 1) /\ dns.count \in 0..MaxAsked
  /\ \A i \in Index : /\ dns.table[i].state \in {"unused", "asking", "done"}
                      /\ dns.table[i].found \in Request \union {NoCall}
                      /\ dns.table[i].addr \in {Addr[n] : n \in Name} \union {ZeroAddr}
  /\ asked \in [Request -> Name \union {NoName}] /\ dns.lost \subseteq Request

(* A request that has been promised a callback has one entry that is being *)
(* asked for, and the name in it is its own: it is called once.  Only a    *)
(* request from the callback of a failed one may be lost, and only when    *)
(* the table is full.                                                      *)
OneCallback ==
  \A r \in Request :
    LET mine == {i \in Index : dns.table[i].state = "asking" /\ dns.table[i].found = r}
    IN  IF asked[r] = NoName \/ r \in dns.lost THEN mine = {}
        ELSE Cardinality(mine) = 1 /\ \A i \in mine : dns.table[i].name = asked[r]

(* What a request is told, and what is kept, is the address of the name,   *)
(* or of one that it begins with or that begins with it, however late an   *)
(* answer comes, unless it is asked for from the callback of an error      *)
(* answer; and nothing is kept for longer than DNS_MAX_TTL but what should *)
(* not be kept at all: a time to live of zero is counted down from there.  *)
AddressesTrue ==
  /\ told
  /\ \A i \in Index : dns.table[i].state = "done" =>
       /\ dns.table[i].addr \in Fits(dns.table[i].name)
       /\ dns.table[i].given > 0 => dns.table[i].ttl \in 1..MaxTtl

(* No entry is asked for longer than the tries at the servers up to its    *)
(* own take, and the server it asks has an address.                        *)
AskedInTime ==
  \A i \in Index : dns.table[i].state = "asking" =>
    /\ dns.table[i].numdns \in dns.servers
    /\ dns.table[i].ticks < (dns.table[i].numdns + 1)
                              * (1 + (MaxRetries * (MaxRetries - 1)) \div 2)

(* Until dns_seqno begins anew a new name is refused only when every entry *)
(* is being asked for, and else it takes the place of the entry that was   *)
(* enqueued first; and it always takes a free entry if there is one, and   *)
(* never one that is being asked for.                                      *)
OldestGoes ==
  LET done == {i \in Index : dns.table[i].state = "done"}
      unused == {i \in Index : dns.table[i].state = "unused"}
      i == Place(dns)
      sameRound == \A j \in done : dns.table[j].born \div SeqRange = dns.count \div SeqRange
  IN  IF unused # {} THEN i \in unused
      ELSE IF done = {} THEN i = Full
      ELSE /\ i \in done \union {Full}
           /\ sameRound => i \in done /\ \A j \in done : dns.table[i].born <= dns.table[j].born

(* The resolver of lwip/core/dns.c keeps its promises.                     *)
DnsSound == OneCallback /\ AddressesTrue /\ AskedInTime /\ OldestGoes
=============================================================================
