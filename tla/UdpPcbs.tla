------------------------------ MODULE UdpPcbs -------------------------------
(***************************************************************************)
(* The list of UDP control blocks (lwip/core/udp.c).  The tcp/ip thread    *)
(* creates, binds, connects and removes them; udp_input looks one up for a *)
(* datagram and moves it to the front, on this board in ethTask.  With     *)
(* Preempt each may run between the other's stores to the list.  Every     *)
(* block is bound to any local address, as this program's are.             *)
(***************************************************************************)
EXTENDS Naturals, Sequences, SequencesExt, FiniteSetsExt

CONSTANTS Nil,          \* the null pointer, and no host
          Pcb,          \* the blocks there is memory for
          Dhcp,         \* the DHCP client's, which the interface points to
          Host,         \* remote hosts
          ClientPort,   \* DHCP_CLIENT_PORT
          ServerPort,   \* DHCP_SERVER_PORT
          Fixed,        \* the ports that programs choose
          Remote,       \* the ports of remote hosts
          AutoStart, AutoEnd,  \* UDP_LOCAL_PORT_RANGE_START, UDP_LOCAL_PORT_RANGE_END
          Preempt

Auto == AutoStart..(AutoEnd - 1)
Local == Fixed \union {ClientPort} \union Auto

UdpAssumption ==
  /\ ServerPort \in Remote /\ Dhcp \in Pcb /\ Nil \notin Pcb \union Host
  /\ AutoStart \in Nat /\ AutoEnd \in Nat /\ Preempt \in BOOLEAN
  /\ (Fixed \union {ClientPort}) \cap Auto = {}
  /\ 0 \notin Local

VARIABLES
  first,    \* udp_pcbs
  next,     \* the blocks' next
  port,     \* local_port, 0 for an unbound block
  remote,   \* [host, port] of a connected block
  used,     \* the blocks that are allocated
  input,    \* udp_input's place: [at, found, prev, dgram]
  api       \* the tcp/ip thread's place: [at, pcb]

vars == <<first, next, port, remote, used, input, api>>

Nowhere == [host |-> Nil, port |-> 0]
NoInput == [at |-> "idle", found |-> Nil, prev |-> Nil, dgram |-> Nil]
Free == [at |-> "idle", pcb |-> Nil]

Init ==
  /\ first = Nil /\ next = [p \in Pcb |-> Nil]
  /\ port = [p \in Pcb |-> 0] /\ remote = [p \in Pcb |-> Nowhere]
  /\ used = {}
  /\ input = NoInput /\ api = Free

-----------------------------------------------------------------------------
(* The blocks in the order of the list, as far as the memory goes: a loop  *)
(* in the list makes this longer than the number of blocks.                *)
Chain ==
  LET nth[i \in 0..Cardinality(Pcb)] ==
        IF i = 0 THEN first ELSE IF nth[i - 1] = Nil THEN Nil ELSE next[nth[i - 1]]
  IN SelectSeq([i \in 1..(Cardinality(Pcb) + 1) |-> nth[i - 1]], LAMBDA p : p # Nil)

Listed == Range(Chain)

(* Mutant: the scan goes on instead of starting again with the next port.  *)
FreePortOnePass ==
  FoldLeft(LAMBDA q, p : IF port[p] = q THEN q + 1 ELSE q, AutoStart, Chain)

(* udp_bind's automatic port: the first of the range, its last excepted,   *)
(* that no listed block has; 0 if there is none.                           *)
FreePort ==
  LET free == Auto \ {port[p] : p \in Listed}
  IN IF free = {} THEN 0 ELSE Min(free)

(* Mutant: local_match is not reset, so a block that follows one of the    *)
(* right port matches too.                                                 *)
MatchesSticky(d) ==
  {k \in 1..Len(Chain) : /\ \E j \in 1..k : port[Chain[j]] = d.dest
                         /\ remote[Chain[k]].host \in {Nil, d.host}}

(* The full matches of udp_input: the remote port is not compared.         *)
Matches(d) ==
  {k \in 1..Len(Chain) : /\ port[Chain[k]] = d.dest
                         /\ remote[Chain[k]].host \in {Nil, d.host}}

TcpipMay == api = Free /\ (input = NoInput \/ Preempt)
EthMay == api = Free \/ Preempt

-----------------------------------------------------------------------------
(* udp_new; the cleared block is what FreePcb left.                        *)
New(p) ==
  /\ TcpipMay /\ p \notin used
  /\ used' = used \union {p}
  /\ UNCHANGED <<first, next, port, remote, input, api>>

(* udp_bind: a block that is not in the list is put in front of it, with   *)
(* two stores.                                                             *)
Bind(p, n) ==
  /\ TcpipMay /\ p \in used
  /\ (n = ClientPort) <=> (p = Dhcp)
  /\ n \in Auto => n = FreePort
  /\ port' = [port EXCEPT ![p] = n]
  /\ IF p \in Listed
       THEN UNCHANGED <<next, api>>
       ELSE next' = [next EXCEPT ![p] = first] /\ api' = [at |-> "insert", pcb |-> p]
  /\ UNCHANGED <<first, remote, used, input>>

Insert ==
  /\ api.at = "insert"
  /\ first' = api.pcb
  /\ api' = Free
  /\ UNCHANGED <<next, port, remote, used, input>>

(* udp_connect of a bound block, which is in the list already; an unbound  *)
(* one is bound first.  dhcp_start connects to any host.                   *)
Connect(p, h, n) ==
  /\ TcpipMay /\ p \in used /\ port[p] # 0
  /\ p = Dhcp => h = Nil /\ n = ServerPort
  /\ remote' = [remote EXCEPT ![p] = [host |-> h, port |-> n]]
  /\ UNCHANGED <<first, next, port, used, input, api>>

(* udp_disconnect                                                          *)
Disconnect(p) ==
  /\ TcpipMay /\ p \in used \ {Dhcp}
  /\ remote' = [remote EXCEPT ![p] = Nowhere]
  /\ UNCHANGED <<first, next, port, used, input, api>>

(* udp_remove: the block is taken out of the list with one store, and then *)
(* freed.                                                                  *)
RemovePcb(p) ==
  /\ TcpipMay /\ p \in used
  /\ IF first = p
       THEN first' = next[p] /\ UNCHANGED next
       ELSE /\ next' = [q \in Pcb |-> IF q \in Listed /\ next[q] = p THEN next[p] ELSE next[q]]
            /\ UNCHANGED first
  /\ api' = [at |-> "free", pcb |-> p]
  /\ UNCHANGED <<port, remote, used, input>>

FreePcb ==
  /\ api.at = "free"
  /\ used' = used \ {api.pcb}
  /\ port' = [port EXCEPT ![api.pcb] = 0]
  /\ remote' = [remote EXCEPT ![api.pcb] = Nowhere]
  /\ next' = [next EXCEPT ![api.pcb] = Nil]
  /\ api' = Free
  /\ UNCHANGED <<first, input>>

-----------------------------------------------------------------------------
(* udp_input: the DHCP client's datagrams go by the interface's pointer,   *)
(* others to the first full match.  (Every unconnected block is one.)      *)
Search(d) ==
  /\ EthMay /\ input = NoInput
  /\ IF d.dest = ClientPort
       THEN input' = [at |-> "give", prev |-> Nil, dgram |-> d,
                      found |-> IF d.src = ServerPort /\ Dhcp \in used /\ port[Dhcp] # 0
                                THEN Dhcp ELSE Nil]
       ELSE LET k == IF Matches(d) = {} THEN 0 ELSE Min(Matches(d))
            IN input' = [at |-> IF k > 1 THEN "cut" ELSE "give", dgram |-> d,
                         found |-> IF k = 0 THEN Nil ELSE Chain[k],
                         prev |-> IF k > 1 THEN Chain[k - 1] ELSE Nil]
  /\ UNCHANGED <<first, next, port, remote, used, api>>

(* Mutant: the match is linked to the front without being taken out.       *)
CutNothing ==
  /\ EthMay /\ input.at = "cut"
  /\ input' = [input EXCEPT !.at = "link"]
  /\ UNCHANGED <<first, next, port, remote, used, api>>

(* The match is moved to the front with three stores.                      *)
Cut ==
  /\ EthMay /\ input.at = "cut"
  /\ next' = [next EXCEPT ![input.prev] = next[input.found]]
  /\ input' = [input EXCEPT !.at = "link"]
  /\ UNCHANGED <<first, port, remote, used, api>>

Link ==
  /\ EthMay /\ input.at = "link"
  /\ next' = [next EXCEPT ![input.found] = first]
  /\ input' = [input EXCEPT !.at = "head"]
  /\ UNCHANGED <<first, port, remote, used, api>>

MoveToFront ==
  /\ EthMay /\ input.at = "head"
  /\ first' = input.found
  /\ input' = [input EXCEPT !.at = "give"]
  /\ UNCHANGED <<next, port, remote, used, api>>

(* The block's recv is called, or the datagram is dropped.                 *)
Give ==
  /\ EthMay /\ input.at = "give"
  /\ input' = NoInput
  /\ UNCHANGED <<first, next, port, remote, used, api>>

Datagram == [dest : Local, host : Host, src : Remote]

Next ==
  \/ \E p \in Pcb : \/ New(p) \/ Disconnect(p) \/ RemovePcb(p)
                    \/ \E n \in Local : Bind(p, n)
                    \/ \E h \in Host \union {Nil}, n \in Remote : Connect(p, h, n)
  \/ Insert \/ FreePcb
  \/ \E d \in Datagram : Search(d)
  \/ Cut \/ Link \/ MoveToFront \/ Give

Spec == Init /\ [][Next]_vars

-----------------------------------------------------------------------------
TypeOK ==
  /\ first \in Pcb \union {Nil} /\ next \in [Pcb -> Pcb \union {Nil}]
  /\ port \in [Pcb -> Local \union {0}]
  /\ remote \in [Pcb -> [host : Host \union {Nil}, port : Remote \union {0}]]
  /\ used \subseteq Pcb
  /\ input.at \in {"idle", "cut", "link", "head", "give"}
  /\ api.at \in {"idle", "insert", "free"}

AtRest == input = NoInput /\ api = Free

(* The list has no loop, and holds exactly the blocks that are bound: a    *)
(* block that drops out never receives again (udp.c:202).                  *)
ListSound ==
  AtRest => /\ Len(Chain) = Cardinality(Listed)
            /\ Listed = {p \in used : port[p] # 0}

(* A datagram reaches a live block of its port, one connected to another   *)
(* host never, and is dropped only when there is none.                     *)
RightReceiver ==
  input.at = "give" =>
    LET d == input.dgram
        fit == {p \in used : port[p] = d.dest /\ remote[p].host \in {Nil, d.host}}
    IN d.dest # ClientPort =>
         IF fit = {} THEN input.found = Nil ELSE input.found \in fit

(* No two blocks share an automatic port: the scan starts again for each   *)
(* candidate because the list is in no order (udp.c:633).                  *)
AutoPortsDiffer ==
  \A p, q \in used : p # q /\ port[p] \in Auto => port[p] # port[q]
=============================================================================
