------------------------------- MODULE MCStack --------------------------------
(***************************************************************************)
(* The board's lower parts and the stack's, on small instances.  One of    *)
(* them moves in a behaviour; the tasks are those of RtosTasks itself and  *)
(* stay at their start while another part moves:                           *)
(*   tasks     two tasks that sleep, suspend the scheduler and delete      *)
(*   themselves and each other; one of them makes blocking calls           *)
(*   irq       three tasks and the start-up code at the interrupt mask     *)
(*   uart      two tasks and a handler that print                          *)
(*   timeouts  two periodic timers, a one-shot one and a waiting function  *)
(*   seed      the client and its server                                   *)
(*   mib       one interface, three neighbours and two UDP blocks in the   *)
(*   management tree                                                       *)
(*   agent     two requests at a time for two objects inside and one       *)
(*   outside the program                                                   *)
(*   message   an SNMP message that is written and read                    *)
(*   resolve   two callers that resolve two names in a table of two        *)
(*   entries                                                               *)
(*   padding   messages of up to three blocks that are padded for SHA-256  *)
(***************************************************************************)
EXTENDS RtosTasks, Mib2, TLC

CONSTANTS idle, low, high, t1, t2, t3, boot, nobody, tcpTimer, arpTimer,
  callback, waiter, block1, block2, caller1, caller2

VARIABLES
  part,
  cur, started, tick, irq, steps, saved, created, nesting, suspended,
  missed, lockNested, lockState, inside, fifo, txLock, tpc, dropped,
  intruded, list, left, wall, early, mode, sem, timeflag, up, main, bound,
  memory, resolved, queue, sent, mailbox, netbuf, pbufs, asked, replies, lost,
  ifAddress, stable, binding, rows, shown, msg, value, present, inUse,
  request, response, applied, written, chain, parsed, dns, queries, wanted,
  truthful, whole, remainder, at, padding, blocks, padPc

irqVars == <<cur, started, tick, irq, steps, saved, created, nesting,
  suspended, missed, lockNested, lockState, inside>>
uartVars == <<fifo, txLock, tpc, dropped, intruded>>
timeoutsVars == <<list, left, wall, early, mode, sem, timeflag>>
seedVars == <<up, main, bound, memory, resolved, queue, sent, mailbox, netbuf,
  pbufs, asked, replies, lost>>
mibVars == <<ifAddress, stable, binding, rows, shown>>
agentVars == <<msg, value, present, inUse, request, response, applied>>
messageVars == <<written, chain, parsed>>
resolveVars == <<dns, queries, wanted, truthful>>
paddingVars == <<whole, remainder, at, padding, blocks, padPc>>
MCvars ==
  <<part, vars, irqVars, uartVars, timeoutsVars, seedVars, mibVars, agentVars,
    messageVars, resolveVars, paddingVars>>

Priority == idle :> 0 @@ low :> 1 @@ high :> 2

Intervals == tcpTimer :> 2 @@ arpTimer :> 5

(* Addresses of two sub-identifiers; names on and off the objects.         *)
NoAddress == <<0, 0>>
HostAddresses == {<<1, 2>>, <<2, 1>>}
Neighbours == {<<1, 1>>, <<1, 2>>, <<2, 1>>}
OddNames ==
  {<<>>, <<1>>, <<2, 1, 3>>, <<2, 1, 4, 20>>, <<2, 1, 4, 22, 1, 1, 1, 1>>, <<2, 1, 4, 22, 1, 1, 1, 1, 5>>,
   <<2, 1, 4, 21, 1, 3, 1, 3>>, <<2, 1, 7, 5, 1, 2, 0, 0, 1, 7>>, <<2, 1, 2, 2, 1, 23>>,
   <<2, 1, 6, 13, 1, 1, 1>>, <<3>>, <<2, 1, 11, 30>>, <<2, 1, 1, 1, 1>>, <<2, 1, 12>>}

(* Requests: names 1 and 2 are inside, 3 is outside the program.           *)
Ask(rt, vbs) == [rt |-> rt, vars |-> [i \in 1..Len(vbs) |-> [name |-> vbs[i][1], val |-> vbs[i][2]]]]
Requests ==
  {Ask("get", <<<<1, 0>>, <<9, 0>>, <<3, 0>>>>), Ask("get", <<<<1, 0>>, <<3, 0>>>>), Ask("next", <<<<0, 0>>, <<2, 0>>>>),
   Ask("set", <<<<3, 1>>, <<1, 0>>>>), Ask("set", <<<<1, 1>>, <<2, 1>>>>), Ask("set", <<<<1, 0>>, <<3, 7>>>>),
   Ask("set", <<<<3, 0>>, <<3, 1>>>>)}

(* Messages: numbers, names and strings whose length in octets changes.    *)
Edge == {0, 127, 128, 255}
Zero4 == <<0, 0, 0, 0>>
SysName == <<1, 3, 6, 1, 2, 1, 1, 5, 0>>
Message(pdu, vbs) ==
  [pdu |-> pdu, community |-> <<112, 117, 98, 108, 105, 99>>, rid |-> <<0, 0, 1, 44>>, status |-> Zero4, index |-> Zero4,
   list |-> vbs]
Var(name, type, val) == [name |-> name, type |-> type, val |-> val]
Ids == {0, 127, 128, 16383, 16384, 2097151, 2097152, 268435455, 268435456, 2147483647}
Text(n) == [i \in 1..n |-> i % 256]
Messages ==
  {Message(163, <<Var(SysName, type, <<a, b, c, d>>)>>) :
     type \in {2, 65}, a \in {0, 1, 127, 128, 255}, b \in {0, 1, 127, 128, 255}, c \in Edge, d \in Edge}
  \union {Message(161, <<Var(<<1, y, a, b>>, 5, <<>>)>>) : y \in {3, 39}, a \in Ids, b \in Ids}
  \union {Message(160, <<Var(<<x, y, 1>>, 6, <<x, y, a>>)>>) : x \in 0..2, y \in {0, 39}, a \in Ids}
  \union {Message(163, <<Var(SysName, 4, Text(n))>>) : n \in (60..140) \union (210..257)}
  \union {Message(163, <<Var(SysName, 68, Text(n)), Var(SysName, 64, Text(4))>>) : n \in 60..140}
  \union {Message(162, <<Var(SysName, 2, Zero4)>>), Message(160, <<>>),
          [Message(160, <<Var(SysName, 5, <<>>)>>) EXCEPT !.community = <<112>>],
          [Message(160, <<Var(SysName, 5, <<>>)>>) EXCEPT !.status = <<0, 0, 0, 2>>],
          Message(162, <<Var(SysName, 67, <<255, 0, 0, 0>>), Var(SysName, 5, <<>>)>>)}
Traps ==
  {[pdu |-> 164, community |-> <<112, 117, 98, 108, 105, 99>>, enterprise |-> <<1, 3, 6, 1, 4, 1, 26381>>,
    address |-> <<10, 0, 0, 5>>, generic |-> <<0, 0, 0, g>>, specific |-> <<a, 0, 0, b>>, ts |-> <<a, b, 0, 0>>,
    list |-> <<>>] : g \in {0, 6}, a \in Edge, b \in Edge}

(* Three names as their labels; one begins another.                        *)
Names == {<<"a">>, <<"b">>, <<"a", "b">>}
Addresses == <<"a">> :> "a" @@ <<"b">> :> "b" @@ <<"a", "b">> :> "ab"

Irq == INSTANCE IrqLock WITH
  Task <- {t1, t2, t3}, Lwip <- {t1}, Boot <- boot

Console == INSTANCE Uart WITH
  Task <- {t1, t2}, Nobody <- nobody, Depth <- 3

Timeouts == INSTANCE SysTimeouts WITH
  Periodic <- {tcpTimer, arpTimer}, OneShot <- {callback}, Waiter <- waiter,
  Period <- Intervals, Delays <- {1, 3}, MaxLate <- 1, MaxSignals <- 1

Seed == INSTANCE SeedClient WITH
  MailboxSize <- 1, MaxCount <- 3, MaxReplies <- 3

Mib == INSTANCE SnmpMib WITH
  Tree <- FixedTree, IfAddr <- HostAddresses, ArpAddr <- Neighbours,
  Pcb <- {block1, block2}, UdpAddr <- {NoAddress}, Ports <- {1},
  Zero <- NoAddress, MaskLen <- 1, Probes <- OddNames, address <- ifAddress,
  bound <- binding

Agent == INSTANCE SnmpAgent WITH
  Slots <- 2, Internal <- {1, 2}, External <- {3}, Writable <- {1, 3},
  Values <- {0, 1}, Requests <- Requests, Stays <- TRUE, asked <- request,
  reply <- response, live <- inUse

Wire == INSTANCE SnmpWire WITH
  Messages <- Messages, Traps <- Traps, Cuts <- {1, 7, 29, 31, 33, 41},
  sent <- written, wire <- chain, read <- parsed

Resolver == INSTANCE Dns WITH
  Request <- {caller1, caller2}, Name <- Names, Addr <- Addresses,
  TableSize <- 2, MaxServers <- 2, MaxRetries <- 2, Ttls <- {2}, MaxTtl <- 1,
  TtlRange <- 3, SeqRange <- 3, MaxAsked <- 3, Reenters <- {"found", "timeout", "error"},
  net <- queries, asked <- wanted, told <- truthful

Pad == INSTANCE Sha256Pad WITH
  Sizes <- 0..130, size <- whole, hashed <- blocks, pc <- padPc

ASSUME
  /\ Timeouts!TimeoutsAssumption
  /\ Seed!SeedAssumption
  /\ Mib!MibAssumption
  /\ Agent!AgentAssumption
  /\ Resolver!DnsAssumption
  /\ Pad!PadAssumption

NoIrq ==
  /\ cur = nobody /\ started = nobody /\ tick = nobody /\ irq = nobody
  /\ steps = nobody /\ saved = nobody /\ created = nobody /\ nesting = nobody
  /\ suspended = nobody /\ missed = nobody /\ lockNested = nobody
  /\ lockState = nobody /\ inside = nobody

NoUart ==
  /\ fifo = nobody /\ txLock = nobody /\ tpc = nobody /\ dropped = nobody
  /\ intruded = nobody

NoTimeouts ==
  /\ list = nobody /\ left = nobody /\ wall = nobody /\ early = nobody
  /\ mode = nobody /\ sem = nobody /\ timeflag = nobody

NoSeed ==
  /\ up = nobody /\ main = nobody /\ bound = nobody /\ memory = nobody
  /\ resolved = nobody /\ queue = nobody /\ sent = nobody /\ mailbox = nobody
  /\ netbuf = nobody /\ pbufs = nobody /\ asked = nobody /\ replies = nobody
  /\ lost = nobody

NoMib ==
  /\ ifAddress = nobody /\ stable = nobody /\ binding = nobody /\ rows = nobody
  /\ shown = nobody

NoAgent ==
  /\ msg = nobody /\ value = nobody /\ present = nobody /\ inUse = nobody
  /\ request = nobody /\ response = nobody /\ applied = nobody

NoMessage ==
  /\ written = nobody /\ chain = nobody /\ parsed = nobody

NoResolve ==
  /\ dns = nobody /\ queries = nobody /\ wanted = nobody /\ truthful = nobody

NoPadding ==
  /\ whole = nobody /\ remainder = nobody /\ at = nobody /\ padding = nobody
  /\ blocks = nobody /\ padPc = nobody

MCInit ==
  /\ Init
  /\ \/ /\ part = "tasks"
        /\ NoIrq /\ NoUart /\ NoTimeouts /\ NoSeed /\ NoMib /\ NoAgent
        /\ NoMessage /\ NoResolve /\ NoPadding
     \/ /\ part = "irq" /\ Irq!Init
        /\ NoUart /\ NoTimeouts /\ NoSeed /\ NoMib /\ NoAgent /\ NoMessage
        /\ NoResolve /\ NoPadding
     \/ /\ part = "uart" /\ Console!Init
        /\ NoIrq /\ NoTimeouts /\ NoSeed /\ NoMib /\ NoAgent /\ NoMessage
        /\ NoResolve /\ NoPadding
     \/ /\ part = "timeouts" /\ Timeouts!Init
        /\ NoIrq /\ NoUart /\ NoSeed /\ NoMib /\ NoAgent /\ NoMessage
        /\ NoResolve /\ NoPadding
     \/ /\ part = "seed" /\ Seed!Init
        /\ NoIrq /\ NoUart /\ NoTimeouts /\ NoMib /\ NoAgent /\ NoMessage
        /\ NoResolve /\ NoPadding
     \/ /\ part = "mib" /\ Mib!Init
        /\ NoIrq /\ NoUart /\ NoTimeouts /\ NoSeed /\ NoAgent /\ NoMessage
        /\ NoResolve /\ NoPadding
     \/ /\ part = "agent" /\ Agent!Init
        /\ NoIrq /\ NoUart /\ NoTimeouts /\ NoSeed /\ NoMib /\ NoMessage
        /\ NoResolve /\ NoPadding
     \/ /\ part = "message" /\ Wire!Init
        /\ NoIrq /\ NoUart /\ NoTimeouts /\ NoSeed /\ NoMib /\ NoAgent
        /\ NoResolve /\ NoPadding
     \/ /\ part = "resolve" /\ Resolver!Init
        /\ NoIrq /\ NoUart /\ NoTimeouts /\ NoSeed /\ NoMib /\ NoAgent
        /\ NoMessage /\ NoPadding
     \/ /\ part = "padding" /\ Pad!Init
        /\ NoIrq /\ NoUart /\ NoTimeouts /\ NoSeed /\ NoMib /\ NoAgent
        /\ NoMessage /\ NoResolve

MCNext ==
  /\ UNCHANGED part
  /\ \/ /\ part = "tasks" /\ Next
        /\ UNCHANGED <<irqVars, uartVars, timeoutsVars, seedVars, mibVars,
                       agentVars, messageVars, resolveVars, paddingVars>>
     \/ /\ part = "irq" /\ Irq!Next
        /\ UNCHANGED <<vars, uartVars, timeoutsVars, seedVars, mibVars,
                       agentVars, messageVars, resolveVars, paddingVars>>
     \/ /\ part = "uart" /\ Console!Next
        /\ UNCHANGED <<vars, irqVars, timeoutsVars, seedVars, mibVars,
                       agentVars, messageVars, resolveVars, paddingVars>>
     \/ /\ part = "timeouts" /\ Timeouts!Next
        /\ UNCHANGED <<vars, irqVars, uartVars, seedVars, mibVars, agentVars,
                       messageVars, resolveVars, paddingVars>>
     \/ /\ part = "seed" /\ Seed!Next
        /\ UNCHANGED <<vars, irqVars, uartVars, timeoutsVars, mibVars,
                       agentVars, messageVars, resolveVars, paddingVars>>
     \/ /\ part = "mib" /\ Mib!Next
        /\ UNCHANGED <<vars, irqVars, uartVars, timeoutsVars, seedVars,
                       agentVars, messageVars, resolveVars, paddingVars>>
     \/ /\ part = "agent" /\ Agent!Next
        /\ UNCHANGED <<vars, irqVars, uartVars, timeoutsVars, seedVars,
                       mibVars, messageVars, resolveVars, paddingVars>>
     \/ /\ part = "message" /\ Wire!Next
        /\ UNCHANGED <<vars, irqVars, uartVars, timeoutsVars, seedVars,
                       mibVars, agentVars, resolveVars, paddingVars>>
     \/ /\ part = "resolve" /\ Resolver!Next
        /\ UNCHANGED <<vars, irqVars, uartVars, timeoutsVars, seedVars,
                       mibVars, agentVars, messageVars, paddingVars>>
     \/ /\ part = "padding" /\ Pad!Next
        /\ UNCHANGED <<vars, irqVars, uartVars, timeoutsVars, seedVars,
                       mibVars, agentVars, messageVars, resolveVars>>

MCSpec ==
  /\ MCInit /\ [][MCNext]_MCvars
  /\ WF_seedVars(part = "seed" /\ Seed!Client)
  /\ WF_seedVars(part = "seed" /\ Seed!Resolve)
  /\ WF_seedVars(part = "seed" /\ Seed!Serve)
  /\ WF_seedVars(part = "seed" /\ replies = 0 /\ Seed!Reply)

-----------------------------------------------------------------------------
(* The properties of the parts; each is stated and explained in its module.*)

(* One context at a time is inside the allocator, a task gets its          *)
(* interrupts back, no tick comes before the first task runs, and tasks do *)
(* not overrun each other's output.  The list of time-outs says when each  *)
(* is due; none runs early or outlives the frame it points to, and the     *)
(* stack's timers stay in it.                                              *)
BoardSound ==
  /\ part = "irq" => Irq!TypeOK /\ Irq!AllocatorExclusive /\ Irq!MaskReturned
       /\ Irq!BootMasked
  /\ part = "uart" => Console!TypeOK /\ Console!LostOnlyToHandler
  /\ part = "timeouts" => Timeouts!TypeOK /\ Timeouts!DifferencesAddUp /\
       Timeouts!NeverEarly /\ Timeouts!NoDanglingFrame /\ Timeouts!TimersKept

(* Every check sum is the one of its number, messages are padded as the    *)
(* standard says, and no buffer is lost track of but the first.            *)
SeedSound ==
  /\ part = "seed" => Seed!TypeOK /\ Seed!SumsMatch /\ Seed!BuffersAccounted
  /\ part = "padding" => Pad!TypeOK /\ Pad!PaddedAsStandard

(* Only a loss keeps the client waiting.                                   *)
WaitsOnlyForLost == part = "seed" => Seed!WaitsOnlyForLost

(* The management tree has a row for all there is and nothing else, and is *)
(* walked in order without a gap; a request is answered for the bindings   *)
(* it has, a SET is done whole or not at all, and messages are read as     *)
(* they were written.                                                      *)
SnmpSound ==
  /\ part = "mib" => Mib!TypeOK /\ Mib!RowsMatch /\ Mib!WalkIsComplete /\
       Mib!ValuesWritten
  /\ part = "agent" => Agent!TypeOK /\ Agent!NoLeak /\ Agent!AnswerMatches /\
       Agent!SetAtomic
  /\ part = "message" => Wire!TypeOK /\ Wire!LengthsRight /\ Wire!ReadAsWritten

(* A caller is called once and told the address of the name it asked for,  *)
(* names are asked for no longer than the tries allow, and the oldest      *)
(* known name gives way.                                                   *)
DnsSound ==
  /\ part = "resolve" => Resolver!TypeOK /\ Resolver!OneCallback /\
       Resolver!AddressesTrue /\ Resolver!AskedInTime /\ Resolver!OldestGoes
=============================================================================
