---------------------------- MODULE AsyncRegFile ----------------------------
(***************************************************************************)
(* The FPGA's register file on the processor's bus (l5/fpga/src):          *)
(*   shift_reg.v       a synchroniser that also drops one-clock spikes     *)
(*   reg_file.v        the random-number and LED registers, which act once *)
(*                     per bus cycle (rw_state)                            *)
(*   async_reg_file.v  three synchronisers in front of the registers       *)
(* A clock edge is one step.  The bus master, the CPLD that makes the      *)
(* strobes and the noise on the wires are the environment.  The address    *)
(* and the data are not synchronised by the design: the registers use them *)
(* as they are when the delayed strobe arrives.                            *)
(***************************************************************************)
EXTENDS Integers

CONSTANTS
    Stages,       \* flip-flops of a synchroniser (SIZE of shift_reg: 4)
    Width, Taps,  \* bits of the generator, and the ones its mask sets
    Hold,         \* clocks a strobe lasts at least (bus wait states)
    Gap,          \* clocks between two bus cycles at least
    ResetClocks,  \* clocks a system reset lasts at least
    Noisy, Quiet, \* the wires with spikes, and the clean samples between two
    Lights,       \* LEDs of the board (8)
    Seeds,        \* words the program writes
    ResetWord     \* data_out after a reset (32'hfee1dead)

Wires == {"ws_n", "rs_n", "as"}
Bits  == 0 .. Width - 1
Words == [Bits -> BOOLEAN]
Zero  == [i \in Bits |-> FALSE]

\* The constants of the code: a shift of Width = 32 bits and the mask
\* 32'h80200003, whose highest bit is the generator's highest.
ASSUME SizeAssumption == Stages \in Nat /\ Stages >= 2 /\ Lights \in Nat \ {0}
ASSUME WordAssumption ==
    /\ Width \in Nat \ {0}
    /\ Taps \subseteq Bits /\ Width - 1 \in Taps
    /\ Seeds \subseteq Words /\ ResetWord \in Words
ASSUME TimeAssumption ==
    /\ Hold \in Nat /\ Gap \in Nat /\ ResetClocks \in Nat
    /\ Quiet \in Nat /\ Noisy \subseteq Wires

Addresses == {"A_RAND", "LED", "other"}
Cycles    == [op : {"read"}, addr : Addresses, data : {Zero}]
             \cup [op : {"write"}, addr : Addresses, data : Seeds]
NoCycle   == [op |-> "read", addr |-> "other", data |-> Zero]
Dark      == -1   \* no LED lit

VARIABLES
    line,      \* per wire: the synchroniser, and what its input did lately
    data_out, rw_state, rand,  \* reg_file's registers; of the LED register
    led, led_out,              \* and the LEDs, the number of the bit set
    select,    \* reg_file's latched address decoder
    phase, age,  \* the bus cycle's phase, and its clocks up to Limit
    cycle,     \* what the bus master does, or did last
    acts,      \* history: times the registers acted in this cycle, capped at 2
    before     \* history: the registers when this cycle began

regs == <<data_out, rw_state, rand, led, led_out>>
bus  == <<phase, cycle, select, before>>
vars == <<line, regs, bus, age, acts>>

(* The program's side: as is high during a cycle, one strobe low within it *)
StrobeOf(op) == IF op = "read" THEN "rs_n" ELSE "ws_n"
Level(w) ==
    IF w = "as" THEN ~(phase \in {"reset", "idle"})
                ELSE ~(phase = "strobe" /\ w = StrobeOf(cycle.op))

PoweredUp == [stage |-> [i \in 0 .. Stages - 1 |-> FALSE], out |-> FALSE,
              level |-> FALSE, clean |-> 0]

Registers == [rand |-> rand, led |-> led, led_out |-> led_out]

Init ==
    /\ line = [w \in Wires |-> PoweredUp]
    /\ data_out = ResetWord /\ rw_state = FALSE /\ rand = Zero
    /\ led = 0 /\ led_out = Dark
    /\ select \in {"A_RAND", "LED"}
    /\ phase = "reset" /\ age = 0
    /\ cycle = NoCycle /\ acts = 1 /\ before = Registers

(* reg_file's address decoder has no default: it keeps what it last knew   *)
Decode(addr) == IF addr = "other" THEN select ELSE addr

\* Mutant: the shift without the mask.
NextRandomShift(r) == [i \in Bits |-> i < Width - 1 /\ r[i + 1]]

(* random >> 1, with the mask exclusive-ored in when the bit shifted out   *)
(* was set                                                                 *)
NextRandom(r) ==
    [i \in Bits |-> LET shifted == i < Width - 1 /\ r[i + 1]
                    IN  ~(shifted <=> (r[0] /\ i \in Taps))]

(* An edge of the clock pipes a sample in; out follows the two oldest when *)
(* they agree.  The sample of a wire that has just moved may be late by    *)
(* one clock (metastability), and a spike may replace one.                 *)
Samples(w) ==
    {Level(w)} \cup (IF Level(w) # line[w].level THEN {line[w].level}
                     ELSE IF w \in Noisy /\ line[w].clean >= Quiet
                          THEN {~Level(w)} ELSE {})

Counted(n, max) == IF n < max THEN n + 1 ELSE max

\* Mutant: out follows the oldest sample, spikes included.
ShiftUnfiltered(w, in) ==
    LET s == line[w].stage
    IN  [stage |-> [i \in 0 .. Stages - 1 |->
                       IF i = Stages - 1 THEN in ELSE s[i + 1]],
         out   |-> s[0],
         level |-> Level(w),
         clean |-> IF in = Level(w) THEN Counted(line[w].clean, Quiet) ELSE 0]

Shift(w, in) ==
    LET s == line[w].stage
    IN  [stage |-> [i \in 0 .. Stages - 1 |->
                       IF i = Stages - 1 THEN in ELSE s[i + 1]],
         out   |-> IF s[0] = s[1] THEN s[0] ELSE line[w].out,
         level |-> Level(w),
         clean |-> IF in = Level(w) THEN Counted(line[w].clean, Quiet) ELSE 0]

Limit == CASE phase = "strobe" -> Hold [] phase = "idle" -> Gap
           [] phase = "reset" -> ResetClocks [] OTHER -> 0

ShiftAll ==
    /\ \E in \in [Wires -> BOOLEAN] :
          /\ \A w \in Wires : in[w] \in Samples(w)
          /\ line' = [w \in Wires |-> Shift(w, in[w])]
    /\ age' = Counted(age, Limit)
    /\ UNCHANGED bus

(* reg_file sees the strobes as they were before this edge                 *)
rs_en == ~line["rs_n"].out /\ ~rw_state
ws_en == ~line["ws_n"].out /\ ~rw_state

Deselected ==
    /\ phase # "reset" /\ ~line["as"].out
    /\ rw_state' = FALSE
    /\ UNCHANGED <<data_out, rand, led, led_out, acts>>
    /\ ShiftAll

Wait ==
    /\ phase # "reset" /\ line["as"].out /\ ~rs_en /\ ~ws_en
    /\ UNCHANGED <<regs, acts>>
    /\ ShiftAll

Act == acts' = Counted(acts, 2) /\ rw_state' = TRUE

\* Mutant: a read returns the value after the advance.
ReadAdvanced ==
    /\ phase # "reset" /\ line["as"].out /\ rs_en
    /\ Act
    /\ IF select = "A_RAND"
       THEN rand' = NextRandom(rand) /\ data_out' = rand'
       ELSE UNCHANGED <<data_out, rand>>
    /\ UNCHANGED <<led, led_out>>
    /\ ShiftAll

Read ==
    /\ phase # "reset" /\ line["as"].out /\ rs_en
    /\ Act
    /\ IF select = "A_RAND"
       THEN data_out' = rand /\ rand' = NextRandom(rand)
       ELSE UNCHANGED <<data_out, rand>>
    /\ UNCHANGED <<led, led_out>>
    /\ ShiftAll

(* The data bus carries the program's word while its strobe lasts          *)
DataIn == IF phase = "strobe" /\ cycle.op = "write" THEN {cycle.data} ELSE Seeds

\* The lit bit moves up, and from the highest (8'b10000000) to the lowest.
\* Mutant: the highest light is not sent back to the lowest.
RotatedNoWrap(l) == l + 1
Rotated(l) == IF l = Lights - 1 THEN 0 ELSE l + 1

\* Mutant: the LEDs show the light just computed.
WriteShowsNew ==
    /\ phase # "reset" /\ line["as"].out /\ ~rs_en /\ ws_en
    /\ Act
    /\ IF select = "A_RAND"
       THEN /\ \E word \in DataIn : rand' = NextRandom(word)
            /\ UNCHANGED <<led, led_out>>
       ELSE led' = Rotated(led) /\ led_out' = led' /\ UNCHANGED rand
    /\ UNCHANGED data_out
    /\ ShiftAll

Write ==
    /\ phase # "reset" /\ line["as"].out /\ ~rs_en /\ ws_en
    /\ Act
    /\ IF select = "A_RAND"
       THEN /\ \E word \in DataIn : rand' = NextRandom(word)
            /\ UNCHANGED <<led, led_out>>
       ELSE /\ led_out' = led /\ led' = Rotated(led)
            /\ UNCHANGED rand
    /\ UNCHANGED data_out
    /\ ShiftAll

InReset ==
    /\ phase = "reset"
    /\ UNCHANGED <<regs, acts>>
    /\ ShiftAll

Clock == Deselected \/ Wait \/ Read \/ Write \/ InReset

(***************************************************************************)
(* The environment: bus cycles, and a system reset between them            *)
(***************************************************************************)
Move(from, to) == phase = from /\ phase' = to /\ age' = 0

Begin ==
    /\ Move("idle", "select") /\ age >= Gap
    /\ \E c \in Cycles : cycle' = c /\ select' = Decode(c.addr)
    /\ before' = Registers
    /\ acts' = 0
    /\ UNCHANGED <<line, regs>>

Strobe ==
    /\ Move("select", "strobe")
    /\ UNCHANGED <<line, regs, cycle, select, before, acts>>

Release ==
    /\ Move("strobe", "hold") /\ age >= Hold
    /\ UNCHANGED <<line, regs, cycle, select, before, acts>>

\* The address then belongs to the processor's other devices.
End ==
    /\ Move("hold", "idle")
    /\ \E addr \in Addresses : select' = Decode(addr)
    /\ UNCHANGED <<line, regs, cycle, before, acts>>

Reset ==
    /\ Move("idle", "reset")
    /\ data_out' = ResetWord /\ rw_state' = FALSE /\ led' = 0 /\ led_out' = Dark
    /\ UNCHANGED <<line, rand, cycle, select, before, acts>>

ResetDone ==
    /\ Move("reset", "idle") /\ age >= ResetClocks
    /\ before' = Registers
    /\ cycle' = NoCycle
    /\ UNCHANGED <<line, regs, select, acts>>

Next == Clock \/ Begin \/ Strobe \/ Release \/ End \/ Reset \/ ResetDone
Spec == Init /\ [][Next]_vars

(***************************************************************************)
(* Properties                                                              *)
(***************************************************************************)
\* Every variable has its type; the LED register is one of the board's.
Line == [stage : [0 .. Stages - 1 -> BOOLEAN], out : BOOLEAN,
         level : BOOLEAN, clean : 0 .. Quiet]
LedValues == 0 .. Lights - 1
TypeOK ==
    /\ line \in [Wires -> Line]
    /\ data_out \in Words /\ rw_state \in BOOLEAN /\ rand \in Words
    /\ led \in LedValues /\ led_out \in LedValues \cup {Dark}
    /\ select \in {"A_RAND", "LED"}
    /\ phase \in {"reset", "idle", "select", "strobe", "hold"}
    /\ age \in 0 .. Limit
    /\ cycle \in Cycles
    /\ acts \in 0 .. 2
    /\ before \in [rand : Words, led : LedValues, led_out : LedValues \cup {Dark}]

\* The registers act at most once in a bus cycle, never before its strobe,
\* and not again while the wires settle after it, whatever single-clock
\* spikes and late samples the wires give (rw_state, shift_reg.v's filter).
OncePerCycle == acts <= 1 /\ (phase = "select" => acts = 0)

Unchanged(field) ==
    CASE field = "rand" -> rand = before.rand
      [] field = "led"  -> led = before.led /\ led_out = before.led_out

\* A cycle's whole effect: a read of the generator has put its value on the
\* bus and advanced it, a write has seeded it with the cycle's own word, a
\* write of the LEDs has shown the next one, and neither has touched the
\* other register.
Served ==
    /\ acts = 1
    /\ cycle.addr = "A_RAND" =>
          /\ Unchanged("led")
          /\ IF cycle.op = "read"
             THEN data_out = before.rand /\ rand = NextRandom(before.rand)
             ELSE rand = NextRandom(cycle.data)
    /\ cycle.addr = "LED" =>
          /\ Unchanged("rand")
          /\ IF cycle.op = "read" THEN Unchanged("led")
             ELSE led_out = before.led /\ led = Rotated(before.led)

\* When the master releases its strobe the cycle has had its effect, and
\* nothing undoes it while the wires settle.
CycleServed == phase \in {"hold", "idle"} => Served

\* The LEDs show the light before the LED register's, or none since a
\* reset: one light, moving one place at a time and round again.
LedsInStep ==
    IF led_out = Dark THEN led = 0 ELSE led = Rotated(led_out)

\* The generator leaves zero, its value at power-up, only by a write, and
\* comes to zero only by a write of zero: reads alone never start it and
\* never stop it (the mask of next_random has the highest bit).
SeedKept ==
    [][(rand = Zero) # (rand' = Zero) =>
          /\ ws_en /\ select = "A_RAND"
          /\ rand' = Zero => Zero \in DataIn]_vars
=============================================================================
