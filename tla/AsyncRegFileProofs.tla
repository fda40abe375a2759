------------------------- MODULE AsyncRegFileProofs -------------------------
(***************************************************************************)
(* Theorems about AsyncRegFile for a synchroniser of any length, any       *)
(* timing, a generator of any width and any number of LEDs.                *)
(***************************************************************************)
EXTENDS AsyncRegFile, TLAPS

(***************************************************************************)
(* The generator.  The two directions of: next_random leads to zero from   *)
(* zero alone.  The second rests on the mask's highest bit, which shifted  *)
(* values never have.                                                      *)
(***************************************************************************)
LEMMA NextRandomType == \A r \in Words : NextRandom(r) \in Words
  BY DEF NextRandom, Words

LEMMA NextOfZero == NextRandom(Zero) = Zero
  <1>1. \A i \in Bits : i < Width - 1 => i + 1 \in Bits
    BY WordAssumption DEF Bits
  <1>2. 0 \in Bits
    BY WordAssumption DEF Bits
  <1>3. Zero[0] = FALSE /\ \A i \in Bits : i < Width - 1 => Zero[i + 1] = FALSE
    BY <1>1, <1>2 DEF Zero
  <1>4. \A i \in Bits : NextRandom(Zero)[i] = FALSE
    BY <1>3 DEF NextRandom
  <1> QED
    BY <1>4 DEF NextRandom, Zero

LEMMA OnlyZeroToZero ==
    ASSUME NEW r \in Words, NextRandom(r) = Zero
    PROVE  r = Zero
  <1>1. Width - 1 \in Bits /\ Width - 1 \in Taps /\ Width \in Nat \ {0}
    BY WordAssumption DEF Bits
  <1>2. \A i \in Bits : NextRandom(r)[i] = FALSE
    BY DEF Zero
  <1>3. r[0] = FALSE
    <2>1. NextRandom(r)[Width - 1] = ~(FALSE <=> r[0])
      <3>1. ~(Width - 1 < Width - 1)
        BY <1>1
      <3> QED
        BY <1>1, <3>1 DEF NextRandom
    <2>2. r[0] \in BOOLEAN
      BY WordAssumption DEF Words, Bits
    <2> QED
      BY <1>1, <1>2, <2>1, <2>2
  <1>4. ASSUME NEW i \in Bits, i # 0 PROVE r[i] = FALSE
    <2>1. i - 1 \in Bits /\ i - 1 < Width - 1 /\ (i - 1) + 1 = i
      BY <1>1, <1>4 DEF Bits
    <2>2. NextRandom(r)[i - 1] = ~(r[i] <=> FALSE)
      BY <1>3, <2>1 DEF NextRandom
    <2>3. r[i] \in BOOLEAN
      BY DEF Words
    <2> QED
      BY <1>2, <2>1, <2>2, <2>3
  <1>5. \A i \in Bits : r[i] = FALSE
    BY <1>3, <1>4
  <1> QED
    BY <1>5 DEF Words, Zero

(***************************************************************************)
(* Types                                                                   *)
(***************************************************************************)
LEMMA LevelType == \A w \in Wires : Level(w) \in BOOLEAN
  <1> SUFFICES ASSUME NEW w \in Wires PROVE Level(w) \in BOOLEAN
    OBVIOUS
  <1>1. CASE w = "as"
    <2>1. Level(w) = ~(phase \in {"reset", "idle"})
      BY <1>1, Zenon DEF Level
    <2> QED
      BY <2>1, Zenon
  <1>2. CASE w # "as"
    <2>1. Level(w) = ~(phase = "strobe" /\ w = StrobeOf(cycle.op))
      BY <1>2, Zenon DEF Level
    <2> QED
      BY <2>1, Zenon
  <1> QED
    BY <1>1, <1>2

LEMMA CountedType ==
    ASSUME NEW max \in Nat, NEW n \in 0 .. max
    PROVE  Counted(n, max) \in 0 .. max
  BY DEF Counted

LEMMA LimitType == Limit \in Nat
  BY TimeAssumption DEF Limit

LEMMA ShiftType ==
    ASSUME TypeOK, NEW w \in Wires, NEW in \in BOOLEAN
    PROVE  Shift(w, in) \in Line
  <1>1. line[w] \in Line
    BY DEF TypeOK
  <1>2. /\ line[w].stage \in [0 .. Stages - 1 -> BOOLEAN]
        /\ line[w].out \in BOOLEAN /\ line[w].clean \in 0 .. Quiet
    BY <1>1 DEF Line
  <1>3. 0 \in 0 .. Stages - 1
    BY SizeAssumption
  <1> DEFINE stages == [i \in 0 .. Stages - 1 |->
                          IF i = Stages - 1 THEN in ELSE line[w].stage[i + 1]]
  <1>4. stages \in [0 .. Stages - 1 -> BOOLEAN]
    <2>1. ASSUME NEW i \in 0 .. Stages - 1, i # Stages - 1
          PROVE  line[w].stage[i + 1] \in BOOLEAN
      <3>1. i + 1 \in 0 .. Stages - 1
        BY <2>1, SizeAssumption
      <3> QED
        BY <3>1, <1>2
    <2> QED
      BY <2>1
  <1>5. (IF line[w].stage[0] = line[w].stage[1]
         THEN line[w].stage[0] ELSE line[w].out) \in BOOLEAN
    BY <1>2, <1>3
  <1>6. (IF in = Level(w) THEN Counted(line[w].clean, Quiet) ELSE 0) \in 0 .. Quiet
    <2>1. Counted(line[w].clean, Quiet) \in 0 .. Quiet
      BY <1>2, CountedType, TimeAssumption
    <2>2. 0 \in 0 .. Quiet
      BY TimeAssumption
    <2> QED
      BY <2>1, <2>2
  <1>7. Level(w) \in BOOLEAN
    BY LevelType
  <1> QED
    BY <1>4, <1>5, <1>6, <1>7 DEF Shift, Line

LEMMA ShiftAllType ==
    ASSUME TypeOK, ShiftAll
    PROVE  line' \in [Wires -> Line] /\ age' \in 0 .. Limit'
  <1>1. PICK in \in [Wires -> BOOLEAN] : line' = [w \in Wires |-> Shift(w, in[w])]
    BY DEF ShiftAll
  <1>2. \A w \in Wires : Shift(w, in[w]) \in Line
    BY ShiftType
  <1>3. line' \in [Wires -> Line]
    BY <1>1, <1>2
  <1>4. Limit' = Limit
    BY DEF ShiftAll, bus, Limit
  <1>5. age' \in 0 .. Limit
    BY CountedType, LimitType DEF ShiftAll, TypeOK
  <1> QED
    BY <1>3, <1>4, <1>5

LEMMA RotatedType == \A l \in LedValues : Rotated(l) \in LedValues
  BY SizeAssumption DEF LedValues, Rotated

(* What a step does to the registers: the parts of TypeOK that are theirs  *)
RegsOK == /\ data_out \in Words /\ rw_state \in BOOLEAN /\ rand \in Words
          /\ led \in LedValues /\ led_out \in LedValues \cup {Dark}
          /\ acts \in 0 .. 2

BusOK == /\ select \in {"A_RAND", "LED"}
         /\ phase \in {"reset", "idle", "select", "strobe", "hold"}
         /\ cycle \in Cycles
         /\ before \in [rand : Words, led : LedValues,
                        led_out : LedValues \cup {Dark}]

LEMMA TypeParts ==
    TypeOK <=> RegsOK /\ BusOK /\ line \in [Wires -> Line] /\ age \in 0 .. Limit
  BY DEF TypeOK, RegsOK, BusOK

LEMMA ActType ==
    ASSUME TypeOK, Act
    PROVE  acts' \in 0 .. 2 /\ rw_state' \in BOOLEAN
  BY CountedType DEF Act, TypeOK

LEMMA SnapshotType ==
    ASSUME TypeOK
    PROVE  Registers \in [rand : Words, led : LedValues,
                          led_out : LedValues \cup {Dark}]
  BY DEF TypeOK, Registers

LEMMA ZeroType == Zero \in Words
  BY DEF Zero, Words

LEMMA NoCycleType == NoCycle \in Cycles
  BY DEF NoCycle, Cycles, Addresses

LEMMA InitType == Init => TypeOK
  <1> SUFFICES ASSUME Init PROVE TypeOK
    OBVIOUS
  <1>1. PoweredUp \in Line
    BY SizeAssumption, TimeAssumption DEF PoweredUp, Line
  <1>2. line \in [Wires -> Line] /\ age \in 0 .. Limit
    BY <1>1, LimitType DEF Init
  <1>3. 0 \in LedValues
    BY SizeAssumption DEF LedValues
  <1>4. RegsOK
    <2>1. data_out \in Words /\ rand \in Words
      BY ZeroType, WordAssumption DEF Init
    <2>2. rw_state \in BOOLEAN
      BY Zenon DEF Init
    <2>4. acts \in 0 .. 2
      BY DEF Init
    <2>3. led \in LedValues /\ led_out \in LedValues \cup {Dark}
      BY <1>3 DEF Init
    <2> QED
      BY <2>1, <2>2, <2>3, <2>4 DEF RegsOK
  <1>5. before \in [rand : Words, led : LedValues, led_out : LedValues \cup {Dark}]
    BY <1>3, ZeroType DEF Init, Registers
  <1>6. BusOK
    BY <1>5, NoCycleType DEF Init, BusOK
  <1> QED
    BY <1>2, <1>4, <1>6, TypeParts

LEMMA ClockType ==
    ASSUME TypeOK, Clock
    PROVE  TypeOK'
  <1>1. ShiftAll
    BY DEF Clock, Deselected, Wait, Read, Write, InReset
  <1>2. BusOK'
    <2>1. UNCHANGED <<phase, cycle, select, before>>
      BY <1>1 DEF ShiftAll, bus
    <2> QED
      BY <2>1, TypeParts DEF BusOK
  <1>3. RegsOK
    BY TypeParts
  <1>4. RegsOK'
    <2>1. CASE Deselected
      BY <2>1, <1>3 DEF Deselected, RegsOK
    <2>2. CASE Wait
      BY <2>2, <1>3 DEF Wait, RegsOK, regs
    <2>3. CASE Read
      <3>1. acts' \in 0 .. 2 /\ rw_state' \in BOOLEAN
        BY <2>3, ActType DEF Read
      <3>2. data_out' \in Words /\ rand' \in Words
        BY <2>3, <1>3, NextRandomType DEF Read, RegsOK
      <3>3. led' = led /\ led_out' = led_out
        BY <2>3 DEF Read
      <3> QED
        BY <3>1, <3>2, <3>3, <1>3 DEF RegsOK
    <2>4. CASE Write
      <3>1. acts' \in 0 .. 2 /\ rw_state' \in BOOLEAN
        BY <2>4, ActType DEF Write
      <3>2. DataIn \subseteq Words
        BY TypeParts, WordAssumption DEF DataIn, BusOK, Cycles
      <3>3. rand' \in Words
        BY <2>4, <3>2, <1>3, NextRandomType DEF Write, RegsOK
      <3>4. led' \in LedValues /\ led_out' \in LedValues \cup {Dark}
        BY <2>4, <1>3, RotatedType DEF Write, RegsOK
      <3>5. data_out' = data_out
        BY <2>4 DEF Write
      <3> QED
        BY <3>1, <3>3, <3>4, <3>5, <1>3 DEF RegsOK
    <2>5. CASE InReset
      BY <2>5, <1>3 DEF InReset, RegsOK, regs
    <2> QED
      BY <2>1, <2>2, <2>3, <2>4, <2>5 DEF Clock
  <1>5. line' \in [Wires -> Line] /\ age' \in 0 .. Limit'
    BY <1>1, ShiftAllType
  <1> QED
    BY <1>2, <1>4, <1>5 DEF TypeOK, RegsOK, BusOK

LEMMA EnvironmentType ==
    ASSUME TypeOK, Begin \/ Strobe \/ Release \/ End \/ Reset \/ ResetDone
    PROVE  TypeOK'
  <1>1. RegsOK /\ BusOK /\ line \in [Wires -> Line]
    BY TypeParts
  <1>2. /\ line' = line /\ age' = 0
        /\ phase' \in {"reset", "idle", "select", "strobe", "hold"}
    BY DEF Begin, Strobe, Release, End, Reset, ResetDone, Move
  <1>3. age' \in 0 .. Limit'
    BY <1>2, TimeAssumption DEF Limit
  <1>4. RegsOK'
    <2>1. CASE Reset
      <3>1. data_out' \in Words /\ rand' = rand /\ acts' = acts
        BY <2>1, WordAssumption DEF Reset
      <3>2. 0 \in LedValues
        BY SizeAssumption DEF LedValues
      <3>3. led' \in LedValues /\ led_out' \in LedValues \cup {Dark}
        BY <2>1, <3>2 DEF Reset
      <3>4. rw_state' \in BOOLEAN
        BY <2>1 DEF Reset
      <3> QED
        BY <1>1, <3>1, <3>3, <3>4 DEF RegsOK
    <2>2. CASE ~Reset
      <3>1. UNCHANGED regs /\ (acts' = acts \/ acts' = 0)
        BY <2>2 DEF Begin, Strobe, Release, End, ResetDone
      <3> QED
        BY <1>1, <3>1 DEF RegsOK, regs
    <2> QED
      BY <2>1, <2>2
  <1>5. before' \in [rand : Words, led : LedValues, led_out : LedValues \cup {Dark}]
    <2>1. before' = Registers \/ before' = before
      BY DEF Begin, Strobe, Release, End, Reset, ResetDone
    <2> QED
      BY <1>1, <2>1, SnapshotType DEF BusOK
  <1>6. cycle' \in Cycles
    BY <1>1, NoCycleType DEF Begin, Strobe, Release, End, Reset, ResetDone, BusOK
  <1>7. select' \in {"A_RAND", "LED"}
    <2>1. \A addr \in Addresses : Decode(addr) \in {"A_RAND", "LED"}
      BY <1>1 DEF Decode, Addresses, BusOK
    <2>2. \A c \in Cycles : c.addr \in Addresses
      BY DEF Cycles
    <2> QED
      BY <1>1, <2>1, <2>2 DEF Begin, Strobe, Release, End, Reset, ResetDone, BusOK
  <1> QED
    BY <1>1, <1>2, <1>3, <1>4, <1>5, <1>6, <1>7 DEF TypeOK, RegsOK, BusOK

LEMMA StutterType ==
    ASSUME TypeOK, UNCHANGED vars
    PROVE  TypeOK'
  BY DEF TypeOK, vars, regs, bus, Limit

(***************************************************************************)
(* Every reachable state of the register file is well typed; in particular *)
(* the LED register always holds one of the board's lights.                *)
(***************************************************************************)
THEOREM TypeCorrect == Spec => []TypeOK
  <1>1. TypeOK /\ [Next]_vars => TypeOK'
    BY ClockType, EnvironmentType, StutterType DEF Next
  <1> QED
    BY <1>1, InitType, PTL DEF Spec

(***************************************************************************)
(* The LEDs are always one place behind the LED register, or dark since a  *)
(* reset: only Write and Reset touch either, and both set the pair.        *)
(***************************************************************************)
THEOREM LedsAlwaysInStep == Spec => []LedsInStep
  <1>1. Init => LedsInStep
    BY DEF Init, LedsInStep
  <1>2. TypeOK /\ LedsInStep /\ [Next]_vars => LedsInStep'
    <2> SUFFICES ASSUME TypeOK, LedsInStep, [Next]_vars PROVE LedsInStep'
      OBVIOUS
    <2>1. led \in LedValues /\ ~(led = Dark)
      BY SizeAssumption DEF TypeOK, LedValues, Dark
    <2>2. \/ led' = led /\ led_out' = led_out
          \/ led' = Rotated(led) /\ led_out' = led
          \/ led' = 0 /\ led_out' = Dark
      BY DEF Next, Clock, Deselected, Wait, Read, Write, InReset, Begin, Strobe,
             Release, End, Reset, ResetDone, vars, regs
    <2> QED
      BY <2>1, <2>2 DEF LedsInStep, Rotated
  <1> QED
    BY <1>1, <1>2, TypeCorrect, PTL DEF Spec

(***************************************************************************)
(* Reads neither start a generator at zero nor bring another one there.    *)
(***************************************************************************)
THEOREM SeedAlwaysKept == Spec => SeedKept
  <1>1. TypeOK /\ [Next]_vars =>
          [(rand = Zero) # (rand' = Zero) =>
              /\ ws_en /\ select = "A_RAND"
              /\ rand' = Zero => Zero \in DataIn]_vars
    <2> SUFFICES ASSUME TypeOK, Next, (rand = Zero) # (rand' = Zero)
                 PROVE  /\ ws_en /\ select = "A_RAND"
                        /\ rand' = Zero => Zero \in DataIn
      OBVIOUS
    <2>1. rand \in Words /\ ~(rand' = rand)
      BY DEF TypeOK
    <2>2. \/ rand' = NextRandom(rand)
          \/ /\ ws_en /\ select = "A_RAND"
             /\ \E word \in DataIn : rand' = NextRandom(word)
      BY <2>1 DEF Next, Clock, Deselected, Wait, Read, Write, InReset, Begin,
             Strobe, Release, End, Reset, ResetDone, regs
    <2>3. rand' # NextRandom(rand)
      BY <2>1, NextOfZero, OnlyZeroToZero
    <2>4. ASSUME NEW word \in DataIn, NextRandom(word) = Zero
          PROVE  Zero \in DataIn
      <3>1. word \in Words
        BY WordAssumption DEF DataIn, TypeOK, Cycles, Zero, Words
      <3> QED
        BY <3>1, <2>4, OnlyZeroToZero
    <2> QED
      BY <2>2, <2>3, <2>4
  <1> QED
    BY <1>1, TypeCorrect, PTL DEF Spec, SeedKept

-------------------------------------------------------------------------------
(***************************************************************************)
(* When the registers act: exactly once in every bus cycle, for a          *)
(* synchroniser of any length, if the bus is slow enough for it.           *)
(***************************************************************************)
Strobes == {"rs_n", "ws_n"}
Last == Stages - 1

(* What the bus has to keep to.  Two samples that agree pass the filter,   *)
(* and of four in a row two neighbours do if no two spikes are closer than *)
(* three samples: so long must chip select be low, and so long a strobe    *)
(* after it has filled the synchroniser.                                   *)
SlowEnough ==
  /\ Stages >= 4 /\ Quiet >= 2 /\ Gap >= 4
  /\ Hold >= Stages + 4 /\ ResetClocks >= Stages + 3

(* From sample lo up to hi a wire was at v, except for isolated samples.   *)
Iso(w, v, lo, hi) ==
  \A i, j \in lo..hi - 1 :
    i < j /\ j <= i + 2 => line[w].stage[i] = v \/ line[w].stage[j] = v

(* It has been at v since sample p, and is.                                *)
Tail(w, v, p) ==
  /\ Iso(w, v, p, Stages)
  /\ p < Stages => line[w].level = v
  /\ p < Stages /\ line[w].stage[Last] # v => line[w].clean = 0
  /\ p < Last /\ line[w].stage[Last - 1] # v => line[w].clean <= 1

Pair(w, v, lo, hi) ==
  \E i \in lo..hi - 2 : line[w].stage[i] = v /\ line[w].stage[i + 1] = v

(* The output is at v or will be before sample hi gets out; before sample e*)
(* it is the sample at e that decides.                                     *)
Pending(w, v, e, hi) == Pair(w, v, e, hi) \/ (e = 0 /\ line[w].out = v)

(* In the synchronisers' first part: samples of an earlier cycle up to e,  *)
(* then those of the time between two cycles up to b.                      *)
Draining(e, b) ==
  /\ e = 0 \/ e + 4 <= b
  /\ Iso("as", TRUE, 0, e) /\ Iso("as", FALSE, e, b)
  /\ e > 0 => line["as"].out
  /\ line["as"].out => rw_state
  /\ Pending("as", FALSE, e, b)
  /\ \A x \in Strobes : Pending(x, TRUE, e, b)

(* With age - Stages clocks since the synchroniser is full of v, the       *)
(* output is at v or one of the next pairs will put it there.              *)
Soon(w, v) == line[w].out = v \/ Pair(w, v, 0, 4 - (age - Stages))

InReset1 ==
  /\ acts = 1 /\ ~rw_state
  /\ \E e, q \in 0..Stages :
       /\ e = 0 \/ e + age <= Stages
       /\ q = 0 \/ q + age <= Stages
       /\ Tail("as", FALSE, e) /\ \A x \in Strobes : Tail(x, TRUE, q)
  /\ age >= Stages => Soon("as", FALSE)

InIdle ==
  /\ Served
  /\ line["as"].out => rw_state
  /\ \E e \in 0..Stages :
       /\ e = 0 \/ e + age <= Stages
       /\ Iso("as", TRUE, 0, e) /\ Tail("as", FALSE, e)
       /\ \A x \in Strobes : Tail(x, TRUE, e)
       /\ e > 0 => line["as"].out

Fresh ==
  /\ acts = 0 /\ Registers = before
  /\ cycle.addr # "other" => select = cycle.addr

InSelect ==
  /\ Fresh
  /\ \E b \in 0..Stages :
       /\ Tail("as", TRUE, b)
       /\ IF b = 0
          THEN ~rw_state /\ \A x \in Strobes : Tail(x, TRUE, 0) /\ line[x].out
          ELSE \E e \in 0..b : Draining(e, b) /\ \A x \in Strobes : Tail(x, TRUE, e)

Begun == IF age < Stages THEN Stages - age ELSE 0

Acted == Served /\ rw_state /\ line["as"].out /\ Tail("as", TRUE, 0)

NotYet(x, y) ==
  /\ Fresh /\ age < Stages + 4
  /\ \E b \in 0..Begun :
       /\ Tail("as", TRUE, b)
       /\ IF b = 0
          THEN /\ ~rw_state /\ Tail(y, TRUE, 0) /\ line[y].out
               /\ age >= Stages => Soon("as", TRUE) /\ Soon(x, FALSE)
          ELSE \E e \in 0..b : Draining(e, b) /\ Tail(y, TRUE, e) /\ Iso(x, TRUE, e, Begun)

InStrobe ==
  \E x, y \in Strobes :
    /\ x = StrobeOf(cycle.op) /\ y # x
    /\ Tail(x, FALSE, Begun)
    /\ Acted \/ NotYet(x, y)

TInv ==
  /\ phase = "reset" => InReset1
  /\ phase = "idle" => InIdle
  /\ phase = "select" => InSelect
  /\ phase = "strobe" => InStrobe
  /\ phase = "hold" => Acted

-----------------------------------------------------------------------------
(* What an edge of the clock does to a synchroniser.                       *)
Down(n) == IF n = 0 THEN 0 ELSE n - 1

Shifted(w) ==
  /\ \A i \in 0..Stages - 2 : line'[w].stage[i] = line[w].stage[i + 1]
  /\ line'[w].out = IF line[w].stage[0] = line[w].stage[1]
                    THEN line[w].stage[0] ELSE line[w].out
  /\ line'[w].level = Level(w)
  /\ line'[w].stage[Last] \in Samples(w)
  /\ line'[w].clean = IF line'[w].stage[Last] = Level(w)
                      THEN Counted(line[w].clean, Quiet) ELSE 0

Sampled(w) ==
  /\ \A i \in 0..Stages - 1 : line[w].stage[i] \in BOOLEAN
  /\ line[w].out \in BOOLEAN /\ line[w].level \in BOOLEAN /\ line[w].clean \in 0..Quiet

LEMMA LineSampled == ASSUME TypeOK PROVE \A w \in Wires : Sampled(w)
  BY DEF TypeOK, Line, Sampled

LEMMA ClockShifts ==
  ASSUME TypeOK, ShiftAll
  PROVE  (\A w \in Wires : Shifted(w)) /\ age' = Counted(age, Limit) /\ UNCHANGED bus
<1>1. PICK in \in [Wires -> BOOLEAN] :
        /\ \A w \in Wires : in[w] \in Samples(w)
        /\ line' = [w \in Wires |-> Shift(w, in[w])]
  BY DEF ShiftAll
<1>2. ASSUME NEW w \in Wires PROVE Shifted(w)
  <2>1. line'[w] = Shift(w, in[w])
    BY <1>1
  <2>2. line'[w].stage = [i \in 0 .. Stages - 1 |->
                            IF i = Stages - 1 THEN in[w] ELSE line[w].stage[i + 1]]
    BY <2>1 DEF Shift
  <2>3. line'[w].stage[Last] = in[w]
    BY <2>2, SizeAssumption DEF Last
  <2>4. \A i \in 0..Stages - 2 : line'[w].stage[i] = line[w].stage[i + 1]
    BY <2>2, SizeAssumption
  <2> QED BY <1>1, <2>1, <2>3, <2>4 DEF Shift, Shifted
<1> QED BY <1>2 DEF ShiftAll

(* An interval moves towards the output with the samples in it.            *)
LEMMA IsoStep ==
  ASSUME NEW w \in Wires, NEW v \in BOOLEAN, Shifted(w),
         NEW lo \in 0..Stages, NEW hi \in 0..Stages, Iso(w, v, lo, hi)
  PROVE  Iso(w, v, Down(lo), Down(hi))'
<1> SUFFICES ASSUME NEW i \in Down(lo)..Down(hi) - 1, NEW j \in Down(lo)..Down(hi) - 1,
                    i < j, j <= i + 2
             PROVE  line'[w].stage[i] = v \/ line'[w].stage[j] = v
  BY DEF Iso
<1>1. /\ i \in 0..Stages - 2 /\ j \in 0..Stages - 2
      /\ i + 1 \in lo..hi - 1 /\ j + 1 \in lo..hi - 1
  BY SizeAssumption DEF Down
<1>2. line[w].stage[i + 1] = v \/ line[w].stage[j + 1] = v
  BY <1>1 DEF Iso
<1> QED BY <1>1, <1>2 DEF Shifted

(* The newest sample fits the others: a spike is not near another, nor     *)
(* near a late sample.                                                     *)
LEMMA TailStep ==
  ASSUME SlowEnough, NEW w \in Wires, Sampled(w), Sampled(w)', Shifted(w),
         NEW p \in 0..Stages, NEW v \in BOOLEAN, Level(w) = v, Tail(w, v, p)
  PROVE  Tail(w, v, Down(p))'
<1>1. Stages \in Nat /\ Stages >= 4 /\ Quiet \in Nat /\ Quiet >= 2 /\ Last = Stages - 1
  BY SizeAssumption, TimeAssumption DEF SlowEnough, Last
<1>2. line'[w].stage[Last] # v =>
        p = Stages \/ (line[w].clean >= 2 /\ line[w].level = v)
  <2>1. CASE p < Stages /\ line'[w].stage[Last] # v
    <3>1. line[w].level = v
      BY <2>1 DEF Tail
    <3>2. line'[w].stage[Last] \in {v} \cup (IF w \in Noisy /\ line[w].clean >= Quiet THEN {~v} ELSE {})
      BY <3>1 DEF Shifted, Samples
    <3> QED BY <1>1, <2>1, <3>1, <3>2 DEF Sampled
  <2> QED BY <1>1, <2>1
<1>3. ASSUME NEW i \in Down(p)..Stages - 1, NEW j \in Down(p)..Stages - 1, i < j, j <= i + 2
      PROVE  line'[w].stage[i] = v \/ line'[w].stage[j] = v
  <2>1. CASE j # Last
    <3>1. /\ i \in 0..Stages - 2 /\ j \in 0..Stages - 2
          /\ i + 1 \in p..Stages - 1 /\ j + 1 \in p..Stages - 1
      BY <1>1, <1>3, <2>1 DEF Down
    <3>2. line[w].stage[i + 1] = v \/ line[w].stage[j + 1] = v
      BY <1>3, <3>1 DEF Iso, Tail
    <3> QED BY <3>1, <3>2 DEF Shifted
  <2>2. CASE j = Last /\ line'[w].stage[Last] # v
    <3>1. i \in 0..Stages - 2 /\ i + 1 \in p..Stages - 1 /\ (i + 1 = Last \/ i + 1 = Last - 1) /\ p < Stages
      BY <1>1, <1>3, <2>2 DEF Down
    <3>2. line[w].clean >= 2
      BY <1>1, <1>2, <2>2, <3>1
    <3>3. line[w].stage[i + 1] = v
      BY <1>1, <3>1, <3>2 DEF Tail, Sampled
    <3> QED BY <3>1, <3>3 DEF Shifted
  <2> QED BY <2>1, <2>2
<1>4. Iso(w, v, Down(p), Stages)'
  BY <1>3 DEF Iso
<1>5. line'[w].level = v
  BY DEF Shifted
<1>6. line'[w].stage[Last] # v => line'[w].clean = 0
  BY DEF Shifted
<1>7. Down(p) < Last /\ line'[w].stage[Last - 1] # v => line'[w].clean <= 1
  <2>1. SUFFICES ASSUME Down(p) < Last, line'[w].stage[Last - 1] # v
                 PROVE  line'[w].clean <= 1
    OBVIOUS
  <2>2. p < Stages /\ Last - 1 \in 0..Stages - 2 /\ (Last - 1) + 1 = Last
    BY <1>1, <2>1 DEF Down
  <2>3. line[w].stage[Last] # v
    BY <2>1, <2>2 DEF Shifted
  <2>4. line[w].clean = 0
    BY <2>2, <2>3 DEF Tail
  <2> QED BY <1>1, <2>4 DEF Shifted, Counted
<1> QED BY <1>4, <1>5, <1>6, <1>7 DEF Tail

(* Two samples that disagree with the output, one after the other, are     *)
(* needed to change it.                                                    *)
LEMMA KeepOut ==
  ASSUME SlowEnough, NEW w \in Wires, NEW v \in BOOLEAN, Sampled(w), Shifted(w),
         NEW hi \in 2..Stages, Iso(w, v, 0, hi), line[w].out = v
  PROVE  line'[w].out = v
<1>1. 0 \in 0..hi - 1 /\ 1 \in 0..hi - 1 /\ 0 \in 0..Stages - 1 /\ 1 \in 0..Stages - 1
  BY SizeAssumption
<1>2. line[w].stage[0] = v \/ line[w].stage[1] = v
  BY <1>1 DEF Iso
<1> QED BY <1>1, <1>2 DEF Shifted, Sampled

(* Of four samples of which no two near ones are wrong, two neighbours are *)
(* right.                                                                  *)
LEMMA FourHavePair ==
  ASSUME NEW w \in Wires, NEW v \in BOOLEAN, NEW lo \in Nat, NEW hi \in Nat,
         lo + 4 <= hi, Iso(w, v, lo, hi)
  PROVE  Pair(w, v, lo, lo + 4) /\ Pair(w, v, lo, hi)
<1>1. lo \in lo..hi - 1 /\ lo + 1 \in lo..hi - 1 /\ lo + 2 \in lo..hi - 1 /\ lo + 3 \in lo..hi - 1
  OBVIOUS
<1>2. /\ line[w].stage[lo] = v \/ line[w].stage[lo + 1] = v
      /\ line[w].stage[lo] = v \/ line[w].stage[lo + 2] = v
      /\ line[w].stage[lo + 1] = v \/ line[w].stage[lo + 2] = v
      /\ line[w].stage[lo + 1] = v \/ line[w].stage[lo + 3] = v
      /\ line[w].stage[lo + 2] = v \/ line[w].stage[lo + 3] = v
  BY <1>1 DEF Iso
<1>3. \E i \in {lo, lo + 1, lo + 2} : line[w].stage[i] = v /\ line[w].stage[i + 1] = v
  <2>1. (lo + 1) + 1 = lo + 2 /\ (lo + 2) + 1 = lo + 3
    OBVIOUS
  <2> QED BY <1>2, <2>1
<1>4. {lo, lo + 1, lo + 2} \subseteq lo..(lo + 4) - 2 /\ {lo, lo + 1, lo + 2} \subseteq lo..hi - 2
  OBVIOUS
<1> QED BY <1>3, <1>4 DEF Pair

LEMMA PairStep ==
  ASSUME NEW w \in Wires, NEW v \in BOOLEAN, Shifted(w), NEW hi \in 0..Stages,
         NEW i \in 0..hi - 2, line[w].stage[i] = v, line[w].stage[i + 1] = v
  PROVE  IF i = 0 THEN line'[w].out = v
         ELSE line'[w].stage[i - 1] = v /\ line'[w].stage[(i - 1) + 1] = v
<1>1. CASE i = 0
  BY <1>1 DEF Shifted
<1>2. CASE i # 0
  <2>1. i - 1 \in 0..Stages - 2 /\ i \in 0..Stages - 2 /\ (i - 1) + 1 = i
    BY <1>2, SizeAssumption
  <2> QED BY <1>2, <2>1 DEF Shifted
<1> QED BY <1>1, <1>2

(* What is pending comes nearer, or is reached and stays.                  *)
LEMMA PendingStep ==
  ASSUME SlowEnough, NEW w \in Wires, NEW v \in BOOLEAN, Sampled(w), Shifted(w),
         NEW e \in 0..Stages, NEW b \in 2..Stages, e <= b,
         Iso(w, v, e, b), Pending(w, v, e, b)
  PROVE  Pending(w, v, Down(e), Down(b))'
<1>1. CASE Pair(w, v, e, b)
  <2>1. PICK i \in e..b - 2 : line[w].stage[i] = v /\ line[w].stage[i + 1] = v
    BY <1>1 DEF Pair
  <2>2. i \in 0..b - 2
    BY <2>1
  <2>3. CASE i = 0
    <3>1. e = 0
      BY <2>1, <2>3
    <3> QED BY <2>1, <2>2, <2>3, <3>1, PairStep DEF Pending, Down
  <2>4. CASE i # 0
    <3>1. line'[w].stage[i - 1] = v /\ line'[w].stage[(i - 1) + 1] = v
      BY <2>1, <2>2, <2>4, PairStep
    <3>2. i - 1 \in Down(e)..Down(b) - 2
      BY <2>1, <2>4, SizeAssumption DEF Down
    <3> QED BY <3>1, <3>2 DEF Pending, Pair
  <2> QED BY <2>3, <2>4
<1>2. CASE e = 0 /\ line[w].out = v
  <2>1. line'[w].out = v
    BY <1>2, KeepOut
  <2> QED BY <1>2, <2>1 DEF Pending, Down
<1> QED BY <1>1, <1>2 DEF Pending

LEMMA SoonStep ==
  ASSUME SlowEnough, NEW w \in Wires, NEW v \in BOOLEAN, Sampled(w), Shifted(w),
         age \in Nat, age >= Stages, age' = age + 1, Iso(w, v, 0, Stages), Soon(w, v)
  PROVE  Soon(w, v)'
<1>1. CASE line[w].out = v
  BY <1>1, KeepOut, SizeAssumption DEF Soon, SlowEnough
<1>2. CASE Pair(w, v, 0, 4 - (age - Stages))
  <2>1. PICK i \in 0..(4 - (age - Stages)) - 2 : line[w].stage[i] = v /\ line[w].stage[i + 1] = v
    BY <1>2 DEF Pair
  <2>2. i \in 0..Stages - 2
    BY <2>1, SizeAssumption DEF SlowEnough
  <2>3. CASE i = 0
    BY <2>1, <2>2, <2>3, PairStep, SizeAssumption DEF Soon
  <2>4. CASE i # 0
    <3>1. line'[w].stage[i - 1] = v /\ line'[w].stage[(i - 1) + 1] = v
      BY <2>1, <2>2, <2>4, PairStep, SizeAssumption
    <3>2. i - 1 \in 0..(4 - (age' - Stages)) - 2
      BY <2>1, <2>4, SizeAssumption
    <3> QED BY <3>1, <3>2 DEF Soon, Pair
  <2> QED BY <2>3, <2>4
<1> QED BY <1>1, <1>2 DEF Soon

(* A full synchroniser has a pair in its first four stages.                *)
LEMMA SoonStarts ==
  ASSUME SlowEnough, NEW w \in Wires, NEW v \in BOOLEAN, age = Stages, Iso(w, v, 0, Stages)
  PROVE  Soon(w, v)
<1>1. Pair(w, v, 0, 0 + 4)
  BY FourHavePair, SizeAssumption DEF SlowEnough
<1>2. 4 - (age - Stages) = 4 /\ 0 + 4 = 4
  BY SizeAssumption
<1> QED BY <1>1, <1>2 DEF Soon

(* After three more clocks the output is there.                            *)
LEMMA SoonEnds ==
  ASSUME NEW w \in Wires, NEW v \in BOOLEAN, age \in Nat, age >= Stages + 3, Soon(w, v)
  PROVE  line[w].out = v
BY SizeAssumption DEF Soon, Pair

-----------------------------------------------------------------------------
(* The registers at an edge of the clock at which nothing is enabled.      *)
LEMMA ClockParts ==
  ASSUME TypeOK, Clock
  PROVE  /\ \A w \in Wires : Sampled(w) /\ Sampled(w)' /\ Shifted(w)
         /\ age' = Counted(age, Limit) /\ age \in 0..Limit /\ Limit \in Nat /\ TypeOK'
         /\ phase' = phase /\ cycle' = cycle /\ before' = before /\ select' = select
<1>1. ShiftAll
  BY DEF Clock, Deselected, Wait, Read, Write, InReset
<1>2. TypeOK'
  BY ClockType
<1>3. \A w \in Wires : Sampled(w)'
  <2>1. line' \in [Wires -> Line]
    BY <1>2 DEF TypeOK
  <2>2. ASSUME NEW w \in Wires PROVE Sampled(w)'
    <3>1. line'[w] \in Line
      BY <2>1
    <3> QED BY <3>1 DEF Line, Sampled
  <2> QED BY <2>2
<1> QED BY <1>1, <1>2, <1>3, LineSampled, ClockShifts, LimitType DEF bus, TypeOK

LEMMA NothingEnabled ==
  ASSUME TypeOK, Clock, phase # "reset",
         line["as"].out => rw_state \/ (line["rs_n"].out /\ line["ws_n"].out)
  PROVE  /\ UNCHANGED <<data_out, rand, led, led_out, acts>>
         /\ rw_state' = (line["as"].out /\ rw_state)
<1>1. rw_state \in BOOLEAN /\ line["as"].out \in BOOLEAN
  BY LineSampled DEF TypeOK, Sampled, Wires
<1>2. ~(line["as"].out /\ rs_en) /\ ~(line["as"].out /\ ws_en)
  BY DEF rs_en, ws_en
<1>3. Deselected \/ Wait
  BY <1>2 DEF Clock, Read, Write, InReset
<1> QED BY <1>1, <1>3 DEF Deselected, Wait, regs

LEMMA ServedKept ==
  ASSUME Served, UNCHANGED <<data_out, rand, led, led_out, acts, cycle, before>>
  PROVE  Served'
BY DEF Served, Unchanged

(* What is left of an earlier cycle moves out, and clears rw_state.        *)
LEMMA DrainingStep ==
  ASSUME SlowEnough, TypeOK, NEW e \in 0..Stages, NEW b \in 2..Stages, e <= b,
         \A w \in Wires : Sampled(w) /\ Shifted(w),
         rw_state' = (line["as"].out /\ rw_state),
         Draining(e, b), \A x \in Strobes : Iso(x, TRUE, e, b)
  PROVE  Draining(Down(e), Down(b))'
<1>1. /\ "as" \in Wires /\ Sampled("as") /\ Shifted("as") /\ rw_state \in BOOLEAN
      /\ Strobes \subseteq Wires /\ Stages \in Nat
      /\ 0 \in 0..Stages /\ b \in 0..Stages /\ TRUE \in BOOLEAN /\ FALSE \in BOOLEAN
  BY SizeAssumption DEF Wires, Strobes, TypeOK
<1>2. Down(e) = 0 \/ Down(e) + 4 <= Down(b)
  BY DEF Draining, Down
<1>3. Iso("as", TRUE, 0, Down(e))' /\ Iso("as", FALSE, Down(e), Down(b))'
  <2> USE DEF Draining
  <2>1. Iso("as", TRUE, Down(0), Down(e))'
    <3>1. Iso("as", TRUE, 0, e)
      OBVIOUS
    <3> QED BY <1>1, <3>1, IsoStep
  <2>2. Down(0) = 0
    BY DEF Down
  <2>3. Iso("as", FALSE, Down(e), Down(b))'
    <3>1. Iso("as", FALSE, e, b)
      OBVIOUS
    <3> QED BY <1>1, <3>1, IsoStep
  <2> QED BY <2>1, <2>2, <2>3
<1>4. Down(e) > 0 => line'["as"].out
  <2>1. SUFFICES ASSUME Down(e) > 0 PROVE line'["as"].out
    OBVIOUS
  <2>2. e \in 2..Stages /\ line["as"].out
    BY <2>1 DEF Down, Draining
  <2>3. line["as"].out = TRUE
    BY <1>1, <2>2 DEF Sampled
  <2> QED BY <1>1, <2>2, <2>3, KeepOut DEF Draining
<1>5. line'["as"].out => rw_state'
  <2>1. CASE line["as"].out
    BY <2>1 DEF Draining
  <2>2. CASE ~line["as"].out
    <3>1. e = 0 /\ line["as"].out = FALSE
      BY <1>1, <2>2 DEF Draining, Sampled
    <3>2. line'["as"].out = FALSE
      BY <1>1, <3>1, KeepOut DEF Draining
    <3> QED BY <3>2
  <2> QED BY <2>1, <2>2
<1>6. Pending("as", FALSE, Down(e), Down(b))'
  BY <1>1, PendingStep DEF Draining
<1>7. \A x \in Strobes : Pending(x, TRUE, Down(e), Down(b))'
  BY <1>1, PendingStep DEF Draining
<1> QED BY <1>2, <1>3, <1>4, <1>5, <1>6, <1>7 DEF Draining

(* When its last sample gets out, rw_state is clear and the strobes high.  *)
LEMMA Drained ==
  ASSUME TypeOK, NEW e \in 0..Stages, e <= 1, Draining(e, 1), \A w \in Wires : Sampled(w)
  PROVE  e = 0 /\ line["as"].out = FALSE /\ \A x \in Strobes : line[x].out = TRUE
BY DEF Draining, Pending, Pair

LEMMA DrainingQuiet ==
  ASSUME TypeOK, Clock, phase # "reset", NEW e, NEW b, Draining(e, b)
  PROVE  /\ UNCHANGED <<data_out, rand, led, led_out, acts>>
         /\ rw_state' = (line["as"].out /\ rw_state)
BY NothingEnabled DEF Draining

LEMMA Levels ==
  ASSUME TypeOK
  PROVE  /\ phase \in {"reset", "idle"} =>
              Level("as") = FALSE /\ \A x \in Strobes : Level(x) = TRUE
         /\ phase \in {"select", "hold"} =>
              Level("as") = TRUE /\ \A x \in Strobes : Level(x) = TRUE
         /\ phase = "strobe" =>
              /\ Level("as") = TRUE
              /\ \A x \in Strobes : Level(x) = (x # StrobeOf(cycle.op))
BY DEF Level, Strobes

LEMMA IsoPart ==
  ASSUME NEW w, NEW v, NEW lo \in Nat, NEW hi \in Nat, NEW mid \in Nat, mid <= hi,
         Iso(w, v, lo, hi)
  PROVE  Iso(w, v, lo, mid)
<1>1. lo..mid - 1 \subseteq lo..hi - 1
  OBVIOUS
<1> QED BY <1>1 DEF Iso

(* Nothing fits a tail that has not begun.                                 *)
LEMMA EmptyTail == ASSUME NEW w, NEW v PROVE Tail(w, v, Stages)
BY SizeAssumption DEF Tail, Iso, Last

SoonWhenFull ==
  \A w \in Wires, v \in BOOLEAN :
    SlowEnough /\ age = Stages /\ Iso(w, v, 0, Stages) => Soon(w, v)

LEMMA FullIsSoon == SoonWhenFull
BY SoonStarts DEF SoonWhenFull

LEMMA FullIsSoonNext == SoonWhenFull'
BY FullIsSoon, PTL

LEMMA SoonClock ==
  ASSUME SlowEnough, NEW w \in Wires, NEW v \in BOOLEAN, Sampled(w), Shifted(w),
         age \in Nat, age' = age + 1 \/ (age' = age /\ age >= Stages + 3), age' >= Stages,
         Iso(w, v, 0, Stages)', age >= Stages => Iso(w, v, 0, Stages) /\ Soon(w, v)
  PROVE  Soon(w, v)'
<1>1. CASE age' = Stages
  BY <1>1, FullIsSoonNext, SizeAssumption DEF SoonWhenFull
<1>2. CASE age' = age + 1 /\ age' > Stages
  <2>1. age >= Stages
    BY <1>2, SizeAssumption
  <2> QED BY <1>2, <2>1, SoonStep
<1>3. CASE age' = age /\ age >= Stages + 3
  <2>1. age >= Stages
    BY <1>3, SizeAssumption
  <2>2. line[w].out = v
    BY <1>3, <2>1, SoonEnds
  <2>3. Stages \in 2..Stages
    BY SizeAssumption
  <2>4. line'[w].out = v
    BY <2>1, <2>2, <2>3, KeepOut
  <2> QED BY <2>4 DEF Soon
<1> QED BY <1>1, <1>2, <1>3, SizeAssumption

(***************************************************************************)
(* One edge of the clock in each phase                                     *)
(***************************************************************************)
LEMMA ResetClock ==
  ASSUME SlowEnough, TypeOK, Clock, phase = "reset", InReset1
  PROVE  InReset1'
<1>1. /\ \A w \in Wires : Sampled(w) /\ Sampled(w)' /\ Shifted(w)
      /\ age' = Counted(age, Limit) /\ age \in 0..Limit /\ Limit \in Nat
  BY ClockParts
<1>2. Limit = ResetClocks /\ ResetClocks >= Stages + 3 /\ Stages \in Nat /\ Stages >= 4
  BY SizeAssumption DEF Limit, SlowEnough
<1>3. age \in Nat /\ (age' = age + 1 \/ (age' = age /\ age >= Stages + 3))
  BY <1>1, <1>2 DEF Counted
<1>4. UNCHANGED <<rw_state, acts>>
  BY DEF Clock, Deselected, Wait, Read, Write, InReset, regs
<1>5. PICK e \in 0..Stages, q \in 0..Stages :
        /\ e = 0 \/ e + age <= Stages
        /\ q = 0 \/ q + age <= Stages
        /\ Tail("as", FALSE, e) /\ \A x \in Strobes : Tail(x, TRUE, q)
  BY DEF InReset1
<1>6. "as" \in Wires /\ Strobes \subseteq Wires
  BY DEF Wires, Strobes
<1>7. Tail("as", FALSE, Down(e))'
  BY <1>1, <1>5, <1>6, TailStep, Levels
<1>8. \A x \in Strobes : Tail(x, TRUE, Down(q))'
  BY <1>1, <1>5, <1>6, TailStep, Levels
<1>9. \A n \in 0..Stages : n = 0 \/ n + age <= Stages =>
        Down(n) \in 0..Stages /\ (Down(n) = 0 \/ Down(n) + age' <= Stages)
  BY <1>2, <1>3 DEF Down
<1>10. age' >= Stages => Soon("as", FALSE)'
  <2> SUFFICES ASSUME age' >= Stages PROVE Soon("as", FALSE)'
    OBVIOUS
  <2>1. Down(e) = 0
    BY <1>2, <1>3, <1>5 DEF Down
  <2>2. Iso("as", FALSE, 0, Stages)'
    BY <1>7, <2>1 DEF Tail
  <2>3. age >= Stages => e = 0
    BY <1>2, <1>3, <1>5
  <2>4. age >= Stages => Iso("as", FALSE, 0, Stages) /\ Soon("as", FALSE)
    BY <1>5, <2>3 DEF Tail, InReset1
  <2> QED BY <1>1, <1>3, <1>6, <2>2, <2>4, SoonClock
<1>11. Down(e) \in 0..Stages /\ Down(q) \in 0..Stages
  BY <1>5, <1>9
<1>12. (Down(e) = 0 \/ Down(e) + age' <= Stages) /\ (Down(q) = 0 \/ Down(q) + age' <= Stages)
  BY <1>5, <1>9
<1>13. acts' = 1 /\ ~rw_state'
  BY <1>4 DEF InReset1
<1> QED BY <1>7, <1>8, <1>10, <1>11, <1>12, <1>13 DEF InReset1

LEMMA IdleClock ==
  ASSUME SlowEnough, TypeOK, Clock, phase = "idle", InIdle
  PROVE  InIdle'
<1>1. /\ \A w \in Wires : Sampled(w) /\ Sampled(w)' /\ Shifted(w)
      /\ age' = Counted(age, Limit) /\ age \in 0..Limit /\ Limit \in Nat
      /\ cycle' = cycle /\ before' = before
  BY ClockParts
<1>2. age \in Nat /\ (age' = age + 1 \/ age' = age) /\ Stages \in Nat /\ Stages >= 4
  BY <1>1, SizeAssumption DEF Counted, SlowEnough
<1>3. /\ UNCHANGED <<data_out, rand, led, led_out, acts>>
      /\ rw_state' = (line["as"].out /\ rw_state)
  BY NothingEnabled DEF InIdle
<1>4. PICK e \in 0..Stages :
        /\ e = 0 \/ e + age <= Stages
        /\ Iso("as", TRUE, 0, e) /\ Tail("as", FALSE, e)
        /\ \A x \in Strobes : Tail(x, TRUE, e)
        /\ e > 0 => line["as"].out
  BY DEF InIdle
<1>5. "as" \in Wires /\ Strobes \subseteq Wires /\ Sampled("as") /\ Shifted("as")
  BY <1>1 DEF Wires, Strobes
<1>6. Tail("as", FALSE, Down(e))' /\ \A x \in Strobes : Tail(x, TRUE, Down(e))'
  BY <1>1, <1>4, <1>5, TailStep, Levels
<1>7. Iso("as", TRUE, 0, Down(e))'
  <2>1. Iso("as", TRUE, Down(0), Down(e))'
    <3>1. Iso("as", TRUE, 0, e)
      BY <1>4, Zenon
    <3>2. 0 \in 0..Stages
      BY <1>2
    <3> QED BY <1>5, <3>1, <3>2, IsoStep
  <2> QED BY <2>1 DEF Down
<1>8. Down(e) > 0 => line'["as"].out
  <2> SUFFICES ASSUME Down(e) > 0 PROVE line'["as"].out
    OBVIOUS
  <2>1. e \in 2..Stages /\ line["as"].out = TRUE
    BY <1>4, <1>5 DEF Down, Sampled
  <2> QED BY <1>4, <1>5, <2>1, KeepOut
<1>9. line'["as"].out => rw_state'
  <2>1. CASE line["as"].out
    BY <1>3, <2>1 DEF InIdle
  <2>2. CASE ~line["as"].out
    <3>1. e = 0 /\ line["as"].out = FALSE
      BY <1>4, <1>5, <2>2 DEF Sampled
    <3>2. Iso("as", FALSE, 0, Stages)
      BY <1>4, <3>1, Zenon DEF Tail
    <3>3. Stages \in 2..Stages
      BY <1>2
    <3>4. line'["as"].out = FALSE
      BY <1>5, <3>1, <3>2, <3>3, KeepOut
    <3> QED BY <3>4
  <2> QED BY <2>1, <2>2
<1>10. Served'
  BY <1>1, <1>3, ServedKept DEF InIdle
<1>11. Down(e) \in 0..Stages /\ (Down(e) = 0 \/ Down(e) + age' <= Stages)
  BY <1>2, <1>4 DEF Down
<1> QED BY <1>6, <1>7, <1>8, <1>9, <1>10, <1>11 DEF InIdle

(* While an earlier cycle drains, nothing acts.                            *)
LEMMA DrainingClock ==
  ASSUME SlowEnough, TypeOK, Clock, phase \in {"select", "strobe"},
         NEW b \in 1..Stages, NEW e \in 0..b, Tail("as", TRUE, b), Draining(e, b),
         \A x \in Strobes : Iso(x, TRUE, e, b)
  PROVE  /\ UNCHANGED <<data_out, rand, led, led_out, acts>>
         /\ Down(b) \in 0..Stages /\ Down(e) \in 0..Down(b)
         /\ Tail("as", TRUE, Down(b))'
         /\ IF b = 1 THEN ~rw_state' /\ e = 0 /\ \A x \in Strobes : line[x].out = TRUE
            ELSE Draining(Down(e), Down(b))'
<1>1. \A w \in Wires : Sampled(w) /\ Sampled(w)' /\ Shifted(w)
  BY ClockParts
<1>2. /\ UNCHANGED <<data_out, rand, led, led_out, acts>>
      /\ rw_state' = (line["as"].out /\ rw_state)
  BY DrainingQuiet
<1>3. Stages \in Nat /\ b \in 0..Stages /\ e \in 0..Stages /\ e <= b
  BY SizeAssumption
<1>4. Down(b) \in 0..Stages /\ Down(e) \in 0..Down(b)
  BY <1>3 DEF Down
<1>5. Tail("as", TRUE, Down(b))'
  <2>1. "as" \in Wires /\ Level("as") = TRUE
    BY Levels DEF Wires
  <2> QED BY <1>1, <1>3, <2>1, TailStep
<1>6. CASE b = 1
  <2>1. e = 0 /\ line["as"].out = FALSE /\ \A x \in Strobes : line[x].out = TRUE
    <3>1. e <= 1 /\ Draining(e, 1)
      BY <1>3, <1>6
    <3> QED BY <1>1, <1>3, <3>1, Drained
  <2> QED BY <1>2, <1>4, <1>5, <1>6, <2>1
<1>7. CASE b # 1
  <2>1. b \in 2..Stages
    BY <1>3, <1>7
  <2>2. Draining(Down(e), Down(b))'
    BY <1>1, <1>2, <1>3, <2>1, DrainingStep
  <2> QED BY <1>2, <1>4, <1>5, <1>7, <2>2
<1> QED BY <1>6, <1>7

LEMMA FreshKept ==
  ASSUME Fresh, UNCHANGED <<data_out, rand, led, led_out, acts, cycle, before, select>>
  PROVE  Fresh'
BY DEF Fresh, Registers

LEMMA SelectClock ==
  ASSUME SlowEnough, TypeOK, Clock, phase = "select", InSelect
  PROVE  InSelect'
<1>1. /\ \A w \in Wires : Sampled(w) /\ Sampled(w)' /\ Shifted(w)
      /\ cycle' = cycle /\ before' = before /\ select' = select
  BY ClockParts
<1>2. Stages \in Nat /\ Stages >= 4 /\ "as" \in Wires /\ Strobes \subseteq Wires
  BY SizeAssumption DEF SlowEnough, Wires, Strobes
<1>3. Level("as") = TRUE /\ \A x \in Strobes : Level(x) = TRUE
  BY Levels
<1>4. PICK b \in 0..Stages :
        /\ Tail("as", TRUE, b)
        /\ IF b = 0
           THEN ~rw_state /\ \A x \in Strobes : Tail(x, TRUE, 0) /\ line[x].out
           ELSE \E e \in 0..b : Draining(e, b) /\ \A x \in Strobes : Tail(x, TRUE, e)
  BY DEF InSelect
<1>5. Fresh
  BY DEF InSelect
<1>6. ASSUME NEW x \in Strobes, Tail(x, TRUE, 0), line[x].out = TRUE
      PROVE  Tail(x, TRUE, 0)' /\ line'[x].out
  <2>1. 0 \in 0..Stages /\ Stages \in 2..Stages
    BY <1>2
  <2>2. Tail(x, TRUE, Down(0))'
    BY <1>1, <1>2, <1>3, <1>6, <2>1, TailStep
  <2>3. Iso(x, TRUE, 0, Stages)
    BY <1>6, Zenon DEF Tail
  <2>4. line'[x].out = TRUE
    BY <1>1, <1>2, <1>6, <2>1, <2>3, KeepOut
  <2> QED BY <2>2, <2>4 DEF Down
<1>7. CASE b = 0
  <2>1. ~rw_state /\ \A x \in Strobes : Tail(x, TRUE, 0) /\ line[x].out
    BY <1>4, <1>7
  <2>2. line["rs_n"].out /\ line["ws_n"].out
    BY <2>1 DEF Strobes
  <2>3. UNCHANGED <<data_out, rand, led, led_out, acts>> /\ ~rw_state'
    BY <2>1, <2>2, NothingEnabled
  <2>4. \A x \in Strobes : line[x].out = TRUE
    BY <1>1, <1>2, <2>1 DEF Sampled
  <2>5. Tail("as", TRUE, Down(0))'
    BY <1>1, <1>2, <1>3, <1>4, <1>7, TailStep
  <2>6. Down(0) = 0 /\ 0 \in 0..Stages
    BY <1>2 DEF Down
  <2> QED BY <1>1, <1>5, <1>6, <2>1, <2>3, <2>4, <2>5, <2>6, FreshKept DEF InSelect
<1>8. CASE b # 0
  <2>1. PICK e \in 0..b : Draining(e, b) /\ \A x \in Strobes : Tail(x, TRUE, e)
    BY <1>4, <1>8
  <2>2. b \in 1..Stages /\ e \in 0..Stages
    BY <1>2, <1>8
  <2>3. \A x \in Strobes : Iso(x, TRUE, e, b)
    <3>1. \A x \in Strobes : Iso(x, TRUE, e, Stages)
      BY <2>1, Zenon DEF Tail
    <3>2. e \in Nat /\ b \in Nat /\ b <= Stages
      BY <1>2, <2>2
    <3> QED BY <1>2, <3>1, <3>2, IsoPart
  <2>4. /\ UNCHANGED <<data_out, rand, led, led_out, acts>>
        /\ Down(b) \in 0..Stages /\ Down(e) \in 0..Down(b)
        /\ Tail("as", TRUE, Down(b))'
        /\ IF b = 1 THEN ~rw_state' /\ e = 0 /\ \A x \in Strobes : line[x].out = TRUE
           ELSE Draining(Down(e), Down(b))'
    BY <1>4, <2>1, <2>2, <2>3, DrainingClock
  <2>5. Fresh'
    BY <1>1, <1>5, <2>4, FreshKept
  <2>6. CASE b = 1
    <3>1. Down(b) = 0 /\ ~rw_state' /\ e = 0 /\ \A x \in Strobes : line[x].out = TRUE
      BY <2>4, <2>6 DEF Down
    <3>2. \A x \in Strobes : Tail(x, TRUE, 0)
      BY <2>1, <3>1
    <3> QED BY <1>6, <2>4, <2>5, <3>1, <3>2 DEF InSelect
  <2>7. CASE b # 1
    <3>1. \A x \in Strobes : Tail(x, TRUE, Down(e))'
      BY <1>1, <1>2, <1>3, <2>1, <2>2, TailStep
    <3>2. Down(b) # 0
      BY <2>2, <2>7 DEF Down
    <3> QED BY <2>4, <2>5, <2>7, <3>1, <3>2 DEF InSelect
  <2> QED BY <2>6, <2>7
<1> QED BY <1>7, <1>8

(* Once the registers have acted, rw_state holds them still.               *)
LEMMA ActedClock ==
  ASSUME SlowEnough, TypeOK, Clock, phase \in {"strobe", "hold"}, Acted
  PROVE  Acted'
<1>1. /\ \A w \in Wires : Sampled(w) /\ Sampled(w)' /\ Shifted(w)
      /\ cycle' = cycle /\ before' = before
  BY ClockParts
<1>2. UNCHANGED <<data_out, rand, led, led_out, acts>> /\ rw_state'
  BY NothingEnabled DEF Acted
<1>3. "as" \in Wires /\ 0 \in 0..Stages /\ Stages \in 2..Stages
  BY SizeAssumption DEF Wires
<1>4. Tail("as", TRUE, 0)' /\ line'["as"].out
  <2>1. Tail("as", TRUE, 0) /\ line["as"].out = TRUE
    BY <1>1, <1>3 DEF Acted, Sampled
  <2>2. Iso("as", TRUE, 0, Stages)
    BY <2>1, Zenon DEF Tail
  <2>3. line'["as"].out = TRUE
    BY <1>1, <1>3, <2>1, <2>2, KeepOut
  <2>4. Tail("as", TRUE, Down(0))'
    BY <1>1, <1>3, <2>1, TailStep, Levels
  <2> QED BY <2>3, <2>4 DEF Down
<1> QED BY <1>1, <1>2, <1>4, ServedKept DEF Acted

(* The registers act on the cycle that the master holds out to them.       *)
LEMMA ActingServes ==
  ASSUME TypeOK, Clock, phase = "strobe", Fresh, ~rw_state, line["as"].out,
         NEW x \in Strobes, NEW y \in Strobes, x = StrobeOf(cycle.op), y # x,
         ~line[x].out, line[y].out
  PROVE  Served' /\ rw_state'
<1>1. cycle' = cycle /\ before' = before
  BY ClockParts
<1>2. /\ before.rand = rand /\ before.led = led /\ before.led_out = led_out
      /\ acts = 0
      /\ cycle.addr # "other" => select = cycle.addr
  BY DEF Fresh, Registers
<1>3. cycle.op \in {"read", "write"}
  BY DEF TypeOK, Cycles
<1>4. CASE cycle.op = "read"
  <2>1. x = "rs_n"
    BY <1>4 DEF StrobeOf
  <2>2. rs_en
    BY <2>1 DEF rs_en
  <2>3. Read
    BY <2>2 DEF Clock, Deselected, Wait, Write, InReset
  <2>4. acts' = 1 /\ rw_state' = TRUE /\ UNCHANGED <<led, led_out>>
    BY <1>2, <2>3 DEF Read, Act, Counted
  <2>5. cycle.addr # "other" =>
          IF cycle.addr = "A_RAND" THEN data_out' = rand /\ rand' = NextRandom(rand)
          ELSE rand' = rand
    BY <1>2, <2>3 DEF Read
  <2> QED BY <1>1, <1>2, <1>4, <2>4, <2>5 DEF Served, Unchanged
<1>5. CASE cycle.op = "write"
  <2>1. x = "ws_n" /\ y = "rs_n"
    BY <1>5 DEF StrobeOf, Strobes
  <2>2. ~rs_en /\ ws_en
    BY <2>1 DEF rs_en, ws_en
  <2>3. Write
    BY <2>2 DEF Clock, Deselected, Wait, Read, InReset
  <2>4. acts' = 1 /\ rw_state' = TRUE
    BY <1>2, <2>3 DEF Write, Act, Counted
  <2>5. cycle.addr # "other" =>
          IF cycle.addr = "A_RAND"
          THEN rand' = NextRandom(cycle.data) /\ led' = led /\ led_out' = led_out
          ELSE led_out' = led /\ led' = Rotated(led) /\ rand' = rand
    BY <1>2, <1>5, <2>3 DEF Write, DataIn
  <2> QED BY <1>1, <1>2, <1>5, <2>4, <2>5 DEF Served, Unchanged
<1> QED BY <1>3, <1>4, <1>5

LEMMA StrobeClock ==
  ASSUME SlowEnough, TypeOK, Clock, phase = "strobe", InStrobe
  PROVE  InStrobe'
<1>1. /\ \A w \in Wires : Sampled(w) /\ Sampled(w)' /\ Shifted(w)
      /\ age' = Counted(age, Limit) /\ age \in 0..Limit /\ Limit \in Nat
      /\ cycle' = cycle /\ before' = before /\ select' = select
  BY ClockParts
<1>2. /\ Stages \in Nat /\ Stages >= 4 /\ "as" \in Wires /\ Strobes \subseteq Wires
      /\ Limit = Hold /\ Hold >= Stages + 4
  BY SizeAssumption DEF SlowEnough, Wires, Strobes, Limit
<1>3. /\ age \in Nat /\ age' \in Nat
      /\ age' = age + 1 \/ (age' = age /\ age >= Stages + 4)
  BY <1>1, <1>2 DEF Counted
<1>4. PICK x \in Strobes, y \in Strobes :
        /\ x = StrobeOf(cycle.op) /\ y # x
        /\ Tail(x, FALSE, Begun)
        /\ Acted \/ NotYet(x, y)
  BY DEF InStrobe
<1>5. PICK g \in 0..Stages : g = Begun
  BY <1>2, <1>3 DEF Begun
<1>6. Begun' = Down(g)
  <2>1. CASE age < Stages
    <3>1. g = Stages - age /\ age' = age + 1
      BY <1>2, <1>3, <1>5, <2>1 DEF Begun
    <3> QED BY <1>2, <1>3, <3>1 DEF Begun, Down
  <2>2. CASE ~(age < Stages)
    <3>1. g = 0 /\ ~(age' < Stages)
      BY <1>2, <1>3, <1>5, <2>2 DEF Begun
    <3> QED BY <3>1 DEF Begun, Down
  <2> QED BY <2>1, <2>2
<1>7. Level("as") = TRUE /\ Level(x) = FALSE /\ Level(y) = TRUE
  BY <1>4, Levels
<1>8. x \in Wires /\ y \in Wires
  BY <1>2, <1>4
<1>9. Tail(x, FALSE, Begun)'
  <2>1. Tail(x, FALSE, g)
    BY <1>4, <1>5, Zenon
  <2>2. Tail(x, FALSE, Down(g))'
    BY <1>1, <1>7, <1>8, <2>1, TailStep
  <2> QED BY <1>6, <2>2 DEF Tail, Iso
<1>10. x = StrobeOf(cycle.op)'
  BY <1>1, <1>4 DEF StrobeOf
<1>11. CASE Acted
  BY <1>4, <1>9, <1>10, <1>11, ActedClock DEF InStrobe
<1>12. ASSUME NotYet(x, y) PROVE Acted' \/ NotYet(x, y)'
  <2>1. PICK b \in 0..Begun :
          /\ Tail("as", TRUE, b)
          /\ IF b = 0
             THEN /\ ~rw_state /\ Tail(y, TRUE, 0) /\ line[y].out
                  /\ age >= Stages => Soon("as", TRUE) /\ Soon(x, FALSE)
             ELSE \E e \in 0..b : Draining(e, b) /\ Tail(y, TRUE, e) /\ Iso(x, TRUE, e, Begun)
    BY <1>12 DEF NotYet
  <2>2. Fresh /\ age < Stages + 4
    BY <1>12 DEF NotYet
  <2>3. ASSUME Tail(y, TRUE, 0), line[y].out = TRUE
        PROVE  Tail(y, TRUE, 0)' /\ line'[y].out
    <3>1. 0 \in 0..Stages /\ Stages \in 2..Stages
      BY <1>2
    <3>2. Tail(y, TRUE, Down(0))'
      BY <1>1, <1>7, <1>8, <2>3, <3>1, TailStep
    <3>3. Iso(y, TRUE, 0, Stages)
      BY <2>3, Zenon DEF Tail
    <3>4. line'[y].out = TRUE
      BY <1>1, <1>8, <2>3, <3>1, <3>3, KeepOut
    <3> QED BY <3>2, <3>4 DEF Down
  <2>4. CASE b = 0
    <3>1. ~rw_state /\ Tail(y, TRUE, 0) /\ line[y].out = TRUE
      BY <1>1, <1>8, <2>1, <2>4 DEF Sampled
    <3>2. age >= Stages => Soon("as", TRUE) /\ Soon(x, FALSE)
      BY <2>1, <2>4
    <3>3. Tail("as", TRUE, 0) /\ 0 \in 0..Stages /\ Stages \in 2..Stages
      <4>1. Tail("as", TRUE, 0)
        BY <2>1, <2>4, Zenon
      <4>2. 0 \in 0..Stages /\ Stages \in 2..Stages
        BY <1>2
      <4> QED BY <4>1, <4>2, Zenon
    <3>4. Tail("as", TRUE, 0)'
      <4>1. Tail("as", TRUE, Down(0))'
        BY <1>1, <1>2, <1>7, <3>3, TailStep
      <4> QED BY <4>1 DEF Down
    <3>5. CASE line["as"].out /\ ~line[x].out
      <4>1. Served' /\ rw_state'
        BY <1>4, <2>2, <3>1, <3>5, ActingServes
      <4>2. Iso("as", TRUE, 0, Stages) /\ line["as"].out = TRUE
        BY <1>1, <1>2, <3>5, <3>3 DEF Tail, Sampled
      <4>3. line'["as"].out = TRUE
        BY <1>1, <1>2, <3>3, <4>2, KeepOut
      <4> QED BY <3>4, <4>1, <4>3 DEF Acted
    <3>6. CASE ~(line["as"].out /\ ~line[x].out)
      <4>1. line["as"].out => line["rs_n"].out /\ line["ws_n"].out
        BY <1>4, <3>1, <3>6 DEF Strobes
      <4>2. UNCHANGED <<data_out, rand, led, led_out, acts>> /\ ~rw_state'
        BY <3>1, <4>1, NothingEnabled
      <4>3. Fresh'
        BY <1>1, <2>2, <4>2, FreshKept
      <4>4. age >= Stages => g = 0
        BY <1>2, <1>3, <1>5 DEF Begun
      <4>5. age < Stages + 3
        <5> SUFFICES ASSUME age >= Stages + 3 PROVE FALSE
          BY <1>2, <1>3
        <5>1. age >= Stages
          BY <1>2, <1>3
        <5>2. Soon("as", TRUE) /\ Soon(x, FALSE)
          BY <3>2, <5>1, Zenon
        <5>3. line["as"].out = TRUE /\ line[x].out = FALSE
          BY <1>2, <1>3, <1>8, <5>2, <5>1, SoonEnds
        <5> QED BY <3>6, <5>3
      <4>6. age' = age + 1 /\ age' < Stages + 4
        BY <1>2, <1>3, <4>5
      <4>7. ASSUME age' >= Stages PROVE Soon("as", TRUE)' /\ Soon(x, FALSE)'
        <5>1. Down(g) = 0
          <6>1. ~(age' < Stages)
            BY <1>2, <1>3, <4>7
          <6>2. Begun' = 0
            BY <6>1, Zenon DEF Begun
          <6> QED BY <1>6, <6>2
        <5>2. Iso("as", TRUE, 0, Stages)' /\ Iso(x, FALSE, 0, Stages)'
          BY <1>9, <1>6, <3>4, <5>1 DEF Tail, Iso
        <5>3. age >= Stages => Iso(x, FALSE, 0, Stages) /\ Soon(x, FALSE)
          <6>1. g = 0 => Tail(x, FALSE, 0)
            BY <1>4, <1>5, Zenon
          <6> QED BY <3>2, <4>4, <6>1 DEF Tail
        <5>4. age >= Stages => Iso("as", TRUE, 0, Stages) /\ Soon("as", TRUE)
          BY <3>2, <3>3 DEF Tail
        <5>5. Soon("as", TRUE)'
          BY <1>1, <1>2, <1>3, <4>6, <4>7, <5>2, <5>4, SoonClock
        <5>6. Soon(x, FALSE)'
          BY <1>1, <1>3, <1>8, <4>6, <4>7, <5>2, <5>3, SoonClock
        <5> QED BY <5>5, <5>6
      <4>8. Tail(y, TRUE, 0)' /\ line'[y].out
        BY <2>3, <3>1
      <4>9. 0 \in 0..Begun'
        BY <1>6, <1>5 DEF Down
      <4> QED BY <3>4, <4>2, <4>3, <4>6, <4>7, <4>8, <4>9 DEF NotYet
    <3> QED BY <3>5, <3>6
  <2>5. CASE b # 0
    <3>1. PICK e \in 0..b : Draining(e, b) /\ Tail(y, TRUE, e) /\ Iso(x, TRUE, e, Begun)
      BY <2>1, <2>5
    <3>2. b \in 1..Stages /\ e \in 0..Stages /\ b \in 0..g /\ e \in 0..g
      BY <1>2, <1>5, <2>1, <2>5
    <3>3. Iso(x, TRUE, e, g)
      BY <1>5, <3>1, Zenon
    <3>4. ASSUME NEW z \in Strobes PROVE Iso(z, TRUE, e, b)
      <4>1. z = x \/ z = y
        BY <1>4 DEF Strobes
      <4>2. Iso(y, TRUE, e, Stages)
        BY <3>1, Zenon DEF Tail
      <4>3. e \in Nat /\ b \in Nat /\ g \in Nat /\ b <= g /\ b <= Stages
        BY <1>2, <3>2
      <4> QED BY <1>2, <3>3, <4>1, <4>2, <4>3, IsoPart
    <3>5. /\ UNCHANGED <<data_out, rand, led, led_out, acts>>
          /\ Down(b) \in 0..Stages /\ Down(e) \in 0..Down(b)
          /\ Tail("as", TRUE, Down(b))'
          /\ IF b = 1 THEN ~rw_state' /\ e = 0 /\ \A z \in Strobes : line[z].out = TRUE
             ELSE Draining(Down(e), Down(b))'
      BY <2>1, <3>1, <3>2, <3>4, DrainingClock
    <3>6. Fresh'
      BY <1>1, <2>2, <3>5, FreshKept
    <3>7. age < Stages /\ age' = age + 1 /\ age' < Stages + 4 /\ Down(b) \in 0..Down(g)
      <4>1. g # 0
        BY <2>5, <3>2
      <4>2. age < Stages
        BY <1>2, <1>3, <1>5, <4>1 DEF Begun
      <4> QED BY <1>2, <1>3, <3>2, <4>2 DEF Down
    <3>8. Down(b) \in 0..Begun'
      BY <1>6, <3>7
    <3>9. CASE b = 1
      <4>1. Down(b) = 0 /\ ~rw_state' /\ e = 0 /\ line[y].out = TRUE
        BY <3>5, <3>9 DEF Down
      <4>2. Tail(y, TRUE, 0)' /\ line'[y].out
        BY <2>3, <3>1, <4>1
      <4>3. Tail("as", TRUE, 0)' /\ 0 \in 0..Begun'
        BY <3>5, <3>8, <4>1
      <4>4. ASSUME age' >= Stages PROVE Soon("as", TRUE)' /\ Soon(x, FALSE)'
        <5>1. age' = Stages
          BY <1>2, <1>3, <3>7, <4>4
        <5>2. Down(g) = 0
          BY <1>2, <1>6, <5>1 DEF Begun
        <5>3. Iso("as", TRUE, 0, Stages)' /\ Iso(x, FALSE, 0, Stages)'
          BY <1>9, <1>6, <4>3, <5>2 DEF Tail, Iso
        <5> QED BY <1>2, <1>8, <5>1, <5>3, FullIsSoonNext DEF SoonWhenFull
      <4> QED BY <3>6, <3>7, <4>1, <4>2, <4>3, <4>4 DEF NotYet
    <3>10. CASE b # 1
      <4>1. Draining(Down(e), Down(b))' /\ Down(b) # 0
        BY <3>2, <3>5, <3>10 DEF Down
      <4>2. Tail(y, TRUE, Down(e))'
        BY <1>1, <1>7, <1>8, <3>1, <3>2, TailStep
      <4>3. Iso(x, TRUE, Down(e), Down(g))'
        BY <1>1, <1>8, <3>2, <3>3, IsoStep
      <4>4. Iso(x, TRUE, Down(e), Begun)'
        BY <1>6, <4>3 DEF Iso
      <4> QED BY <3>5, <3>6, <3>7, <3>8, <4>1, <4>2, <4>4 DEF NotYet
    <3> QED BY <3>9, <3>10
  <2> QED BY <2>4, <2>5
<1> QED BY <1>4, <1>9, <1>10, <1>11, <1>12 DEF InStrobe

-----------------------------------------------------------------------------
(***************************************************************************)
(* The initial states, and the environment's steps                         *)
(***************************************************************************)
LEMMA TInvInit == ASSUME SlowEnough, Init PROVE TInv
<1>1. /\ Stages \in Nat /\ Stages >= 4 /\ Last \in 0..Stages - 1 /\ Last - 1 \in 0..Stages - 1
      /\ 0 \in 0..Stages /\ Stages \in 0..Stages /\ ~(age >= Stages)
  BY SizeAssumption DEF SlowEnough, Last, Init
<1>2. Tail("as", FALSE, 0)
  <2>1. line["as"] = PoweredUp
    BY DEF Init, Wires
  <2>2. /\ \A i \in 0..Stages - 1 : line["as"].stage[i] = FALSE
        /\ line["as"].level = FALSE
    BY <2>1 DEF PoweredUp
  <2> QED BY <1>1, <2>2 DEF Tail, Iso
<1>3. \A x \in Strobes : Tail(x, TRUE, Stages)
  BY EmptyTail
<1>4. phase = "reset" /\ acts = 1 /\ ~rw_state /\ age = 0
  BY DEF Init
<1>5. Stages + age <= Stages
  BY <1>1, <1>4
<1> QED BY <1>1, <1>2, <1>3, <1>4, <1>5 DEF TInv, InReset1

LEMMA LineKept ==
  ASSUME line' = line
  PROVE  /\ \A w, v, p : Tail(w, v, p) => Tail(w, v, p)'
         /\ \A w, v, lo, hi : Iso(w, v, lo, hi) => Iso(w, v, lo, hi)'
BY DEF Tail, Iso

LEMMA BeginTiming ==
  ASSUME SlowEnough, TypeOK, Begin, InIdle
  PROVE  InSelect'
<1>1. /\ Stages \in Nat /\ Stages >= 4 /\ Gap \in Nat /\ Gap >= 4 /\ age \in Nat /\ age >= Gap
      /\ "as" \in Wires /\ Strobes \subseteq Wires
  BY SizeAssumption, TimeAssumption, LimitType DEF SlowEnough, Begin, TypeOK, Wires, Strobes
<1>2. line' = line /\ rw_state' = rw_state
  BY DEF Begin, regs
<1>3. Fresh'
  <2>1. acts' = 0 /\ Registers' = before'
    BY DEF Begin, Registers, regs
  <2>2. cycle'.addr # "other" => select' = cycle'.addr
    BY DEF Begin, Decode
  <2> QED BY <2>1, <2>2 DEF Fresh
<1>4. PICK e \in 0..Stages :
        /\ e = 0 \/ e + age <= Stages
        /\ Iso("as", TRUE, 0, e) /\ Tail("as", FALSE, e)
        /\ \A x \in Strobes : Tail(x, TRUE, e)
        /\ e > 0 => line["as"].out
  BY DEF InIdle
<1>5. e \in Nat /\ e + 4 <= Stages
  <2>1. e = 0 \/ e + age <= Stages
    BY <1>4, Zenon
  <2> QED BY <1>1, <2>1
<1>6. Iso("as", FALSE, e, Stages) /\ \A x \in Strobes : Iso(x, TRUE, e, Stages)
  BY <1>4, Zenon DEF Tail
<1>7. Pending("as", FALSE, e, Stages) /\ \A x \in Strobes : Pending(x, TRUE, e, Stages)
  <2>1. Pair("as", FALSE, e, Stages)
    BY <1>1, <1>5, <1>6, FourHavePair
  <2>2. ASSUME NEW x \in Strobes PROVE Pair(x, TRUE, e, Stages)
    BY <1>1, <1>5, <1>6, FourHavePair
  <2> QED BY <2>1, <2>2 DEF Pending
<1>8. line["as"].out => rw_state
  BY DEF InIdle
<1>9. Draining(e, Stages)
  BY <1>4, <1>5, <1>6, <1>7, <1>8 DEF Draining
<1>10. Draining(e, Stages)'
  BY <1>2, <1>9 DEF Draining, Pending, Pair, Iso
<1>11. Tail("as", TRUE, Stages)' /\ \A x \in Strobes : Tail(x, TRUE, e)'
  BY <1>2, <1>4, EmptyTail, LineKept
<1>12. Stages \in 0..Stages /\ Stages # 0 /\ e \in 0..Stages
  BY <1>1
<1> QED BY <1>3, <1>10, <1>11, <1>12 DEF InSelect

LEMMA StrobeTiming ==
  ASSUME SlowEnough, TypeOK, Strobe, InSelect
  PROVE  InStrobe'
<1>1. Stages \in Nat /\ Stages >= 4
  BY SizeAssumption DEF SlowEnough
<1>2. /\ line' = line /\ age' = 0 /\ cycle' = cycle
      /\ UNCHANGED <<data_out, rw_state, rand, led, led_out, select, before, acts>>
  BY DEF Strobe, Move, regs
<1>3. Begun' = Stages
  BY <1>1, <1>2 DEF Begun
<1>4. Fresh'
  BY <1>2, FreshKept DEF InSelect
<1>5. PICK x \in Strobes, y \in Strobes : x = StrobeOf(cycle.op) /\ y # x
  BY DEF StrobeOf, Strobes
<1>6. Tail(x, FALSE, Begun)'
  <2>1. Tail(x, FALSE, Stages)'
    BY <1>2, EmptyTail, LineKept
  <2> QED BY <1>3, <2>1 DEF Tail, Iso
<1>7. PICK b \in 0..Stages :
        /\ Tail("as", TRUE, b)
        /\ IF b = 0
           THEN ~rw_state /\ \A z \in Strobes : Tail(z, TRUE, 0) /\ line[z].out
           ELSE \E e \in 0..b : Draining(e, b) /\ \A z \in Strobes : Tail(z, TRUE, e)
  BY DEF InSelect
<1>8. age' < Stages + 4 /\ ~(age' >= Stages) /\ b \in 0..Begun'
  BY <1>1, <1>2, <1>3
<1>9. Tail("as", TRUE, b)'
  BY <1>2, <1>7, LineKept
<1>10. CASE b = 0
  <2>1. ~rw_state' /\ Tail(y, TRUE, 0)' /\ line'[y].out
    BY <1>2, <1>7, <1>10, LineKept
  <2> QED BY <1>2, <1>4, <1>5, <1>6, <1>8, <1>9, <1>10, <2>1 DEF InStrobe, NotYet, StrobeOf
<1>11. CASE b # 0
  <2>1. PICK e \in 0..b : Draining(e, b) /\ \A z \in Strobes : Tail(z, TRUE, e)
    BY <1>7, <1>11
  <2>2. Draining(e, b)'
    BY <1>2, <2>1 DEF Draining, Pending, Pair, Iso
  <2>3. Tail(y, TRUE, e)' /\ Tail(x, TRUE, e)'
    BY <1>2, <2>1, LineKept
  <2>4. Iso(x, TRUE, e, Begun)'
    BY <1>3, <2>3 DEF Tail, Iso
  <2>5. NotYet(x, y)'
    BY <1>4, <1>8, <1>9, <1>11, <2>2, <2>3, <2>4 DEF NotYet
  <2> QED BY <1>2, <1>5, <1>6, <2>5 DEF InStrobe, StrobeOf
<1> QED BY <1>10, <1>11

LEMMA ActedKept ==
  ASSUME Acted, UNCHANGED <<line, regs, cycle, before, acts>>
  PROVE  Acted'
BY DEF Acted, Served, Unchanged, regs, Tail, Iso

LEMMA ReleaseTiming ==
  ASSUME SlowEnough, TypeOK, Release, InStrobe
  PROVE  Acted'
<1>1. Stages \in Nat /\ age \in Nat /\ age >= Stages + 4
  BY SizeAssumption, TimeAssumption, LimitType DEF SlowEnough, Release, TypeOK
<1>2. ~(age < Stages + 4)
  BY <1>1
<1>3. Acted
  BY <1>2 DEF InStrobe, NotYet
<1> QED BY <1>3, ActedKept DEF Release

LEMMA EndTiming ==
  ASSUME SlowEnough, TypeOK, End, Acted
  PROVE  InIdle'
<1>1. /\ Stages \in 0..Stages /\ Stages + 0 <= Stages /\ age' = 0
      /\ UNCHANGED <<line, regs, cycle, before, acts>>
  BY SizeAssumption DEF End, Move
<1>2. Acted'
  BY <1>1, ActedKept
<1>3. Tail("as", FALSE, Stages)' /\ \A x \in Strobes : Tail(x, TRUE, Stages)'
  BY <1>1, EmptyTail, LineKept
<1>4. Iso("as", TRUE, 0, Stages)'
  BY <1>2 DEF Acted, Tail
<1>5. Stages + age' <= Stages
  BY <1>1
<1>6. Served' /\ rw_state' /\ line'["as"].out
  BY <1>2 DEF Acted
<1> QED BY <1>1, <1>3, <1>4, <1>5, <1>6 DEF InIdle

LEMMA ResetTiming ==
  ASSUME SlowEnough, TypeOK, Reset, InIdle
  PROVE  InReset1'
<1>1. /\ Stages \in Nat /\ Stages >= 4 /\ age \in Nat
      /\ line' = line /\ acts' = acts /\ age' = 0 /\ ~rw_state'
  BY SizeAssumption, TimeAssumption, LimitType DEF SlowEnough, Reset, Move, TypeOK
<1>2. PICK e \in 0..Stages :
        Tail("as", FALSE, e) /\ \A x \in Strobes : Tail(x, TRUE, e)
  BY DEF InIdle
<1>3. Tail("as", FALSE, e)' /\ \A x \in Strobes : Tail(x, TRUE, e)'
  BY <1>1, <1>2, LineKept
<1>4. e + age' <= Stages /\ ~(age' >= Stages)
  BY <1>1
<1>5. acts' = 1
  BY <1>1 DEF InIdle, Served
<1> QED BY <1>1, <1>3, <1>4, <1>5 DEF InReset1

LEMMA ResetDoneTiming ==
  ASSUME SlowEnough, TypeOK, ResetDone, InReset1
  PROVE  InIdle'
<1>1. /\ Stages \in Nat /\ Stages >= 4 /\ age \in Nat /\ age >= Stages + 3
      /\ age >= Stages /\ 0 \in 0..Stages
  BY SizeAssumption, TimeAssumption, LimitType DEF SlowEnough, ResetDone, TypeOK
<1>2. line' = line /\ acts' = acts /\ cycle' = NoCycle
  BY DEF ResetDone
<1>3. PICK e \in 0..Stages, q \in 0..Stages :
        /\ e = 0 \/ e + age <= Stages
        /\ q = 0 \/ q + age <= Stages
        /\ Tail("as", FALSE, e) /\ \A x \in Strobes : Tail(x, TRUE, q)
  BY DEF InReset1
<1>4. \A n \in 0..Stages : n + age <= Stages => n = 0
  BY <1>1
<1>5. e = 0 /\ q = 0
  BY <1>3, <1>4
<1>6. Tail("as", FALSE, 0)' /\ \A x \in Strobes : Tail(x, TRUE, 0)'
  BY <1>2, <1>3, <1>5, LineKept
<1>7. line["as"].out = FALSE
  BY <1>1, SoonEnds DEF InReset1, Wires
<1>8. Served'
  BY <1>2 DEF Served, NoCycle, InReset1
<1>9. Iso("as", TRUE, 0, 0)' /\ ~(0 > 0) /\ ~line'["as"].out
  BY <1>2, <1>7 DEF Iso
<1> QED BY <1>1, <1>6, <1>8, <1>9 DEF InIdle

-----------------------------------------------------------------------------
(***************************************************************************)
(* The theorems                                                            *)
(***************************************************************************)
LEMMA TInvStep ==
  ASSUME SlowEnough, TypeOK, TInv, [Next]_vars
  PROVE  TInv'
<1>1. CASE Clock
  <2>1. phase' = phase
    BY <1>1, ClockParts
  <2> QED
    BY <1>1, <2>1, ResetClock, IdleClock, SelectClock, StrobeClock, ActedClock DEF TInv
<1>2. CASE Begin
  BY <1>2, BeginTiming DEF TInv, Begin, Move
<1>3. CASE Strobe
  BY <1>3, StrobeTiming DEF TInv, Strobe, Move
<1>4. CASE Release
  BY <1>4, ReleaseTiming DEF TInv, Release, Move
<1>5. CASE End
  BY <1>5, EndTiming DEF TInv, End, Move
<1>6. CASE Reset
  BY <1>6, ResetTiming DEF TInv, Reset, Move
<1>7. CASE ResetDone
  BY <1>7, ResetDoneTiming DEF TInv, ResetDone, Move
<1>8. CASE UNCHANGED vars
  <2>1. line' = line /\ UNCHANGED <<regs, bus, age, acts>>
    BY <1>8 DEF vars
  <2>2. (Served => Served') /\ (Fresh => Fresh') /\ (Acted => Acted')
    BY <2>1, ActedKept DEF Served, Fresh, Registers, Unchanged, regs, bus
  <2>3. (InReset1 => InReset1') /\ (InIdle => InIdle')
    BY <2>1, <2>2, LineKept DEF InReset1, InIdle, Soon, Pair, regs
  <2>4. \A e, b : Draining(e, b) => Draining(e, b)'
    BY <2>1 DEF Draining, Pending, Pair, Iso, regs
  <2>5. InSelect => InSelect'
    BY <2>1, <2>2, <2>4, LineKept DEF InSelect, regs
  <2>6. ASSUME InStrobe PROVE InStrobe'
    <3>1. PICK x \in Strobes, y \in Strobes :
            x = StrobeOf(cycle.op) /\ y # x /\ Tail(x, FALSE, Begun) /\ (Acted \/ NotYet(x, y))
      BY <2>6 DEF InStrobe
    <3>2. Tail(x, FALSE, Begun)'
      BY <2>1, <3>1 DEF Tail, Iso, Begun
    <3>3. ASSUME NotYet(x, y) PROVE NotYet(x, y)'
      <4>1. /\ Soon("as", TRUE) => Soon("as", TRUE)'
            /\ Soon(x, FALSE) => Soon(x, FALSE)'
            /\ \A e : Iso(x, TRUE, e, Begun) => Iso(x, TRUE, e, Begun)'
        BY <2>1 DEF Soon, Pair, Iso, Begun
      <4>2. Begun' = Begun
        BY <2>1 DEF Begun
      <4> QED BY <2>1, <2>2, <2>4, <3>3, <4>1, <4>2, LineKept DEF NotYet, regs
    <3> QED BY <2>1, <2>2, <3>1, <3>2, <3>3 DEF InStrobe, StrobeOf, bus
  <2> QED BY <2>1, <2>2, <2>3, <2>5, <2>6 DEF TInv, bus
<1> QED BY <1>1, <1>2, <1>3, <1>4, <1>5, <1>6, <1>7, <1>8 DEF Next

(* On a bus that is slow enough the registers act at most once in a cycle  *)
(* and never before its strobe (rw_state and the filter of shift_reg.v).   *)
THEOREM ActsOnce == ASSUME SlowEnough PROVE Spec => []OncePerCycle
<1>1. TypeOK /\ TInv => OncePerCycle
  <2>1. ASSUME TypeOK, TInv PROVE acts \in {0, 1} /\ (phase = "select" => acts = 0)
    BY <2>1 DEF TypeOK, TInv, InReset1, InIdle, InSelect, InStrobe, Acted, NotYet, Fresh, Served
  <2> QED BY <2>1 DEF OncePerCycle
<1>2. Init => TInv
  BY TInvInit
<1>3. TypeOK /\ TInv /\ [Next]_vars => TInv'
  BY TInvStep
<1> QED BY <1>1, <1>2, <1>3, TypeCorrect, PTL DEF Spec

(* And the cycle whose strobe has been released has had its whole effect,  *)
(* which the wires do not undo while they settle.                          *)
THEOREM ServedInTime == ASSUME SlowEnough PROVE Spec => []CycleServed
<1>1. TInv => CycleServed
  BY DEF TInv, InIdle, Acted, CycleServed
<1>2. Init => TInv
  BY TInvInit
<1>3. TypeOK /\ TInv /\ [Next]_vars => TInv'
  BY TInvStep
<1> QED BY <1>1, <1>2, <1>3, TypeCorrect, PTL DEF Spec
===============================================================================
