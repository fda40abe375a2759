------------------------------ MODULE Sha256Pad ------------------------------
(***************************************************************************)
(* sha256sum of board/sha256/sha256sum.c: which blocks the compression     *)
(* function sees, in which order.  The compression itself is data: a       *)
(* message byte is its position, and a call of sha256chunk appends its     *)
(* block.  The padding area is on the stack and starts with any contents.  *)
(***************************************************************************)
EXTENDS Integers, Sequences, SequencesExt

CONSTANT Sizes           \* sizes of messages, in bytes

PadAssumption == Sizes \subseteq 0..2^29 - 1

VARIABLES size,          \* of the message, without the remainder
          remainder, at, \* i of the loop over whole blocks
          padding, hashed, pc

vars == <<size, remainder, at, padding, hashed, pc>>

Block == 0..63
Garbage == <<"garbage", 0>>
MsgByte(i) == <<"message", i>>
Constant(n) == <<"byte", n>>

(* byteSwap32: the big-endian octets of a 32-bit number.                   *)
ByteSwap32(n) == [k \in 0..3 |-> Constant((n \div 256^(3 - k)) % 256)]

Init ==
  /\ \E s \in Sizes : remainder = s % 64 /\ size = s - (s % 64)
  /\ at = 0 /\ padding = [i \in Block |-> Garbage] /\ hashed = << >> /\ pc = "blocks"

(* The whole blocks are hashed where they are.                             *)
Chunk ==
  /\ pc = "blocks" /\ at < size
  /\ hashed' = Append(hashed, [i \in Block |-> MsgByte(at + i)])
  /\ at' = at + 64
  /\ UNCHANGED <<size, remainder, padding, pc>>

Begun ==
  [i \in Block |-> IF i < remainder THEN MsgByte(size + i)
                   ELSE IF i = remainder THEN Constant(128) ELSE padding[i]]

Cleared(p, from, to) == [i \in Block |-> IF i \in from..to - 1 THEN Constant(0) ELSE p[i]]

(* Mutant: the length fits behind a remainder of 56 bytes.                 *)
NeedsBlockLate == remainder > 64 - 8
NeedsBlock == remainder >= 64 - 8

(* The remainder and 0x80; without room for the length, in a block of      *)
(* their own.                                                              *)
Remainder ==
  /\ pc = "blocks" /\ at >= size
  /\ IF NeedsBlock
     THEN LET p == Cleared(Begun, remainder + 1, 64) IN
          hashed' = Append(hashed, p) /\ padding' = Cleared(p, 0, 60)
     ELSE padding' = Cleared(Begun, remainder + 1, 60) /\ UNCHANGED hashed
  /\ pc' = "length"
  /\ UNCHANGED <<size, remainder, at>>

(* The number of bits goes into the last word, modulo 2^32.                *)
Length ==
  /\ pc = "length"
  /\ LET bits == ByteSwap32(8 * (size + remainder)) IN
     hashed' = Append(hashed, [i \in Block |-> IF i < 60 THEN padding[i] ELSE bits[i - 60]])
  /\ pc' = "done"
  /\ UNCHANGED <<size, remainder, at, padding>>

Next == Chunk \/ Remainder \/ Length

Spec == Init /\ [][Next]_vars

-----------------------------------------------------------------------------
(* The padding of the standard: a one bit, the fewest zeros that leave room*)
(* for 64 bits of length at the end of a block, and the length, which stays*)
(* below 2^32.                                                             *)
Padded ==
  LET n == size + remainder
      zeros == CHOOSE z \in Block : (n + 1 + z + 8) % 64 = 0
  IN [i \in 1..n |-> MsgByte(i - 1)] \o <<Constant(128)>> \o [i \in 1..zeros |-> Constant(0)]
     \o [k \in 1..4 |-> Constant(0)]
     \o [k \in 1..4 |-> Constant(((8 * n) \div 256^(4 - k)) % 256)]

TypeOK == pc \in {"blocks", "length", "done"} /\ at \in 0..size /\ remainder \in Block

(* What has been hashed is the padded message, whatever was on the stack   *)
(* (sha256sum.c:128-155).                                                  *)
PaddedAsStandard ==
  /\ \A j \in 1..Len(hashed), i \in Block : hashed[j][i] = Padded[64 * (j - 1) + i + 1]
  /\ pc = "done" => Len(Padded) = 64 * Len(hashed)
=============================================================================
