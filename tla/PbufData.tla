------------------------------ MODULE PbufData ------------------------------
(***************************************************************************)
(* Data in chains of buffers: what pbuf_copy, pbuf_copy_partial and        *)
(* pbuf_take copy (lwip/core/pbuf.c), and the checksums of inet_chksum.c   *)
(* (algorithm 1, on a little-endian machine).  A chain is a sequence of    *)
(* payloads, a payload a sequence of octets; some may be empty.            *)
(***************************************************************************)
EXTENDS Naturals, SequencesExt, FiniteSetsExt

CONSTANTS
  Chains,   \* the chains that are read
  Shapes,   \* the lengths of the buffers that are written
  Headers   \* pseudo headers: the two addresses and the protocol

VARIABLES
  chain,    \* the chain the program works on
  done      \* what it has done: [op, ...], or NothingDone

vars == <<chain, done>>

NothingDone == [op |-> "none"]
Flat(c) == FlattenSeq(c)
Blank(shape) == [i \in DOMAIN shape |-> [k \in 1..shape[i] |-> -1]]
Total(shape) == FoldSeq(LAMBDA x, y : x + y, 0, shape)

DataAssumption == \A c \in Chains : ToSet(Flat(c)) \subseteq 0..255

-----------------------------------------------------------------------------
(* A buffer with n octets of from, from position b on, at position a.      *)
Overlaid(buf, a, from, b, n) ==
  [k \in DOMAIN buf |-> IF k \in (a + 1)..(a + n) THEN from[b + k - a] ELSE buf[k]]

(* pbuf_copy: both chains are walked; to has got as far as buffer i at     *)
(* offset a, from as far as j at b.  It is refused when a packet seems to  *)
(* be followed by another, and asserts that to is long enough.             *)
LastOf(c, i) == i <= Len(c) /\ Flat(SubSeq(c, i + 1, Len(c))) = <<>>
PacketAfter(c, i) == LastOf(c, i) /\ i < Len(c)

RECURSIVE Copied(_, _, _, _, _, _)
Copied(to, from, i, a, j, b) ==
  IF i > Len(to) THEN [to |-> to, err |-> "assert"] ELSE
  LET n == Min({Len(to[i]) - a, Len(from[j]) - b})
      i2 == IF a + n = Len(to[i]) THEN i + 1 ELSE i
      j2 == IF b + n = Len(from[j]) THEN j + 1 ELSE j
      to2 == [to EXCEPT ![i] = Overlaid(@, a, from[j], b, n)]
  IN  IF PacketAfter(from, j2) \/ PacketAfter(to, i2) THEN [to |-> to2, err |-> "packets"]
      ELSE IF j2 > Len(from) THEN [to |-> to2, err |-> "ok"]
      ELSE Copied(to2, from, i2, IF i2 = i THEN a + n ELSE 0, j2, IF j2 = j THEN b + n ELSE 0)

(* Mutant: the offset in the source is not started over.                   *)
PartialStale(c, len, offset) ==
  LET RECURSIVE Walk(_, _)
      Walk(i, left) ==
        IF i > Len(c) \/ left = 0 THEN <<>>
        ELSE IF offset # 0 /\ offset >= Len(c[i]) THEN Walk(i + 1, left)
        ELSE LET n == Min({left, Len(c[i]) - offset})
             IN  SubSeq(c[i], offset + 1, offset + n) \o Walk(i + 1, left - n)
  IN  Walk(1, len)

(* pbuf_copy_partial: up to len octets, the first offset left out.         *)
RECURSIVE Partial(_, _, _)
Partial(c, len, offset) ==
  IF c = <<>> \/ len = 0 THEN <<>>
  ELSE IF offset # 0 /\ offset >= Len(c[1]) THEN Partial(Tail(c), len, offset - Len(c[1]))
  ELSE LET n == Min({len, Len(c[1]) - offset})
       IN  SubSeq(c[1], offset + 1, offset + n) \o Partial(Tail(c), len - n, 0)

(* Mutant: each buffer is filled from the start of the data.               *)
TakenStart(to, data) ==
  [i \in DOMAIN to |-> Overlaid(to[i], 0, data, 0, Min({Len(to[i]), Len(data)}))]

(* pbuf_take: data fills the buffers one after another.                    *)
RECURSIVE Taken(_, _)
Taken(to, data) ==
  IF data = <<>> THEN to
  ELSE LET n == Min({Len(data), Len(to[1])})
       IN  <<Overlaid(to[1], 0, data, 0, n)>>
           \o Taken(Tail(to), SubSeq(data, n + 1, Len(data)))

-----------------------------------------------------------------------------
(* FOLD_U32T and SWAP_BYTES_IN_WORD; the latter looks at 16 bits only.     *)
Fold(u) == (u \div 65536) + (u % 65536)
Swap(w) == 256 * (w % 256) + ((w \div 256) % 256)

(* lwip_standard_chksum: the octets as big-endian words, an odd one at the *)
(* end as a high octet, with the carries added; the result is swapped.     *)
Words(data) ==
  MapThenSumSet(LAMBDA i : IF i % 2 = 1 THEN 256 * data[i] ELSE data[i], DOMAIN data)

StandardChksum(data) == Swap(Fold(Fold(Words(data))))

(* Mutant: a buffer of odd length does not turn the octets of the next.    *)
SumChainEven(c, acc) ==
  FoldLeft(LAMBDA a, data : Fold(a + StandardChksum(data)), acc, c)

(* The sum over a chain: after a buffer of odd length the octets are the   *)
(* other way round, which the end turns back.                              *)
SumChain(c, acc) ==
  LET Add(s, data) ==
        LET a == Fold(s.acc + StandardChksum(data))
        IN  IF Len(data) % 2 = 0 THEN [s EXCEPT !.acc = a]
            ELSE [acc |-> Swap(a), swapped |-> ~s.swapped]
      end == FoldLeft(Add, [acc |-> acc, swapped |-> FALSE], c)
  IN  IF end.swapped THEN Swap(end.acc) ELSE end.acc

Chksum(c) == 65535 - SumChain(c, 0)

(* The addresses lie in memory in network order; htons turns the others.   *)
AddressSum(addr) == (addr[1] + 256 * addr[2]) + (addr[3] + 256 * addr[4])

ChksumPseudo(c, h, len) ==
  65535 - Fold(Fold(SumChain(c, 0) + AddressSum(h.src) + AddressSum(h.dest)
                    + Swap(h.proto) + Swap(len)))

(* inet_chksum_pseudo_partial: only the first n octets are covered, but    *)
(* whether the order is turned depends on the whole length of each buffer. *)
RECURSIVE SumPartial(_, _, _, _)
SumPartial(c, n, acc, swapped) ==
  IF c = <<>> \/ n = 0 THEN IF swapped THEN Swap(acc) ELSE acc
  ELSE LET k == Min({n, Len(c[1])})
           a == Fold(acc + StandardChksum(SubSeq(c[1], 1, k)))
           odd == Len(c[1]) % 2 = 1
       IN  SumPartial(Tail(c), n - k, IF odd THEN Swap(a) ELSE a, swapped # odd)

ChksumPartial(c, h, len, n) ==
  65535 - Fold(Fold(SumPartial(c, n, 0, FALSE) + AddressSum(h.src) + AddressSum(h.dest)
                    + Swap(h.proto) + Swap(len)))

-----------------------------------------------------------------------------
Init == chain \in Chains /\ done = NothingDone

Copy(shape) ==
  /\ Total(shape) >= Len(Flat(chain))
  /\ done' = [op |-> "copy", into |-> Copied(Blank(shape), chain, 1, 0, 1, 0)]

CopyPartial(len, offset) ==
  done' = [op |-> "partial", len |-> len, offset |-> offset, got |-> Partial(chain, len, offset)]

Take(shape) ==
  /\ Total(shape) >= Len(Flat(chain))
  /\ done' = [op |-> "take", into |-> Taken(Blank(shape), Flat(chain))]

Sum == done' = [op |-> "sum", sum |-> Chksum(chain)]

SumPseudo(h, n) ==
  done' = [op |-> "pseudo", header |-> h, len |-> n,
           sum |-> ChksumPseudo(chain, h, Len(Flat(chain))),
           part |-> ChksumPartial(chain, h, Len(Flat(chain)), n)]

Next ==
  /\ done = NothingDone
  /\ \/ \E shape \in Shapes : Copy(shape) \/ Take(shape)
     \/ \E len, offset \in 0..Len(Flat(chain)) : CopyPartial(len, offset)
     \/ Sum
     \/ \E h \in Headers, n \in 0..Len(Flat(chain)) : SumPseudo(h, n)
  /\ UNCHANGED chain

Spec == Init /\ [][Next]_vars

-----------------------------------------------------------------------------
TypeOK == chain \in Chains /\ done.op \in {"none", "copy", "partial", "take", "sum", "pseudo"}

(* What is copied into a chain arrives whole and in order, however either  *)
(* is cut; pbuf_copy refuses or fails only for chains with empty buffers.  *)
CopiedWhole ==
  /\ done.op \in {"copy", "take"} =>
       LET to == IF done.op = "copy" THEN done.into.to ELSE done.into
       IN  done.op = "take" \/ done.into.err = "ok" =>
             SubSeq(Flat(to), 1, Len(Flat(chain))) = Flat(chain)
  /\ done.op = "copy" /\ done.into.err # "ok" =>
       <<>> \in ToSet(chain) \union ToSet(done.into.to)

(* pbuf_copy_partial gives the octets asked for, as far as there are any.  *)
PartialWhole ==
  done.op = "partial" =>
    done.got = SubSeq(Flat(chain), done.offset + 1,
                      Min({done.offset + done.len, Len(Flat(chain))}))

(* The Internet checksum of octets, by its definition: the one's           *)
(* complement of the sum, in one's complement, of their big-endian words,  *)
(* as the octets lie in memory.                                            *)
Defined(data) ==
  LET s == Words(data)
      r == IF s > 0 /\ s % 65535 = 0 THEN 65535 ELSE s % 65535
  IN  65535 - Swap(r)

Pseudo(h, len) == h.src \o h.dest \o <<0, h.proto, len \div 256, len % 256>>

(* The checksum of a chain is that of its octets, wherever it is cut, with *)
(* a pseudo header before it and over a part of it, too.                   *)
SumsRight ==
  /\ done.op = "sum" => done.sum = Defined(Flat(chain))
  /\ done.op = "pseudo" =>
       LET all == Flat(chain) IN
       /\ done.sum = Defined(Pseudo(done.header, Len(all)) \o all)
       /\ done.part = Defined(Pseudo(done.header, Len(all)) \o SubSeq(all, 1, done.len))
=============================================================================
