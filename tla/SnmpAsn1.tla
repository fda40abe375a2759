-------------------------------- MODULE SnmpAsn1 -------------------------------
(***************************************************************************)
(* The numbers, names and lengths of SNMP messages as octets: counted and  *)
(* written by lwip/core/snmp/asn1_enc.c, read by asn1_dec.c.               *)
(*                                                                         *)
(* A message is a chain of packet buffers, none of them empty, each a      *)
(* sequence of octets.  A 32-bit number is its four octets, highest first. *)
(***************************************************************************)
EXTENDS Integers, Sequences, FiniteSets, SequencesExt, FiniteSetsExt

IdLen == 32    \* LWIP_SNMP_OBJ_ID_LEN
Octet == 0..255

(* The walk to the octet at an offset: <<k, i>> is the i-th octet of the   *)
(* k-th buffer, and p->next follows the last octet of a buffer.            *)
RECURSIVE Walk(_, _, _)
Walk(p, ofs, k) ==
  IF k > Len(p) THEN <<>>
  ELSE IF ofs < Len(p[k]) THEN <<k, ofs + 1>> ELSE Walk(p, ofs - Len(p[k]), k + 1)

(* Mutant: a buffer's length is not added when the walk leaves it.         *)
OnwardInOne(p, at) == IF at[2] < Len(p[at[1]]) THEN <<at[1], at[2] + 1>> ELSE <<>>

(* One octet further: msg_ptr++ or the next buffer's first.                *)
Onward(p, at) ==
  IF at = <<>> THEN <<>>
  ELSE IF at[2] < Len(p[at[1]]) THEN <<at[1], at[2] + 1>>
  ELSE IF at[1] < Len(p) THEN <<at[1] + 1, 1>> ELSE <<>>

(* The n octets from an offset, fewer if the chain ends before.            *)
RECURSIVE From(_, _, _)
From(p, at, n) == IF n <= 0 \/ at = <<>> THEN <<>> ELSE <<p[at[1]][at[2]]>> \o From(p, Onward(p, at), n - 1)
Octets(p, ofs, n) == From(p, Walk(p, ofs, 1), n)

Fail == [ok |-> FALSE]

-----------------------------------------------------------------------------
(* Lengths                                                                 *)

(* Mutant: 255 takes three octets.                                         *)
LengthCntLong(n) == IF n < 128 THEN 1 ELSE IF n < 255 THEN 2 ELSE 3

LengthCnt(n) == IF n < 128 THEN 1 ELSE IF n < 256 THEN 2 ELSE 3
EncLength(n) == IF n < 128 THEN <<n>> ELSE IF n < 256 THEN <<129, n>> ELSE <<130, n \div 256, n % 256>>

(* The indefinite form's length: up to the second of two zeros in a row.   *)
Indefinite(o) ==
  LET ends == {k \in 3..Len(o) : o[k] = 0 /\ o[k - 1] = 0}
  IN IF ends = {} THEN Fail ELSE [ok |-> TRUE, octets |-> 1, len |-> Min(ends) - 1]

DecLength(p, ofs) ==
  LET o == Octets(p, ofs, 3)
  IN CASE o # <<>> /\ o[1] < 128 -> [ok |-> TRUE, octets |-> 1, len |-> o[1]]
       [] o # <<>> /\ o[1] = 128 -> Indefinite(Octets(p, ofs, 300))
       [] Len(o) >= 2 /\ o[1] = 129 -> [ok |-> TRUE, octets |-> 2, len |-> o[2]]
       [] Len(o) = 3 /\ o[1] = 130 -> [ok |-> TRUE, octets |-> 3, len |-> o[2] * 256 + o[3]]
       [] OTHER -> Fail

-----------------------------------------------------------------------------
(* Numbers                                                                 *)
Zeros(v, k) == \A i \in 1..k : v[i] = 0
Negative(v) == v[1] >= 128

(* Mutant: the sign bit of the second octet is not looked at.              *)
U32CntTight(v) ==
  CASE Zeros(v, 3) /\ v[4] < 128 -> 1 [] Zeros(v, 2) /\ v[3] < 128 /\ ~(Zeros(v, 3) /\ v[4] < 128) -> 2
    [] Zeros(v, 1) /\ ~(Zeros(v, 2) /\ v[3] < 128) -> 3 [] ~Zeros(v, 1) /\ ~Negative(v) -> 4 [] OTHER -> 5

U32Cnt(v) ==
  CASE Negative(v) -> 5
    [] ~Negative(v) /\ (v[1] > 0 \/ v[2] >= 128) -> 4
    [] Zeros(v, 1) /\ v[2] < 128 /\ (v[2] > 0 \/ v[3] >= 128) -> 3
    [] Zeros(v, 2) /\ v[3] < 128 /\ (v[3] > 0 \/ v[4] >= 128) -> 2
    [] OTHER -> 1

(* ~value                                                                  *)
Complement(v) == [i \in 1..4 |-> 255 - v[i]]
S32Cnt(v) == U32Cnt(IF Negative(v) THEN Complement(v) ELSE v)

EncU32(v, n) == IF n = 5 THEN <<0>> \o v ELSE SubSeq(v, 5 - n, 4)
EncS32(v, n) == SubSeq(v, 5 - n, 4)

Padded(o, fill) == SubSeq(<<fill, fill, fill, fill>> \o o, Len(o) + 1, Len(o) + 4)

DecU32(p, ofs, len) ==
  LET o == Octets(p, ofs, len)
  IN IF len \notin 1..5 \/ Len(o) < len \/ o[1] >= 128 THEN Fail
     ELSE [ok |-> TRUE, val |-> Padded(IF len > 1 /\ o[1] = 0 THEN Tail(o) ELSE o, 0)]

(* Mutant: the sign is not extended.                                       *)
DecS32Unsigned(p, ofs, len) ==
  LET o == Octets(p, ofs, len)
  IN IF len \notin 1..4 \/ Len(o) < len THEN Fail ELSE [ok |-> TRUE, val |-> Padded(o, 0)]

DecS32(p, ofs, len) ==
  LET o == Octets(p, ofs, len)
  IN IF len \notin 1..4 \/ Len(o) < len THEN Fail
     ELSE [ok |-> TRUE, val |-> Padded(o, IF o[1] >= 128 THEN 255 ELSE 0)]

-----------------------------------------------------------------------------
(* Names: the first two sub-identifiers are one octet, the others are      *)
(* groups of seven bits, all but the last with the eighth bit set.         *)
Shifted(n, groups) == n \div (CASE groups = 0 -> 1 [] groups = 1 -> 128 [] groups = 2 -> 16384 [] groups = 3 -> 2097152 [] OTHER -> 268435456)

IdCnt(n) == 1 + Cardinality({g \in 1..4 : Shifted(n, g) > 0})
OidCnt(id) ==
  IF Len(id) > 1 THEN 1 + FoldLeft(LAMBDA n, x : n + IdCnt(x), 0, SubSeq(id, 3, Len(id)))
  ELSE FoldLeft(LAMBDA n, x : n + IdCnt(x), 0, id)

(* Mutant: a group that is zero is left out.                               *)
EncIdGaps(n) ==
  LET codes == {g \in 1..4 : Shifted(n, g) % 128 # 0}
  IN [i \in 1..Cardinality(codes) |-> 128 + (Shifted(n, CHOOSE g \in codes : Cardinality({h \in codes : h > g}) = i - 1) % 128)]
     \o <<n % 128>>

(* Once a group is not zero, all that follow are written.                  *)
EncId(n) ==
  LET top == Max({0} \union {g \in 1..4 : Shifted(n, g) % 256 # 0})
  IN [i \in 1..top |-> 128 + (Shifted(n, top + 1 - i) % 128)] \o <<n % 128>>

EncOid(id) ==
  IF Len(id) > 1
  THEN FoldLeft(LAMBDA o, x : o \o EncId(x), <<id[1] * 40 + id[2]>>, SubSeq(id, 3, Len(id)))
  ELSE <<>>

FirstTwo(octet) ==
  CASE octet < 40 -> <<0, octet>> [] octet >= 40 /\ octet < 80 -> <<1, octet - 40>> [] OTHER -> <<2, octet - 80>>

(* A name that ends within a sub-identifier is refused; the code reads on, *)
(* into what follows it in the message.                                    *)
RECURSIVE DecIds(_, _, _)
DecIds(o, n, ids) ==
  IF o = <<>> THEN [ok |-> TRUE, val |-> ids]
  ELSE IF Len(ids) = IdLen THEN Fail
  ELSE IF Head(o) < 128 THEN DecIds(Tail(o), 0, Append(ids, n * 128 + Head(o)))
  ELSE IF Len(o) = 1 THEN Fail ELSE DecIds(Tail(o), n * 128 + Head(o) - 128, ids)

DecOid(p, ofs, len) ==
  LET o == Octets(p, ofs, len)
  IN CASE len = 0 -> [ok |-> TRUE, val |-> <<>>]
       [] len > 0 /\ Len(o) = len -> DecIds(Tail(o), 0, FirstTwo(o[1]))
       [] OTHER -> Fail

(* Strings and addresses                                                   *)
DecRaw(p, ofs, len, room) ==
  LET o == Octets(p, ofs, len)
  IN IF len > room \/ Len(o) < len THEN Fail ELSE [ok |-> TRUE, val |-> o]
=============================================================================
