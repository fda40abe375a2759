-------------------------------- MODULE SnmpWire -------------------------------
(***************************************************************************)
(* SNMP messages: their lengths are added up and they are written by       *)
(* lwip/core/snmp/msg_out.c, and requests are read by msg_in.c.  A request *)
(* is a message as a manager writes it, by the same rules.                 *)
(***************************************************************************)
EXTENDS SnmpAsn1

CONSTANTS Messages,  \* requests and responses that are written
          Traps,     \* traps that are written
          Cuts       \* where the chain's first buffer may end

VARIABLES sent, wire, read

vars == <<sent, wire, read>>

(* Types of values and of messages.                                        *)
INTEG == 2
OC_STR == 4
NUL == 5
OBJ_ID == 6
SEQ == 48
IPADDR == 64
Unsigned == {65, 66, 67}   \* COUNTER, GAUGE, TIMETICKS
Raw == {OC_STR, IPADDR, 68}
GET_RESP == 162
TRAP == 164
Asks == {160, 161, 163}    \* GET_REQ, GET_NEXT_REQ, SET_REQ

Public == <<112, 117, 98, 108, 105, 99>>
CommunityLen == 64         \* SNMP_COMMUNITY_STR_LEN
Version == <<0, 0, 0, 0>>

-----------------------------------------------------------------------------
(* Lengths, each with the octet of its type and its own length added.      *)
Whole(n) == 1 + LengthCnt(n) + n

(* snmp_varbind_list_sum                                                   *)
ValueCnt(vb) ==
  CASE vb.type = INTEG -> S32Cnt(vb.val) [] vb.type \in Unsigned -> U32Cnt(vb.val)
    [] vb.type = OBJ_ID -> OidCnt(vb.val) [] OTHER -> Len(vb.val)
VbSeqLen(vb) == Whole(ValueCnt(vb)) + Whole(OidCnt(vb.name))
ListSeqLen(list) == FoldLeft(LAMBDA n, vb : n + Whole(VbSeqLen(vb)), 0, list)

(* snmp_resp_header_sum                                                    *)
RespPduLen(m) ==
  Whole(ListSeqLen(m.list)) + Whole(S32Cnt(m.index)) + Whole(S32Cnt(m.status)) + Whole(S32Cnt(m.rid))

(* snmp_trap_header_sum                                                    *)
TrapPduLen(m) ==
  Whole(ListSeqLen(m.list)) + Whole(U32Cnt(m.ts)) + Whole(S32Cnt(m.specific)) + Whole(S32Cnt(m.generic))
  + Whole(4) + Whole(OidCnt(m.enterprise))

(* Mutant: the length of the message's own length is taken from the PDU's. *)
SeqLenEarly(m, pdulen) == 1 + LengthCnt(Len(m.community)) + pdulen + Whole(Len(m.community)) + Whole(S32Cnt(Version))

SeqLen(m, pdulen) == Whole(pdulen) + Whole(Len(m.community)) + Whole(S32Cnt(Version))

PduLen(m) == IF m.pdu = TRAP THEN TrapPduLen(m) ELSE RespPduLen(m)
TotalLen(m) == Whole(SeqLen(m, PduLen(m)))

-----------------------------------------------------------------------------
(* Octets                                                                  *)
Tag(type, len) == <<type>> \o EncLength(len)
Signed(v) == Tag(INTEG, S32Cnt(v)) \o EncS32(v, S32Cnt(v))

(* snmp_varbind_list_enc                                                   *)
EncValue(vb) ==
  CASE vb.type = INTEG -> EncS32(vb.val, S32Cnt(vb.val)) [] vb.type \in Unsigned -> EncU32(vb.val, U32Cnt(vb.val))
    [] vb.type = OBJ_ID -> EncOid(vb.val) [] OTHER -> vb.val
EncVb(vb) ==
  Tag(SEQ, VbSeqLen(vb)) \o Tag(OBJ_ID, OidCnt(vb.name)) \o EncOid(vb.name) \o Tag(vb.type, ValueCnt(vb)) \o EncValue(vb)
EncList(list) == FoldLeft(LAMBDA o, vb : o \o EncVb(vb), Tag(SEQ, ListSeqLen(list)), list)

Opening(m) ==
  Tag(SEQ, SeqLen(m, PduLen(m))) \o Signed(Version) \o Tag(OC_STR, Len(m.community)) \o m.community
  \o Tag(m.pdu, PduLen(m))

(* snmp_resp_header_enc                                                    *)
EncResponse(m) == Opening(m) \o Signed(m.rid) \o Signed(m.status) \o Signed(m.index) \o EncList(m.list)

(* snmp_trap_header_enc: two signed numbers go through the unsigned form.  *)
EncTrap(m) ==
  LET small(v) == Tag(INTEG, S32Cnt(v)) \o EncU32(v, S32Cnt(v))
  IN Opening(m) \o Tag(OBJ_ID, OidCnt(m.enterprise)) \o EncOid(m.enterprise) \o Tag(IPADDR, 4) \o m.address
     \o small(m.generic) \o small(m.specific) \o Tag(67, U32Cnt(m.ts)) \o EncU32(m.ts, U32Cnt(m.ts)) \o EncList(m.list)

Encoded(m) == IF m.pdu = TRAP THEN EncTrap(m) ELSE EncResponse(m)

Chain(o, cut) == IF cut \in 1..(Len(o) - 1) THEN <<SubSeq(o, 1, cut), SubSeq(o, cut + 1, Len(o))>> ELSE <<o>>

-----------------------------------------------------------------------------
(* A type and a length, and where the content starts and ends.             *)
NoItem(ofs) == [ok |-> FALSE, type |-> 0, len |-> 0, at |-> ofs, end |-> ofs]
Placed(t, l, ofs) ==
  IF t = <<>> \/ ~l.ok THEN NoItem(ofs)
  ELSE [ok |-> TRUE, type |-> t[1], len |-> l.len, at |-> ofs + 1 + l.octets, end |-> ofs + 1 + l.octets + l.len]
Item(p, ofs) == Placed(Octets(p, ofs, 1), DecLength(p, ofs + 1), ofs)

Is(i, type) == i.ok /\ i.type = type
NumberOf(p, i) == IF Is(i, INTEG) THEN DecS32(p, i.at, i.len) ELSE Fail

(* The value of a binding; the length of a string is kept in eight bits.   *)
ValueOf(p, i) ==
  CASE i.type = INTEG -> DecS32(p, i.at, i.len) [] i.type \in Unsigned -> DecU32(p, i.at, i.len)
    [] i.type \in Raw \ {IPADDR} -> DecRaw(p, i.at, i.len, i.len % 256)
    [] i.type = IPADDR /\ i.len = 4 -> DecRaw(p, i.at, i.len, 4)
    [] i.type = NUL -> [ok |-> TRUE, val |-> <<>>] [] i.type = OBJ_ID -> DecOid(p, i.at, i.len)
    [] OTHER -> Fail

-----------------------------------------------------------------------------
Nothing == <<>>
Init == sent \in Messages \union Traps /\ wire = Nothing /\ read = Nothing

Transmit ==
  /\ wire = Nothing /\ \E cut \in Cuts : wire' = Chain(Encoded(sent), cut)
  /\ UNCHANGED <<sent, read>>

LenOf(p) == FoldLeft(LAMBDA n, b : n + Len(b), 0, p)

(* snmp_pdu_header_check, and snmp_recv's test that there is no error.     *)
HeaderCheck ==
  /\ wire # Nothing /\ read = Nothing
  /\ \E seq \in {Item(wire, 0)} : \E version \in {Item(wire, seq.at)} : \E community \in {Item(wire, version.end)} :
     \E pdu \in {Item(wire, community.end)} : \E rid \in {Item(wire, pdu.at)} : \E status \in {Item(wire, rid.end)} :
     \E index \in {Item(wire, status.end)} : \E list \in {Item(wire, index.end)} :
       read' =
         IF /\ Is(seq, SEQ) /\ seq.end = LenOf(wire)
            /\ NumberOf(wire, version) = [ok |-> TRUE, val |-> Version]
            /\ Is(community, OC_STR)
            /\ DecRaw(wire, community.at, community.len, CommunityLen) = [ok |-> TRUE, val |-> Public]
            /\ pdu.ok /\ pdu.type \in Asks /\ pdu.end = LenOf(wire)
            /\ NumberOf(wire, rid).ok /\ Is(list, SEQ)
            /\ NumberOf(wire, status) = [ok |-> TRUE, val |-> Version] /\ NumberOf(wire, index) = NumberOf(wire, status)
         THEN [ok |-> TRUE, pdu |-> pdu.type, rid |-> NumberOf(wire, rid).val, list |-> <<>>, ofs |-> list.at, left |-> list.len]
         ELSE Fail
  /\ UNCHANGED <<sent, wire>>

(* snmp_pdu_dec_varbindlist: a binding is a name and a value.              *)
DecVarbind ==
  /\ read # Nothing /\ read.ok /\ read.left > 0
  /\ \E seq \in {Item(wire, read.ofs)} : \E name \in {Item(wire, seq.at)} : \E id \in {DecOid(wire, name.at, name.len)} :
     \E val \in {Item(wire, name.end)} : \E got \in {ValueOf(wire, val)} :
       read' =
         IF Is(seq, SEQ) /\ seq.len \in 1..read.left /\ Is(name, OBJ_ID) /\ id.ok /\ val.ok /\ got.ok
         THEN [read EXCEPT !.list = Append(@, [name |-> id.val, type |-> val.type, val |-> got.val]),
                           !.ofs = val.end, !.left = @ - (val.end - read.ofs)]
         ELSE Fail
  /\ UNCHANGED <<sent, wire>>

Next == Transmit \/ HeaderCheck \/ DecVarbind

-----------------------------------------------------------------------------
TypeOK ==
  /\ \A k \in 1..Len(wire) : wire[k] # <<>> /\ \A i \in 1..Len(wire[k]) : wire[k][i] \in Octet
  /\ read = Nothing \/ read = Fail \/ read.left >= 0

(* The buffer that is asked for is filled exactly.                         *)
LengthsRight == wire # Nothing => LenOf(wire) = TotalLen(sent)

Readable(m) ==
  /\ m.pdu \in Asks /\ m.community = Public /\ m.status = Version /\ m.index = Version
  /\ \A vb \in ToSet(m.list) : vb.type \in Raw => Len(vb.val) < 256

(* What is read is what was written, wherever the buffers are cut, and     *)
(* only requests are read.                                                 *)
ReadAsWritten ==
  /\ read # Nothing /\ read.ok =>
       /\ sent.pdu \in Asks /\ read.pdu = sent.pdu /\ read.rid = sent.rid /\ IsPrefix(read.list, sent.list)
       /\ read.left = 0 => Readable(sent) /\ read.list = sent.list
  /\ read = Fail => ~Readable(sent)
=============================================================================
