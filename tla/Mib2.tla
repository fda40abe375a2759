-------------------------------- MODULE Mib2 --------------------------------
(***************************************************************************)
(* What is fixed of the management tree (lwip/core/snmp/mib2.c): the nodes *)
(* that are arrays and scalars, and of each object its access, its type    *)
(* and the form in which its value is written.  A name is relative to      *)
(* iso.org.dod.internet.                                                   *)
(***************************************************************************)
EXTENDS Integers, Sequences, FiniteSets, SequencesExt, FiniteSetsExt

(* The fixed part of the tree.                                             *)

Mib2 == <<2, 1>>

(* The scalars of each group; a table is at the group's number it has.     *)
Scalars ==
  1 :> 1..7 @@ 2 :> {1} @@ 4 :> (1..23) \ 20..22 @@ 5 :> 1..26 @@ 6 :> (1..15) \ {13} @@
  7 :> 1..4 @@ 11 :> (1..30) \ {7, 23}

(* Where a table starts, below which its entry is, and its columns.        *)
Tables ==
  [ifs   |-> [at |-> Mib2 \o <<2, 2>>, entry |-> <<1>>, columns |-> 22],
   arp   |-> [at |-> Mib2 \o <<3>>, entry |-> <<1, 1>>, columns |-> 3],
   addr  |-> [at |-> Mib2 \o <<4, 20>>, entry |-> <<1>>, columns |-> 5],
   route |-> [at |-> Mib2 \o <<4, 21>>, entry |-> <<1>>, columns |-> 13],
   ntom  |-> [at |-> Mib2 \o <<4, 22>>, entry |-> <<1>>, columns |-> 4],
   conn  |-> [at |-> Mib2 \o <<6, 13>>, entry |-> <<1>>, columns |-> 5],
   udp   |-> [at |-> Mib2 \o <<7, 5>>, entry |-> <<1>>, columns |-> 2]]

TableNames == DOMAIN Tables
Column(t, c) == Tables[t].at \o Tables[t].entry \o <<c>>

ScalarNodes == UNION {{Mib2 \o <<g, i>> : i \in Scalars[g]} : g \in DOMAIN Scalars}
ColumnNodes == UNION {{Column(t, c) : c \in 1..Tables[t].columns} : t \in TableNames}
FixedNodes == UNION {{SubSeq(p, 1, k) : k \in 0..Len(p)} : p \in ScalarNodes \union ColumnNodes}

FixedKids ==
  [p \in FixedNodes |->
     {q[Len(q)] : q \in {r \in FixedNodes : Len(r) = Len(p) + 1 /\ IsPrefix(p, r)}}]

(* The table a node belongs to.                                            *)
TableAt ==
  [p \in FixedNodes |->
     LET here == {t \in TableNames : IsPrefix(Tables[t].at, p)}
     IN IF here = {} THEN "none" ELSE CHOOSE t \in here : TRUE]

FixedTree == [kids |-> FixedKids, scalars |-> ScalarNodes, table |-> TableAt, tables |-> Tables]

-----------------------------------------------------------------------------
(* The objects: access, type, and what get_value writes for them.          *)
Object(access, type) == [access |-> access, type |-> type]
NoObject == Object("none", "none")

SystemDef(i) ==
  CASE i = 1 -> Object("ro", "string") [] i = 2 -> Object("ro", "oid") [] i = 3 -> Object("ro", "ticks")
    [] i \in 4..6 -> Object("rw", "string") [] i = 7 -> Object("ro", "int") [] OTHER -> NoObject
IfEntryDef(c) ==
  CASE c \in {1, 3, 4, 8} -> Object("ro", "int") [] c \in {2, 6} -> Object("ro", "string")
    [] c \in {5, 21} -> Object("ro", "gauge") [] c = 7 -> Object("rw", "int")
    [] c = 9 -> Object("ro", "ticks") [] c \in 10..20 -> Object("ro", "counter")
    [] c = 22 -> Object("ro", "oid") [] OTHER -> NoObject
AtEntryDef(c) ==
  CASE c = 1 -> Object("rw", "int") [] c = 2 -> Object("rw", "string")
    [] c = 3 -> Object("rw", "addr") [] OTHER -> NoObject
IpDef(i) ==
  CASE i \in 1..2 -> Object("rw", "int") [] i \in (3..19 \ {13}) \union {23} -> Object("ro", "counter")
    [] i = 13 -> Object("ro", "int") [] OTHER -> NoObject
AddrEntryDef(c) ==
  CASE c \in {1, 3} -> Object("ro", "addr") [] c \in {2, 4, 5} -> Object("ro", "int") [] OTHER -> NoObject
RouteEntryDef(c) ==
  CASE c \in {1, 7, 11} -> Object("rw", "addr") [] c \in {2, 3, 4, 5, 6, 8, 10, 12} -> Object("rw", "int")
    [] c = 9 -> Object("ro", "int") [] c = 13 -> Object("ro", "oid") [] OTHER -> NoObject
NtomEntryDef(c) ==
  CASE c \in {1, 4} -> Object("rw", "int") [] c = 2 -> Object("rw", "string")
    [] c = 3 -> Object("rw", "addr") [] OTHER -> NoObject
IcmpDef(i) == IF i \in 1..26 THEN Object("ro", "counter") ELSE NoObject
TcpDef(i) ==
  CASE i \in 1..4 -> Object("ro", "int") [] i \in 5..15 \ {9, 13} -> Object("ro", "counter")
    [] i = 9 -> Object("ro", "gauge") [] OTHER -> NoObject
UdpDef(i) == IF i \in 1..5 THEN Object("ro", "counter") ELSE NoObject
UdpEntryDef(c) ==
  CASE c = 1 -> Object("ro", "addr") [] c = 2 -> Object("ro", "int") [] OTHER -> NoObject
SnmpDef(i) ==
  CASE i \in 1..29 \ {7, 23} -> Object("ro", "counter") [] i = 30 -> Object("rw", "int") [] OTHER -> NoObject

ScalarDef(g, i) ==
  CASE g = 1 -> SystemDef(i) [] g = 2 -> Object("ro", "int") [] g = 4 -> IpDef(i) [] g = 5 -> IcmpDef(i)
    [] g = 6 -> TcpDef(i) [] g = 7 -> UdpDef(i) [] OTHER -> SnmpDef(i)
ColumnDef(t, c) ==
  CASE t = "ifs" -> IfEntryDef(c) [] t = "arp" -> AtEntryDef(c) [] t = "addr" -> AddrEntryDef(c)
    [] t = "route" -> RouteEntryDef(c) [] t = "ntom" -> NtomEntryDef(c) [] t = "udp" -> UdpEntryDef(c)
    [] OTHER -> NoObject

(* The C type of a value.                                                  *)
Form(type) == IF type \in {"counter", "gauge", "ticks"} THEN "unsigned" ELSE type

SystemValue(i) ==
  CASE i \in {1, 4, 5, 6} -> "string" [] i = 2 -> "oid" [] i = 3 -> "unsigned" [] i = 7 -> "int" [] OTHER -> "none"
IfEntryValue(c) ==
  CASE c \in {1, 3, 4, 7, 8} -> "int" [] c \in {2, 6} -> "string" [] c \in {5} \union 9..21 -> "unsigned"
    [] c = 22 -> "oid" [] OTHER -> "none"
AtEntryValue(c) == CASE c = 1 -> "int" [] c = 2 -> "string" [] c = 3 -> "addr" [] OTHER -> "none"
IpValue(i) ==
  CASE i \in {1, 2, 13} -> "int" [] i \in (3..19 \ {13}) \union {23} -> "unsigned" [] OTHER -> "none"
AddrEntryValue(c) == CASE c \in {1, 3} -> "addr" [] c \in {2, 4, 5} -> "int" [] OTHER -> "none"
RouteEntryValue(c) ==
  CASE c \in {1, 7, 11} -> "addr" [] c \in {2, 3, 4, 5, 6, 8, 9, 10, 12} -> "int" [] c = 13 -> "oid" [] OTHER -> "none"
NtomEntryValue(c) ==
  CASE c \in {1, 4} -> "int" [] c = 2 -> "string" [] c = 3 -> "addr" [] OTHER -> "none"
IcmpValue(i) == IF i \in 1..26 THEN "unsigned" ELSE "none"
TcpValue(i) == CASE i \in 1..4 -> "int" [] i \in 5..15 \ {13} -> "unsigned" [] OTHER -> "none"
UdpValue(i) == IF i \in 1..4 THEN "unsigned" ELSE "none"
UdpEntryValue(c) == CASE c = 1 -> "addr" [] c = 2 -> "int" [] OTHER -> "none"
SnmpValue(i) == CASE i \in 1..29 \ {7, 23} -> "unsigned" [] i = 30 -> "int" [] OTHER -> "none"

ScalarValue(g, i) ==
  CASE g = 1 -> SystemValue(i) [] g = 2 -> (IF i = 1 THEN "int" ELSE "none") [] g = 4 -> IpValue(i)
    [] g = 5 -> IcmpValue(i) [] g = 6 -> TcpValue(i) [] g = 7 -> UdpValue(i) [] OTHER -> SnmpValue(i)
=============================================================================
