------------------------------- MODULE SnmpMib -------------------------------
(***************************************************************************)
(* The management tree: lwip/core/snmp/mib2.c with the tree functions of   *)
(* mib_structs.c, and the calls of netif.c, etharp.c and udp.c that enter  *)
(* and remove rows.  There is one interface, the default one, as main      *)
(* leaves it.  mem_malloc gives memory: _sbrk has no limit on this board.  *)
(*                                                                         *)
(* A name is relative to iso.org.dod.internet.  The rows of a table are a  *)
(* tree of lists, here the set of its nodes' paths.  The addresses have    *)
(* Len(Zero) sub-identifiers, four in the code.                              *)
(***************************************************************************)
EXTENDS Mib2

CONSTANTS Tree,     \* FixedTree, which TLC so computes once
          IfAddr,   \* addresses the interface may get
          ArpAddr,  \* addresses the ARP table may have
          Pcb,      \* UDP control blocks
          UdpAddr,  \* local addresses they are bound to
          Ports,
          Zero,     \* 0.0.0.0
          MaskLen,  \* bytes of an address in a network's
          Probes    \* further names to ask for

MibAssumption ==
  /\ Zero \in UdpAddr /\ IsFiniteSet(Pcb) /\ MaskLen \in 1..Len(Zero)
  /\ \A a \in IfAddr \union ArpAddr \union UdpAddr : Len(a) = Len(Zero)

VARIABLES
  address,  \* netif->ip_addr
  stable,   \* addresses in stable ARP entries
  bound,    \* the local address and port of each control block
  rows,     \* iflist_root, arptree_root, ...: the nodes of each table's tree
  shown     \* maxlength of iftable, at, ...: whether the table is traversed

vars == <<address, stable, bound, rows, shown>>

Unbound == <<>>

-----------------------------------------------------------------------------
(* The tree as it is now: below a table's column, lists, whose nodes lead  *)
(* nowhere at a row's full depth.                                          *)
Depth(t) == IF t = "ifs" THEN 1 ELSE IF t \in {"addr", "route"} THEN Len(Zero) ELSE 1 + Len(Zero)

Fixed(p) == p \in DOMAIN Tree.kids
TableWith(p) ==
  IF Fixed(p) THEN Tree.table[p]
  ELSE Tree.table[SubSeq(p, 1, Max({k \in 1..Len(p) : Fixed(SubSeq(p, 1, k))}))]
InColumn(p, t) == Len(p) > Len(Tree.tables[t].at) + Len(Tree.tables[t].entry)
RowPath(p, t) == SubSeq(p, Len(Tree.tables[t].at) + Len(Tree.tables[t].entry) + 2, Len(p))

Below(tree, path) == {q[Len(q)] : q \in {r \in tree : Len(r) = Len(path) + 1 /\ IsPrefix(path, r)}}

Kids(p) ==
  LET t == TableWith(p)
  IN IF t = "none" THEN Tree.kids[p]
     ELSE IF InColumn(p, t) THEN Below(rows[t], RowPath(p, t))
     ELSE IF p = Tree.tables[t].at /\ ~shown[t] THEN {} ELSE Tree.kids[p]

Scalar(p) == p \in Tree.scalars
Leaf(p) == ~Fixed(p) /\ LET t == TableWith(p) IN Len(RowPath(p, t)) = Depth(t)

(* empty_table                                                             *)
Empty(p) == ~Leaf(p) /\ ~Scalar(p) /\ Kids(p) = {}

(* snmp_search_tree, and get_object_def's test of the name's length.       *)
RECURSIVE Search(_, _)
Search(p, name) ==
  IF Scalar(p) THEN name = <<0>>
  ELSE IF name = <<>> \/ Head(name) \notin Kids(p) THEN FALSE
  ELSE LET q == Append(p, Head(name)) IN IF Leaf(q) THEN Len(name) = 1 ELSE Search(q, Tail(name))

(* Mutant: the sibling to climb to is taken without looking into it.       *)
SiblingNear(p, id) ==
  LET later == {k \in Kids(p) : k > id} IN IF later = {} THEN <<>> ELSE <<Append(p, Min(later))>>

(* Where to go on when nothing follows below a sub-identifier: the next    *)
(* one that is not an empty table.                                         *)
Sibling(p, id) ==
  LET later == {k \in Kids(p) : k > id /\ ~Empty(Append(p, k))}
  IN IF later = {} THEN <<>> ELSE <<Append(p, Min(later))>>

(* snmp_expand_tree: the name that is returned, <<>> when there is none.   *)
(* The name being built, "oid", and the node are kept apart: climbing      *)
(* takes one sub-identifier off for every entry of the stack.              *)
RECURSIVE Expand(_, _, _, _), Climb(_, _)
Expand(p, name, oid, stack) ==
  LET fits == {k \in Kids(p) : IF name = <<>> THEN ~Empty(Append(p, k)) ELSE k >= Head(name)}
      id == Min(fits)
      after == {k \in fits : k > id}
  IN CASE Scalar(p) -> IF name = <<>> THEN Append(oid, 0) ELSE Climb(oid, stack)
       [] ~Scalar(p) /\ fits = {} -> Climb(oid, stack)
       [] ~Scalar(p) /\ fits # {} /\ Leaf(Append(p, id)) ->
            IF name = <<>> \/ id > Head(name) THEN Append(oid, id)
            ELSE IF after # {} THEN Append(oid, Min(after)) ELSE Climb(oid, stack)
       [] ~Scalar(p) /\ fits # {} /\ ~Leaf(Append(p, id)) ->
            IF name = <<>> THEN Expand(Append(p, id), <<>>, Append(oid, id), stack)
            ELSE Expand(Append(p, id), IF id = Head(name) THEN Tail(name) ELSE <<>>,
                        Append(oid, id), Append(stack, Sibling(p, id)))
Climb(oid, stack) ==
  IF stack = <<>> THEN <<>>
  ELSE LET top == stack[Len(stack)] short == Front(oid)
       IN IF top = <<>> THEN Climb(short, Front(stack))
          ELSE Expand(top[1], <<>>, Append(short, top[1][Len(top[1])]), Front(stack))

NextName(name) == Expand(<<>>, name, <<>>, <<>>)

(* snmp_mib_node_insert at every level.                                    *)
InsertRow(tree, row) == tree \union {SubSeq(row, 1, k) : k \in 1..Len(row)}

Branches(tree, path) == Cardinality(Below(tree, path)) > 1

(* Mutant: what was collected is kept where the tree branches.             *)
RemoveRowAll(tree, row) ==
  IF row \in tree THEN tree \ {SubSeq(row, 1, k) : k \in 1..Len(row)} ELSE tree

(* snmp_mib_node_find on the way down, snmp_mib_node_delete on the way up: *)
(* only what is below the last branch goes.                                *)
RemoveRow(tree, row) ==
  LET last == Max({0} \union {k \in 1..(Len(row) - 1) : Branches(tree, SubSeq(row, 1, k))})
  IN IF row \in tree THEN tree \ {SubSeq(row, 1, k) : k \in (last + 1)..Len(row)} ELSE tree

-----------------------------------------------------------------------------
Network(a) == [k \in 1..Len(a) |-> IF k <= MaskLen THEN a[k] ELSE 0]

(* Whether get_value finds what the row is about; if not, it writes none.  *)
Subject(t, row) ==
  CASE t = "ifs" -> row = <<1>>
    [] t \in {"arp", "ntom"} -> Tail(row) \in stable
    [] t = "addr" -> row = address
    [] t = "route" -> row = Zero \/ Network(row) = Network(address)
    [] t = "udp" -> \E b \in Pcb : bound[b] = row
    [] OTHER -> FALSE

ColumnValue(t, c, row) ==
  IF ~Subject(t, row) THEN "none"
  ELSE CASE t = "ifs" -> IfEntryValue(c) [] t = "arp" -> AtEntryValue(c) [] t = "addr" -> AddrEntryValue(c)
         [] t = "route" -> RouteEntryValue(c) [] t = "ntom" -> NtomEntryValue(c) [] OTHER -> UdpEntryValue(c)

-----------------------------------------------------------------------------
(* After netif_add with no address, snmp_inc_iflist and netif_set_default. *)
Init ==
  /\ address = Zero /\ stable = {} /\ bound = [b \in Pcb |-> Unbound]
  /\ rows = [t \in TableNames |->
               CASE t = "ifs" -> {<<1>>} [] t \in {"addr", "route"} -> InsertRow({}, Zero) [] OTHER -> {}]
  /\ shown = [t \in TableNames |-> t \in {"ifs", "addr", "route"}]

(* snmp_delete_iprteidx_tree and snmp_insert_iprteidx_tree for an          *)
(* interface; the default route is another row.                            *)
RouteOf(a) == Network(a)
WithoutRoute(tree, a) == IF RouteOf(a) = Zero THEN tree ELSE RemoveRow(tree, RouteOf(a))
WithRoute(tree, a) == IF RouteOf(a) = Zero THEN tree ELSE InsertRow(tree, RouteOf(a))

(* netif_set_addr                                                          *)
SetAddr(a) ==
  /\ address' = a
  /\ rows' = [rows EXCEPT !.addr = InsertRow(RemoveRow(@, address), a),
                          !.route = WithRoute(WithoutRoute(@, address), a)]
  /\ shown' = [shown EXCEPT !.addr = TRUE, !.route = TRUE]
  /\ UNCHANGED <<stable, bound>>

(* update_arp_entry: snmp_insert_arpidx_tree, into both trees.             *)
ArpInsert(a) ==
  /\ stable' = stable \union {a}
  /\ rows' = [rows EXCEPT !.arp = InsertRow(@, <<1>> \o a), !.ntom = InsertRow(@, <<1>> \o a)]
  /\ shown' = [shown EXCEPT !.arp = TRUE, !.ntom = TRUE]
  /\ UNCHANGED <<address, bound>>

(* Mutant: the ARP entry leaves the first tree only.                       *)
ArpDeleteOne(a) ==
  /\ stable' = stable \ {a}
  /\ rows' = [rows EXCEPT !.arp = RemoveRow(@, <<1>> \o a)]
  /\ shown' = [shown EXCEPT !.arp = @ /\ rows'.arp # {}]
  /\ UNCHANGED <<address, bound>>

(* An entry expires or is recycled, whether it was stable or pending.      *)
ArpDelete(a) ==
  /\ stable' = stable \ {a}
  /\ rows' = [rows EXCEPT !.arp = RemoveRow(@, <<1>> \o a), !.ntom = RemoveRow(@, <<1>> \o a)]
  /\ shown' = [shown EXCEPT !.arp = @ /\ rows'.arp # {}, !.ntom = @ /\ rows'.ntom # {}]
  /\ UNCHANGED <<address, bound>>

(* udp_bind of a block that is not bound yet.                              *)
UdpBind(b, a, port) ==
  /\ bound[b] = Unbound
  /\ bound' = [bound EXCEPT ![b] = Append(a, port)]
  /\ rows' = [rows EXCEPT !.udp = InsertRow(@, Append(a, port))]
  /\ shown' = [shown EXCEPT !.udp = TRUE]
  /\ UNCHANGED <<address, stable>>

(* snmp_delete_udpidx_tree counts the blocks with the same binding; it     *)
(* compares their addresses with one whose bytes it has put in host order. *)
Bindings(b) == {c \in Pcb : bound[c] # Unbound /\ bound[c] = Append(Reverse(Front(bound[b])), bound[b][Len(bound[b])])}

(* Mutant: the binding that goes is the last one or not.                   *)
UdpRemoveAny(b) ==
  /\ bound[b] # Unbound
  /\ bound' = [bound EXCEPT ![b] = Unbound]
  /\ rows' = [rows EXCEPT !.udp = RemoveRow(@, bound[b])]
  /\ shown' = [shown EXCEPT !.udp = @ /\ rows'.udp # {}]
  /\ UNCHANGED <<address, stable>>

(* udp_remove                                                              *)
UdpRemove(b) ==
  /\ bound[b] # Unbound
  /\ bound' = [bound EXCEPT ![b] = Unbound]
  /\ rows' = [rows EXCEPT !.udp = IF Cardinality(Bindings(b)) = 1 THEN RemoveRow(@, bound[b]) ELSE @]
  /\ shown' = [shown EXCEPT !.udp = @ /\ rows'.udp # {}]
  /\ UNCHANGED <<address, stable>>

Next ==
  \/ \E a \in IfAddr \union {Zero} : SetAddr(a)
  \/ \E a \in ArpAddr : ArpInsert(a) \/ ArpDelete(a)
  \/ \E b \in Pcb : UdpRemove(b) \/ \E a \in UdpAddr, port \in Ports : UdpBind(b, a, port)

-----------------------------------------------------------------------------
TypeOK ==
  /\ address \in IfAddr \union {Zero} /\ stable \subseteq ArpAddr
  /\ \A b \in Pcb : bound[b] = Unbound \/ (Front(bound[b]) \in UdpAddr /\ bound[b][Len(bound[b])] \in Ports)
  /\ \A t \in TableNames : \A r \in rows[t] : Len(r) \in 1..Depth(t)
  /\ shown \in [TableNames -> BOOLEAN]

(* The rows a table should have.                                           *)
Expected ==
  [t \in TableNames |->
     CASE t = "ifs" -> {<<1>>}
       [] t \in {"arp", "ntom"} -> {<<1>> \o a : a \in stable}
       [] t = "addr" -> {address}
       [] t = "route" -> {Zero, RouteOf(address)}
       [] t = "udp" -> {bound[b] : b \in Pcb} \ {Unbound}
       [] OTHER -> {}]

(* Whatever was entered and removed in whatever order, each table has the  *)
(* rows of what there is, and no list without a row below.                 *)
RowsMatch ==
  \A t \in TableNames :
    /\ rows[t] = UNION {{SubSeq(r, 1, k) : k \in 1..Len(r)} : r \in Expected[t]}
    /\ shown[t] = (rows[t] # {})

Before(a, b) ==
  \E i \in 1..Len(b) : (\A j \in 1..(i - 1) : j <= Len(a) /\ a[j] = b[j]) /\ (i > Len(a) \/ a[i] < b[i])

Instances ==
  {Append(p, 0) : p \in Tree.scalars} \union
  UNION {{Tree.tables[t].at \o Tree.tables[t].entry \o <<c>> \o r :
            c \in 1..Tree.tables[t].columns, r \in Expected[t]} : t \in TableNames}

RECURSIVE Walk(_, _)
Walk(name, steps) ==
  LET next == NextName(name)
  IN IF steps = 0 \/ ~Before(name, next) THEN {} ELSE {next} \union Walk(next, steps - 1)

(* Asking for the next name again and again, from the start, goes through  *)
(* every instance of every object in order and then ends; from any other   *)
(* name it gives the first instance after it.  A search finds the          *)
(* instances and nothing else.                                             *)
WalkIsComplete ==
  LET walk == Walk(<<>>, Cardinality(Instances) + 1)
  IN /\ walk = Instances
     /\ NextName(Mib2 \o <<11, 30, 0>>) = <<>>
     /\ \A p \in Probes :
          LET later == {q \in Instances : Before(p, q)}
          IN NextName(p) = IF later = {} THEN <<>> ELSE CHOOSE q \in later : \A r \in later : ~Before(r, q)
     /\ \A q \in Instances \union Probes : Search(<<>>, q) <=> q \in Instances

(* Every instance has a definition, and its value is found and written in  *)
(* the form its type has.                                                  *)
ValuesWritten ==
  /\ \A g \in DOMAIN Scalars : \A i \in Scalars[g] :
       ScalarDef(g, i) # NoObject /\ ScalarValue(g, i) = Form(ScalarDef(g, i).type)
  /\ \A t \in TableNames : \A r \in {q \in rows[t] : Len(q) = Depth(t)} : \A c \in 1..Tables[t].columns :
       ColumnDef(t, c) # NoObject /\ ColumnValue(t, c, r) = Form(ColumnDef(t, c).type)
=============================================================================
