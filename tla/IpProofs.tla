------------------------------- MODULE IpProofs -------------------------------
(* Theorems about interfaces and packets, for every set of interfaces,     *)
(* networks, raw blocks and packets: buffers are freed once, the lists     *)
(* stay whole, connections have an address of ours, and what is answered   *)
(* and sent goes where it may: lwip/core/netif.c, raw.c, ipv4 and udp.c.   *)
EXTENDS Ip, SequenceTheorems, WellFoundedInduction, TLAPS

-----------------------------------------------------------------------------
(* Every set of natural numbers that is not empty has a least element.     *)
LEMMA LeastOf ==
  ASSUME NEW T \in SUBSET Nat, T # {}
  PROVE  Min(T) \in T
<1> DEFINE R == OpToRel(<, Nat)
<1>1. IsWellFoundedOn(R, Nat)
  BY NatLessThanWellFounded, Zenon
<1>2. PICK m \in T : \A n \in T : ~(<<n, m>> \in R)
  BY <1>1, WFMin, Zenon
<1>3. \A n \in T : n < m => <<n, m>> \in R
  BY Zenon DEF OpToRel
<1>4. \A n \in T : ~(n < m)
  BY <1>2, <1>3, Zenon
<1> HIDE DEF R
<1>5. \E x \in T : \A y \in T : x <= y
  BY <1>4
<1> QED BY <1>5 DEF Min

(* A list by its places.                                                   *)
LEMMA ListIs ==
  ASSUME NEW S, NEW s \in Seq(S)
  PROVE  /\ Len(s) \in Nat /\ DOMAIN s = 1..Len(s) /\ s \in [1..Len(s) -> S]
         /\ Range(s) \subseteq S
         /\ \A x : x \in Range(s) <=> \E i \in 1..Len(s) : s[i] = x
         /\ IsInjective(s) <=> \A i, j \in 1..Len(s) : s[i] = s[j] => i = j
<1>1. /\ Len(s) \in Nat /\ DOMAIN s = 1..Len(s) /\ s \in [1..Len(s) -> S]
  BY LenProperties
<1>2. \A x : x \in Range(s) <=> \E i \in 1..Len(s) : s[i] = x
  BY <1>1 DEF Range
<1>3. IsInjective(s) <=> \A i, j \in 1..Len(s) : s[i] = s[j] => i = j
  BY <1>1 DEF IsInjective
<1>4. Range(s) \subseteq S
  BY <1>1, <1>2
<1> QED BY <1>1, <1>2, <1>3, <1>4

(* Taking an item out of a list.                                           *)
LEMMA RemoveAtIs ==
  ASSUME NEW S, NEW s \in Seq(S), NEW n \in 1..Len(s)
  PROVE  /\ RemoveAt(s, n) \in Seq(S) /\ Len(RemoveAt(s, n)) = Len(s) - 1
         /\ \A i \in 1..Len(s) - 1 :
              RemoveAt(s, n)[i] = IF i < n THEN s[i] ELSE s[i + 1]
<1> DEFINE left == SubSeq(s, 1, n - 1)
           right == SubSeq(s, n + 1, Len(s))
<1>1. Len(s) \in Nat /\ \A i \in 1..Len(s) : s[i] \in S
  BY ListIs
<1>2. /\ left \in Seq(S) /\ Len(left) = n - 1
      /\ \A i \in 1..n - 1 : left[i] = s[i]
  <2>1. \A i \in 1..n - 1 : s[i] \in S
    BY <1>1
  <2>2. /\ left \in Seq(S) /\ Len(left) = IF 1 <= n - 1 THEN n - 1 - 1 + 1 ELSE 0
        /\ \A i \in 1..n - 1 - 1 + 1 : left[i] = s[1 + i - 1]
    BY <1>1, <2>1, SubSeqProperties
  <2> HIDE DEF left
  <2>3. \A i \in 1..n - 1 : i \in 1..n - 1 - 1 + 1 /\ 1 + i - 1 = i
    BY <1>1
  <2>4. \A i \in 1..n - 1 : left[i] = s[i]
    BY <2>2, <2>3
  <2> QED BY <1>1, <2>2, <2>4
<1>3. /\ right \in Seq(S) /\ Len(right) = Len(s) - n
      /\ \A i \in 1..Len(s) - n : right[i] = s[n + i]
  <2>1. \A i \in n + 1..Len(s) : s[i] \in S
    BY <1>1
  <2>2. n + 1 \in Int /\ Len(s) \in Int
    BY <1>1
  <2>3. /\ right \in Seq(S)
        /\ Len(right) = IF n + 1 <= Len(s) THEN Len(s) - (n + 1) + 1 ELSE 0
        /\ \A i \in 1..Len(s) - (n + 1) + 1 : right[i] = s[(n + 1) + i - 1]
    BY <2>1, <2>2, SubSeqProperties
  <2> HIDE DEF right
  <2>4. \A i \in 1..Len(s) - n : i \in 1..Len(s) - (n + 1) + 1 /\ (n + 1) + i - 1 = n + i
    BY <1>1
  <2>5. \A i \in 1..Len(s) - n : right[i] = s[n + i]
    BY <2>3, <2>4
  <2> QED BY <1>1, <2>3, <2>5
<1> HIDE DEF left, right
<1>4. /\ left \o right \in Seq(S) /\ Len(left \o right) = Len(left) + Len(right)
      /\ \A i \in 1..Len(left) + Len(right) :
           (left \o right)[i] = IF i <= Len(left) THEN left[i] ELSE right[i - Len(left)]
  BY <1>2, <1>3, ConcatProperties
<1>5. RemoveAt(s, n) = left \o right
  BY DEF RemoveAt, left, right
<1>6. \A i \in 1..Len(s) - 1 :
        (left \o right)[i] = IF i < n THEN s[i] ELSE s[i + 1]
  <2> SUFFICES ASSUME NEW i \in 1..Len(s) - 1
               PROVE  (left \o right)[i] = IF i < n THEN s[i] ELSE s[i + 1]
    OBVIOUS
  <2>1. CASE i < n
    <3>1. i \in 1..n - 1 /\ i \in 1..Len(left) + Len(right) /\ i <= Len(left)
      BY <1>1, <1>2, <1>3, <2>1
    <3> QED BY <1>2, <1>4, <2>1, <3>1
  <2>2. CASE ~(i < n)
    <3>1. /\ i - Len(left) \in 1..Len(s) - n /\ i \in 1..Len(left) + Len(right)
          /\ ~(i <= Len(left)) /\ n + (i - Len(left)) = i + 1
      BY <1>1, <1>2, <1>3, <2>2
    <3> QED BY <1>3, <1>4, <2>2, <3>1
  <2> QED BY <2>1, <2>2
<1>7. Len(left) + Len(right) = Len(s) - 1
  BY <1>1, <1>2, <1>3
<1> QED BY <1>4, <1>5, <1>6, <1>7

(* A list that holds nothing twice loses one item only.                    *)
LEMMA WithoutOne ==
  ASSUME NEW S, NEW s \in Seq(S), NEW n \in 1..Len(s), IsInjective(s)
  PROVE  /\ RemoveAt(s, n) \in Seq(S) /\ IsInjective(RemoveAt(s, n))
         /\ Range(RemoveAt(s, n)) = Range(s) \ {s[n]}
<1> DEFINE r == RemoveAt(s, n)
<1>1. /\ r \in Seq(S) /\ Len(r) = Len(s) - 1 /\ Len(s) \in Nat /\ Len(r) \in Nat
      /\ \A i \in 1..Len(r) : r[i] = IF i < n THEN s[i] ELSE s[i + 1]
  BY RemoveAtIs, ListIs
<1> HIDE DEF r
<1>2. \A i, j \in 1..Len(s) : s[i] = s[j] => i = j
  BY ListIs
<1>3. ASSUME NEW i \in 1..Len(r), NEW j \in 1..Len(r), r[i] = r[j] PROVE i = j
  <2>1. i \in 1..Len(s) /\ i + 1 \in 1..Len(s) /\ j \in 1..Len(s) /\ j + 1 \in 1..Len(s)
    BY <1>1
  <2> QED BY <1>1, <1>2, <1>3, <2>1
<1>4. ASSUME NEW x PROVE x \in Range(r) <=> x \in Range(s) \ {s[n]}
  <2>1. ASSUME NEW i \in 1..Len(r), r[i] = x PROVE \E j \in 1..Len(s) : s[j] = x /\ j # n
    <3>1. i \in 1..Len(s) /\ i + 1 \in 1..Len(s)
      BY <1>1
    <3>2. CASE i < n
      BY <1>1, <2>1, <3>1, <3>2
    <3>3. CASE ~(i < n)
      <4>1. i + 1 # n /\ s[i + 1] = x
        BY <1>1, <2>1, <3>1, <3>3
      <4> QED BY <3>1, <4>1
    <3> QED BY <3>2, <3>3
  <2>2. ASSUME NEW j \in 1..Len(s), s[j] = x, j # n PROVE \E i \in 1..Len(r) : r[i] = x
    <3>1. CASE j < n
      <4>1. j \in 1..Len(r) /\ r[j] = x
        BY <1>1, <2>2, <3>1
      <4> QED BY <4>1
    <3>2. CASE ~(j < n)
      <4>1. j - 1 \in 1..Len(r) /\ ~(j - 1 < n) /\ (j - 1) + 1 = j
        BY <1>1, <2>2, <3>2
      <4>2. r[j - 1] = x
        BY <1>1, <2>2, <4>1
      <4> QED BY <4>1, <4>2
    <3> QED BY <3>1, <3>2
  <2>3. x \in Range(r) <=> \E i \in 1..Len(r) : r[i] = x
    BY <1>1, ListIs
  <2>4. x \in Range(s) <=> \E j \in 1..Len(s) : s[j] = x
    BY ListIs
  <2>5. (\E j \in 1..Len(s) : s[j] = x /\ j # n) <=> x \in Range(s) /\ x # s[n]
    BY <1>2, <2>4
  <2> QED BY <2>1, <2>2, <2>3, <2>5
<1>5. Range(r) = Range(s) \ {s[n]}
  BY <1>4
<1>6. IsInjective(r)
  BY <1>1, <1>3, ListIs
<1> QED BY <1>1, <1>5, <1>6 DEF r

(* Putting an item that is not in a list in front of it.                   *)
LEMMA InFront ==
  ASSUME NEW S, NEW s \in Seq(S), NEW x \in S
  PROVE  /\ <<x>> \o s \in Seq(S) /\ Range(<<x>> \o s) = Range(s) \cup {x}
         /\ IsInjective(s) /\ x \notin Range(s) => IsInjective(<<x>> \o s)
<1> DEFINE r == <<x>> \o s
<1>1. /\ r \in Seq(S) /\ Len(r) = 1 + Len(s) /\ Len(s) \in Nat
      /\ \A i \in 1..Len(r) : r[i] = IF i <= 1 THEN x ELSE s[i - 1]
  <2>1. <<x>> \in Seq(S) /\ Len(<<x>>) = 1 /\ <<x>>[1] = x
    OBVIOUS
  <2>2. /\ r \in Seq(S) /\ Len(r) = Len(<<x>>) + Len(s)
        /\ \A i \in 1..Len(<<x>>) + Len(s) :
             r[i] = IF i <= Len(<<x>>) THEN <<x>>[i] ELSE s[i - Len(<<x>>)]
    BY <2>1, ConcatProperties
  <2>3. Len(s) \in Nat
    BY ListIs
  <2> HIDE DEF r
  <2> QED BY <2>1, <2>2, <2>3
<1> HIDE DEF r
<1>2. ASSUME NEW y PROVE y \in Range(r) <=> y \in Range(s) \cup {x}
  <2>1. ASSUME NEW j \in 1..Len(s), s[j] = y PROVE \E i \in 1..Len(r) : r[i] = y
    <3>1. j + 1 \in 1..Len(r) /\ ~(j + 1 <= 1) /\ (j + 1) - 1 = j
      BY <1>1
    <3> QED BY <1>1, <2>1, <3>1
  <2>2. 1 \in 1..Len(r) /\ r[1] = x
    BY <1>1
  <2>3. ASSUME NEW i \in 1..Len(r), r[i] = y PROVE y = x \/ \E j \in 1..Len(s) : s[j] = y
    <3>1. CASE i = 1
      BY <2>2, <2>3, <3>1
    <3>2. CASE i # 1
      <4>1. i - 1 \in 1..Len(s) /\ ~(i <= 1)
        BY <1>1, <3>2
      <4> QED BY <1>1, <2>3, <4>1
    <3> QED BY <3>1, <3>2
  <2>4. y \in Range(r) <=> \E i \in 1..Len(r) : r[i] = y
    BY <1>1, ListIs
  <2>5. y \in Range(s) <=> \E j \in 1..Len(s) : s[j] = y
    BY ListIs
  <2> QED BY <2>1, <2>2, <2>3, <2>4, <2>5
<1>3. ASSUME IsInjective(s), x \notin Range(s), NEW i \in 1..Len(r), NEW j \in 1..Len(r), r[i] = r[j]
      PROVE  i = j
  <2>1. \A m, n \in 1..Len(s) : s[m] = s[n] => m = n
    BY <1>3, ListIs
  <2>2. \A m \in 1..Len(s) : s[m] # x
    BY <1>3, ListIs
  <2>3. /\ ~(i <= 1) => i - 1 \in 1..Len(s) /\ r[i] = s[i - 1]
        /\ ~(j <= 1) => j - 1 \in 1..Len(s) /\ r[j] = s[j - 1]
        /\ i <= 1 => r[i] = x
        /\ j <= 1 => r[j] = x
    BY <1>1
  <2> QED BY <1>3, <2>1, <2>2, <2>3
<1>4. Range(r) = Range(s) \cup {x}
  BY <1>2
<1> QED BY <1>1, <1>3, <1>4, ListIs DEF r

(* netif_remove and raw_remove, for an item of the list.                   *)
LEMMA UnlinkedIs ==
  ASSUME NEW S, NEW s \in Seq(S), IsInjective(s), NEW x \in Range(s)
  PROVE  /\ Unlinked(s, x) \in Seq(S) /\ IsInjective(Unlinked(s, x))
         /\ Range(Unlinked(s, x)) = Range(s) \ {x}
<1>1. PICK n \in 1..Len(s) : s[n] = x /\ n = CHOOSE k \in DOMAIN s : s[k] = x
  BY ListIs
<1> QED BY <1>1, WithoutOne DEF Unlinked

(* raw_input moves a block to the front and loses none.                    *)
LEMMA ToFrontIs ==
  ASSUME NEW S, NEW s \in Seq(S), IsInjective(s), NEW n \in 1..Len(s)
  PROVE  ToFront(s, n) \in Seq(S) /\ IsInjective(ToFront(s, n)) /\ Range(ToFront(s, n)) = Range(s)
<1>1. s[n] \in S /\ s[n] \in Range(s)
  BY ListIs
<1>2. /\ RemoveAt(s, n) \in Seq(S) /\ IsInjective(RemoveAt(s, n))
      /\ Range(RemoveAt(s, n)) = Range(s) \ {s[n]}
  BY WithoutOne
<1> DEFINE r == RemoveAt(s, n)
<1> HIDE DEF r
<1>3. /\ <<s[n]>> \o r \in Seq(S) /\ IsInjective(<<s[n]>> \o r)
      /\ Range(<<s[n]>> \o r) = Range(r) \cup {s[n]}
  <2>1. r \in Seq(S) /\ IsInjective(r) /\ s[n] \notin Range(r)
    BY <1>2 DEF r
  <2> QED BY <1>1, <2>1, InFront
<1>4. Range(r) = Range(s) \ {s[n]} /\ ToFront(s, n) = <<s[n]>> \o r
  BY <1>2 DEF r, ToFront
<1> QED BY <1>1, <1>3, <1>4

(* Appending.                                                              *)
LEMMA AppendIs ==
  ASSUME NEW S, NEW s \in Seq(S), NEW x \in S
  PROVE  Append(s, x) \in Seq(S) /\ Range(Append(s, x)) = Range(s) \cup {x}
<1> DEFINE r == Append(s, x)
<1>1. /\ r \in Seq(S) /\ Len(r) = Len(s) + 1 /\ Len(s) \in Nat
      /\ \A i \in 1..Len(s) : r[i] = s[i]
      /\ r[Len(s) + 1] = x
  BY AppendProperties, ListIs
<1> HIDE DEF r
<1>2. ASSUME NEW y PROVE y \in Range(r) <=> y \in Range(s) \cup {x}
  <2>1. (\E i \in 1..Len(s) + 1 : r[i] = y) <=> (\E i \in 1..Len(s) : s[i] = y) \/ y = x
    BY <1>1
  <2> QED BY <1>1, <2>1, ListIs
<1> QED BY <1>1, <1>2 DEF r

-----------------------------------------------------------------------------
(* What the handlers work on.                                              *)
Kind == {"arp", "port", "protocol", "raw", "reply", "time", "udp"}
Message == [src : Address, dest : Address, kind : Kind, by : Netif, hop : Address]
PacketType ==
  [src : Address, dest : Address, good : BOOLEAN, proto : Protocol,
   body : {"echo", "open", "closed", "dhcp", "spoilt", "rest"},
   part : {"whole", "first", "later"}, room : BOOLEAN]
Records ==
  [raws : Seq(Raw), held : [packet : Packet \cup {NoPacket}, n : Nat, first : BOOLEAN],
   live : Int, sent : Seq(Message), heard : Seq([host : Address, hard : BOOLEAN])]

(* b is what a becomes when it gives n buffers away and sends of msgs.     *)
Only(a, b, n, msgs) ==
  /\ b \in Records /\ b.raws = a.raws /\ b.held = a.held /\ b.live = a.live - n
  /\ Range(b.sent) \subseteq Range(a.sent) \cup msgs

LEMMA Addresses ==
  ASSUME IpAssumption
  PROVE  /\ Given \subseteq Address /\ Dests \subseteq Address
         /\ Packet \subseteq PacketType /\ NoPacket \in PacketType
         /\ AnyHost \in Address /\ Ones \in Address /\ Group \in Address
         /\ AnyHost # Ones /\ AnyHost # Group /\ Group \notin Given
         /\ \A x \in Given : Gateway[x] \in Address
<1>1. AnyHost \in Address /\ Ones \in Address /\ Group \in Address
  BY DEF Address
<1>2. Net \X Host \subseteq Address
  BY DEF Address
<1>3. Given \subseteq Address
  <2> SUFFICES ASSUME NEW x \in Given PROVE x \in Address
    OBVIOUS
  <2>1. CASE x = AnyHost
    BY <1>1, <2>1
  <2>2. CASE x # AnyHost
    <3>1. PICK i \in Netif : x \in Own[i]
      BY <2>2 DEF Given
    <3>2. Own[i] \subseteq Net \X Host
      BY DEF IpAssumption
    <3> QED BY <1>2, <3>1, <3>2
  <2> QED BY <2>1, <2>2
<1>4. NoPacket \in PacketType
  BY <1>1 DEF NoPacket, PacketType, Protocol
<1>5. Packet \subseteq PacketType
  BY DEF IpAssumption, PacketType
<1>6. \A x \in Given : Gateway[x] \in Address
  BY <1>1, <1>2 DEF IpAssumption
<1>7. AnyHost # Ones /\ AnyHost # Group
  BY DEF AnyHost, Ones, Group
<1>8. Group \notin Given
  <2> SUFFICES ASSUME Group \in Given PROVE FALSE
    OBVIOUS
  <2>1. PICK i \in Netif : Group \in Own[i]
    BY <1>7 DEF Given
  <2>2. Own[i] \subseteq Net \X Host
    BY DEF IpAssumption
  <2>3. "group" \in Net
    BY <2>1, <2>2 DEF Group
  <2> QED BY <2>3 DEF IpAssumption
<1> QED BY <1>1, <1>3, <1>4, <1>5, <1>6, <1>7, <1>8 DEF IpAssumption

(* An interface that ip_route finds is up.                                 *)
LEMMA RouteIs ==
  ASSUME TypeOK, NEW dest, Route(dest) # Nil
  PROVE  Route(dest) \in up /\ Route(dest) \in Netif
<1> DEFINE fit == {k \in DOMAIN list : list[k] \in up /\ OnNet(dest, list[k])}
<1>1. CASE fit # {}
  <2>1. fit \in SUBSET Nat
    BY ListIs DEF TypeOK
  <2>2. Min(fit) \in fit
    BY <1>1, <2>1, LeastOf
  <2>3. Route(dest) = list[Min(fit)]
    BY <1>1 DEF Route
  <2> QED BY <2>2, <2>3 DEF TypeOK
<1>2. CASE fit = {}
  BY <1>2 DEF Route, TypeOK
<1> QED BY <1>1, <1>2

(* A frame goes to all, to a group or to a host of the interface's network.*)
LEMMA HopIs ==
  ASSUME IpAssumption, TypeOK, NEW dest \in Address, NEW i \in Netif
  PROVE  /\ Hop(dest, i) \in Address
         /\ Hop(dest, i) # AnyHost => Hop(dest, i) \in {Ones, Group} \/ OnNet(Hop(dest, i), i)
<1>1. addr[i] \in Given
  BY DEF TypeOK
<1>2. Gateway[addr[i]] \in Address /\ Ones \in Address /\ Group \in Address
  BY <1>1, Addresses
<1>3. Gateway[addr[i]] # AnyHost => OnNet(Gateway[addr[i]], i)
  BY <1>1 DEF IpAssumption, OnNet
<1> QED BY <1>2, <1>3 DEF Hop

LEMMA Nothing ==
  ASSUME NEW a \in Records, NEW msgs
  PROVE  Only(a, a, 0, msgs)
<1>1. a.live - 0 = a.live
  BY DEF Records
<1> QED BY <1>1 DEF Only

LEMMA PutIs ==
  ASSUME NEW a \in Records, NEW src \in Address, NEW dest \in Address, NEW kind \in Kind,
         NEW i \in Netif, NEW hop \in Address
  PROVE  Only(a, Put(a, src, dest, kind, i, hop), 0,
              {[src |-> src, dest |-> dest, kind |-> kind, by |-> i, hop |-> hop]})
<1> DEFINE m == [src |-> src, dest |-> dest, kind |-> kind, by |-> i, hop |-> hop]
<1>1. m \in Message
  BY DEF Message
<1>2. a.sent \in Seq(Message)
  BY DEF Records
<1>3. Append(a.sent, m) \in Seq(Message) /\ Range(Append(a.sent, m)) = Range(a.sent) \cup {m}
  BY <1>1, <1>2, AppendIs
<1>4. Put(a, src, dest, kind, i, hop) = [a EXCEPT !.sent = Append(a.sent, m)]
  BY DEF Put
<1> HIDE DEF m
<1> DEFINE s == Append(a.sent, m)
           b == [a EXCEPT !.sent = s]
<1> HIDE DEF s
<1>5. b \in Records /\ b.raws = a.raws /\ b.held = a.held /\ b.live = a.live /\ b.sent = s
  BY <1>3 DEF s, Records
<1>6. a.live - 0 = a.live
  BY DEF Records
<1>7. Only(a, b, 0, {m})
  BY <1>3, <1>5, <1>6 DEF Only, s
<1> QED BY <1>4, <1>7 DEF m, s

(* What ip_output_if sends.                                                *)
Through(src, dest, kind, i) ==
  {m \in Message : /\ m.src = (IF src = AnyHost THEN addr[i] ELSE src)
                   /\ m.dest = dest /\ m.kind = kind /\ m.by = i
                   /\ m.hop = Hop(dest, i) /\ m.hop # AnyHost}

LEMMA OutputIfIs ==
  ASSUME IpAssumption, TypeOK, NEW a \in Records, NEW src \in Address, NEW dest \in Address,
         NEW kind \in Kind, NEW i \in Netif
  PROVE  Only(a, OutputIf(a, src, dest, kind, i), 0, Through(src, dest, kind, i))
<1> DEFINE s == IF src = AnyHost THEN addr[i] ELSE src
           m == [src |-> s, dest |-> dest, kind |-> kind, by |-> i, hop |-> Hop(dest, i)]
<1>1. s \in Address /\ Hop(dest, i) \in Address
  BY Addresses, HopIs DEF TypeOK
<1>2. CASE Hop(dest, i) = AnyHost
  BY <1>2, Nothing DEF OutputIf
<1>3. CASE Hop(dest, i) # AnyHost
  <2>1. m \in Through(src, dest, kind, i)
    BY <1>1, <1>3 DEF Through, Message
  <2>2. OutputIf(a, src, dest, kind, i) = Put(a, s, dest, kind, i, Hop(dest, i))
    BY <1>3 DEF OutputIf
  <2>3. Only(a, Put(a, s, dest, kind, i, Hop(dest, i)), 0, {m})
    BY <1>1, PutIs
  <2> QED BY <2>1, <2>2, <2>3 DEF Only
<1> QED BY <1>2, <1>3

LEMMA OutputIs ==
  ASSUME IpAssumption, TypeOK, NEW a \in Records, NEW src \in Address, NEW dest \in Address,
         NEW kind \in Kind
  PROVE  Only(a, Output(a, src, dest, kind), 0,
              UNION {Through(src, dest, kind, i) : i \in Netif})
<1>1. CASE Route(dest) = Nil
  BY <1>1, Nothing DEF Output
<1>2. CASE Route(dest) # Nil
  <2>1. Route(dest) \in Netif
    BY <1>2, RouteIs
  <2>2. Only(a, OutputIf(a, src, dest, kind, Route(dest)), 0, Through(src, dest, kind, Route(dest)))
    BY <2>1, OutputIfIs
  <2> QED BY <1>2, <2>1, <2>2 DEF Output, Only
<1> QED BY <1>1, <1>2

(* One after the other.                                                    *)
LEMMA OnlyThen ==
  ASSUME NEW a \in Records, NEW b, NEW c, NEW m \in Int, NEW n \in Int, NEW msgs, NEW more,
         Only(a, b, m, msgs), Only(b, c, n, more)
  PROVE  Only(a, c, m + n, msgs \cup more)
<1>1. c.live = a.live - (m + n)
  BY DEF Only, Records
<1> QED BY <1>1 DEF Only

LEMMA AllocFree ==
  ASSUME NEW a \in Records
  PROVE  Only(a, Alloc(a), -1, {}) /\ Only(a, Free(a), 1, {}) /\ Only(a, HandOver(a), 1, {})
<1>1. /\ Alloc(a) \in Records /\ Alloc(a).raws = a.raws /\ Alloc(a).held = a.held
      /\ Alloc(a).live = a.live + 1 /\ Alloc(a).sent = a.sent
  <2> DEFINE n == a.live + 1
             b == [a EXCEPT !.live = n]
  <2>1. n \in Int
    BY DEF Records
  <2>2. Alloc(a) = b
    BY DEF Alloc
  <2> HIDE DEF n
  <2>3. b \in Records /\ b.raws = a.raws /\ b.held = a.held /\ b.live = n /\ b.sent = a.sent
    BY <2>1 DEF Records
  <2> QED BY <2>2, <2>3 DEF n
<1>2. /\ Free(a) \in Records /\ Free(a).raws = a.raws /\ Free(a).held = a.held
      /\ Free(a).live = a.live - 1 /\ Free(a).sent = a.sent
  BY DEF Free, Records
<1>3. HandOver(a) = Free(a)
  BY DEF HandOver, Free
<1>4. a.live + 1 = a.live - (-1)
  BY DEF Records
<1> QED BY <1>1, <1>2, <1>3, <1>4 DEF Only

(* A buffer that is made for a header or a question, used and freed.       *)
LEMMA MadeAndFreed ==
  ASSUME NEW a \in Records, NEW b, NEW msgs, Only(Alloc(a), b, 0, msgs)
  PROVE  Only(a, Free(b), 0, msgs)
<1>1. Only(a, Alloc(a), -1, {}) /\ Alloc(a) \in Records
  BY AllocFree DEF Only
<1>2. b \in Records
  BY DEF Only
<1>3. Only(b, Free(b), 1, {})
  BY <1>2, AllocFree
<1>4. Only(a, b, -1 + 0, {} \cup msgs)
  BY <1>1, OnlyThen
<1>5. Only(a, Free(b), (-1 + 0) + 1, ({} \cup msgs) \cup {})
  BY <1>3, <1>4, OnlyThen
<1>6. (-1 + 0) + 1 = 0 /\ ({} \cup msgs) \cup {} = msgs
  OBVIOUS
<1> QED BY <1>5, <1>6

(* What the protocols answer a packet with.                                *)
Ours(m) == \E j \in Netif : m.src = addr[j]
Answers(p, i) ==
  {m \in Message : /\ m.dest = p.src /\ ~IsBroadcast(p.dest, i) /\ p.dest # Group
                   /\ Ours(m) \/ m.src = p.dest
                   /\ m.kind # "reply" => p.proto # "icmp"
                   /\ p.proto = "udp" => p.dest = addr[i]}

LEMMA SendResponseIs ==
  ASSUME IpAssumption, TypeOK, NEW a \in Records, NEW p \in PacketType, NEW kind \in Kind,
         NEW memory
  PROVE  Only(a, SendResponse(a, p, kind, memory), 0,
              {m \in Message : m.dest = p.src /\ m.kind = kind /\ Ours(m)})
<1> DEFINE msgs == {m \in Message : m.dest = p.src /\ m.kind = kind /\ Ours(m)}
           o == Output(Alloc(a), AnyHost, p.src, kind)
<1>1. CASE ~memory
  BY <1>1, Nothing DEF SendResponse
<1>2. CASE memory
  <2>1. p.src \in Address /\ AnyHost \in Address
    BY Addresses DEF PacketType
  <2>2. Only(a, Alloc(a), -1, {}) /\ Alloc(a) \in Records
    BY AllocFree DEF Only
  <2>3. Only(Alloc(a), o, 0, UNION {Through(AnyHost, p.src, kind, i) : i \in Netif})
    BY <2>1, <2>2, OutputIs
  <2>4. (UNION {Through(AnyHost, p.src, kind, i) : i \in Netif}) \subseteq msgs
    BY DEF Through, Ours
  <2>5. Only(Alloc(a), o, 0, msgs)
    BY <2>3, <2>4 DEF Only
  <2>6. SendResponse(a, p, kind, memory) = Free(o)
    BY <1>2 DEF SendResponse
  <2> QED BY <2>5, <2>6, MadeAndFreed
<1> QED BY <1>1, <1>2

(* Copying a packet and freeing it changes no count.                       *)
LEMMA MovedIs ==
  ASSUME NEW a \in Records, NEW p
  PROVE  Only(a, Moved(a, p), 0, {})
<1>1. CASE p.room
  BY <1>1, Nothing DEF Moved
<1>2. CASE ~p.room
  <2>1. Only(a, Alloc(a), -1, {}) /\ Alloc(a) \in Records
    BY AllocFree DEF Only
  <2>2. Only(Alloc(a), Free(Alloc(a)), 1, {})
    BY <2>1, AllocFree
  <2>3. Only(a, Free(Alloc(a)), -1 + 1, {} \cup {})
    BY <2>1, <2>2, OnlyThen
  <2> QED BY <1>2, <2>3 DEF Moved
<1> QED BY <1>1, <1>2

LEMMA IcmpInputIs ==
  ASSUME IpAssumption, TypeOK, NEW a \in Records, NEW p \in PacketType, NEW i \in Netif,
         NEW memory, p.proto = "icmp"
  PROVE  Only(a, IcmpInput(a, p, i, memory), 1, Answers(p, i))
<1> DEFINE ignored == \/ p.body # "echo" \/ p.dest = Group \/ IsBroadcast(p.dest, i)
                      \/ ~p.room /\ ~memory
           o == OutputIf(Moved(a, p), p.dest, p.src, "reply", i)
<1>1. CASE ignored
  BY <1>1, AllocFree DEF IcmpInput, Only
<1>2. CASE ~ignored
  <2>1. p.src \in Address /\ p.dest \in Address
    BY DEF PacketType
  <2>2. Only(a, Moved(a, p), 0, {}) /\ Moved(a, p) \in Records
    BY MovedIs DEF Only
  <2>3. "reply" \in Kind
    BY DEF Kind
  <2>4. Only(Moved(a, p), o, 0, Through(p.dest, p.src, "reply", i))
    BY <2>1, <2>2, <2>3, OutputIfIs
  <2>5. p.dest # AnyHost
    BY <1>2 DEF IsBroadcast
  <2>6. Through(p.dest, p.src, "reply", i) \subseteq Answers(p, i)
    BY <1>2, <2>5 DEF Through, Answers
  <2>7. Only(Moved(a, p), o, 0, Answers(p, i)) /\ o \in Records
    BY <2>4, <2>6 DEF Only
  <2>8. IcmpInput(a, p, i, memory) = Free(o)
    BY <1>2 DEF IcmpInput
  <2> HIDE DEF o
  <2>9. Only(o, Free(o), 1, {})
    BY <2>7, AllocFree
  <2>10. Only(Moved(a, p), Free(o), 0 + 1, Answers(p, i) \cup {})
    BY <2>2, <2>7, <2>9, OnlyThen
  <2>11. Only(a, Free(o), 0 + (0 + 1), {} \cup (Answers(p, i) \cup {}))
    BY <2>2, <2>10, OnlyThen
  <2>12. 0 + (0 + 1) = 1 /\ {} \cup (Answers(p, i) \cup {}) = Answers(p, i)
    OBVIOUS
  <2> QED BY <2>8, <2>11, <2>12
<1> QED BY <1>1, <1>2

(* A packet that is freed once an ICMP message was sent for it.            *)
LEMMA Refused ==
  ASSUME IpAssumption, TypeOK, NEW a \in Records, NEW p \in PacketType, NEW i \in Netif,
         NEW memory, NEW kind \in Kind, p.proto # "icmp", ~IsBroadcast(p.dest, i),
         p.dest # Group, p.proto = "udp" => p.dest = addr[i]
  PROVE  Only(a, Free(SendResponse(a, p, kind, memory)), 1, Answers(p, i))
<1> DEFINE r == SendResponse(a, p, kind, memory)
           msgs == {m \in Message : m.dest = p.src /\ m.kind = kind /\ Ours(m)}
<1>1. Only(a, r, 0, msgs) /\ r \in Records
  BY SendResponseIs DEF Only
<1>2. msgs \subseteq Answers(p, i)
  BY DEF Answers
<1>3. Only(a, r, 0, Answers(p, i))
  BY <1>1, <1>2 DEF Only
<1> HIDE DEF r
<1>4. Only(r, Free(r), 1, {})
  BY <1>1, AllocFree
<1>5. Only(a, Free(r), 0 + 1, Answers(p, i) \cup {})
  BY <1>3, <1>4, OnlyThen
<1>6. 0 + 1 = 1 /\ Answers(p, i) \cup {} = Answers(p, i)
  OBVIOUS
<1> QED BY <1>5, <1>6 DEF r

LEMMA UdpInputIs ==
  ASSUME IpAssumption, TypeOK, NEW a \in Records, NEW p \in PacketType, NEW i \in Netif,
         NEW memory, NEW client, p.proto = "udp"
  PROVE  Only(a, UdpInput(a, p, i, memory, client), 1, Answers(p, i))
<1>1. Only(a, Free(a), 1, Answers(p, i)) /\ Only(a, HandOver(a), 1, Answers(p, i))
  BY AllocFree DEF Only
<1>2. CASE p.dest = addr[i] /\ ~IsBroadcast(p.dest, i)
  <2>1. p.dest # Group
    BY <1>2, Addresses DEF TypeOK
  <2>2. "port" \in Kind
    BY DEF Kind
  <2>3. Only(a, Free(SendResponse(a, p, "port", memory)), 1, Answers(p, i))
    BY <1>2, <2>1, <2>2, Refused
  <2> QED BY <1>1, <2>3 DEF UdpInput
<1>3. CASE ~(p.dest = addr[i] /\ ~IsBroadcast(p.dest, i))
  BY <1>1, <1>3 DEF UdpInput
<1> QED BY <1>2, <1>3

-----------------------------------------------------------------------------
(* b is what a becomes when n buffers are freed, handed over or kept as    *)
(* fragments, none twice; the list of raw blocks stays whole.              *)
Consumes(a, b, n, msgs) ==
  /\ b \in Records /\ (IsInjective(a.raws) => IsInjective(b.raws))
  /\ b.live - b.held.n = a.live - a.held.n - n
  /\ Range(b.sent) \subseteq Range(a.sent) \cup msgs

LEMMA OnlyConsumes ==
  ASSUME NEW a \in Records, NEW b, NEW n \in Int, NEW msgs, Only(a, b, n, msgs)
  PROVE  Consumes(a, b, n, msgs)
<1>1. a.live \in Int /\ a.held.n \in Int
  BY DEF Records
<1>2. b.live - b.held.n = a.live - a.held.n - n
  BY <1>1 DEF Only
<1> QED BY <1>2 DEF Only, Consumes

LEMMA RawInputIs ==
  ASSUME NEW a \in Records, NEW p, Eaters(a, p) # {}
  PROVE  Consumes(a, RawInput(a, p), 1, {})
<1> DEFINE n == Min(Eaters(a, p))
           r == ToFront(a.raws, n)
           b == [a EXCEPT !.raws = r]
<1>1. a.raws \in Seq(Raw) /\ DOMAIN a.raws = 1..Len(a.raws) /\ Len(a.raws) \in Nat
  BY ListIs DEF Records
<1>2. n \in 1..Len(a.raws)
  <2>1. Eaters(a, p) \in SUBSET Nat /\ Eaters(a, p) \subseteq 1..Len(a.raws)
    BY <1>1 DEF Eaters
  <2> QED BY <2>1, LeastOf
<1> HIDE DEF n
<1>3. r \in Seq(Raw) /\ (IsInjective(a.raws) => IsInjective(r))
  <2>1. a.raws[n] \in Raw /\ RemoveAt(a.raws, n) \in Seq(Raw)
    BY <1>1, <1>2, ListIs, RemoveAtIs
  <2>2. ToFront(a.raws, n) \in Seq(Raw)
    BY <2>1, InFront DEF ToFront
  <2>3. IsInjective(a.raws) => IsInjective(ToFront(a.raws, n))
    BY <1>1, <1>2, ToFrontIs
  <2> QED BY <2>2, <2>3
<1>5. RawInput(a, p) = HandOver(b)
  BY DEF RawInput, n
<1> HIDE DEF r
<1>6. b \in Records /\ b.raws = r /\ b.held = a.held /\ b.live = a.live /\ b.sent = a.sent
  BY <1>3 DEF Records
<1> HIDE DEF b
<1>7. Only(b, HandOver(b), 1, {})
  BY <1>6, AllocFree
<1>8. a.live \in Int /\ a.held.n \in Int
  BY DEF Records
<1> QED BY <1>3, <1>5, <1>6, <1>7, <1>8 DEF Only, Consumes

LEMMA DeliverIs ==
  ASSUME IpAssumption, TypeOK, NEW a \in Records, NEW p \in PacketType, NEW i \in Netif,
         NEW memory, NEW client
  PROVE  Consumes(a, Deliver(a, p, i, memory, client), 1, Answers(p, i))
<1>1. CASE Eaters(a, p) # {}
  BY <1>1, RawInputIs DEF Deliver, Consumes
<1>2. CASE Eaters(a, p) = {} /\ p.proto = "udp"
  <2>1. Only(a, UdpInput(a, p, i, memory, client), 1, Answers(p, i))
    BY <1>2, UdpInputIs
  <2> QED BY <1>2, <2>1, OnlyConsumes DEF Deliver
<1>3. CASE Eaters(a, p) = {} /\ p.proto = "tcp"
  <2>1. Only(a, HandOver(a), 1, Answers(p, i))
    BY AllocFree DEF Only
  <2> QED BY <1>3, <2>1, OnlyConsumes DEF Deliver
<1>4. CASE Eaters(a, p) = {} /\ p.proto = "icmp"
  <2>1. Only(a, IcmpInput(a, p, i, memory), 1, Answers(p, i))
    BY <1>4, IcmpInputIs
  <2> QED BY <1>4, <2>1, OnlyConsumes DEF Deliver
<1>5. CASE Eaters(a, p) = {} /\ p.proto = "other"
  <2>1. CASE IsBroadcast(p.dest, i) \/ p.dest = Group
    <3>1. Only(a, Free(a), 1, Answers(p, i))
      BY AllocFree DEF Only
    <3> QED BY <1>5, <2>1, <3>1, OnlyConsumes DEF Deliver
  <2>2. CASE ~(IsBroadcast(p.dest, i) \/ p.dest = Group)
    <3>1. "protocol" \in Kind
      BY DEF Kind
    <3>2. Only(a, Free(SendResponse(a, p, "protocol", memory)), 1, Answers(p, i))
      BY <1>5, <2>2, <3>1, Refused
    <3> QED BY <1>5, <2>2, <3>2, OnlyConsumes DEF Deliver
  <2> QED BY <2>1, <2>2
<1>6. p.proto \in {"icmp", "udp", "tcp", "other"}
  BY DEF PacketType, Protocol
<1> QED BY <1>1, <1>2, <1>3, <1>4, <1>5, <1>6

(* ip_reass keeps, drops or hands on: with the last fragment the others    *)
(* are one buffer with it.                                                 *)
LEMMA ReassIs ==
  ASSUME IpAssumption, TypeOK, NEW a \in Records, NEW p \in Packet, NEW i \in Netif,
         NEW memory, NEW client, NEW fate \in {"refused", "kept", "whole"}, May(a, p, fate)
  PROVE  Consumes(a, Reass(a, p, i, memory, client, fate), 1, Answers(p, i))
<1>1. p \in PacketType /\ Packet \cup {NoPacket} \subseteq PacketType
  BY Addresses
<1>2. /\ a.live \in Int /\ a.held.n \in Nat /\ a.held.first \in BOOLEAN
      /\ a.held.packet \in Packet \cup {NoPacket}
  BY DEF Records
<1>3. FirstOf(a, p) \in Packet \cup {NoPacket}
  BY <1>2 DEF FirstOf
<1>4. CASE fate = "refused"
  <2>1. Only(a, Free(a), 1, Answers(p, i))
    BY AllocFree DEF Only
  <2> QED BY <1>4, <2>1, OnlyConsumes DEF Reass
<1>5. CASE fate = "kept"
  <2> DEFINE h == [packet |-> FirstOf(a, p), n |-> a.held.n + 1,
                   first |-> a.held.first \/ p.part = "first"]
             b == [a EXCEPT !.held = h]
  <2>1. h \in [packet : Packet \cup {NoPacket}, n : Nat, first : BOOLEAN] /\ h.n = a.held.n + 1
    BY <1>2, <1>3
  <2>2. Reass(a, p, i, memory, client, fate) = b
    BY <1>5 DEF Reass
  <2> HIDE DEF h
  <2>3. b \in Records /\ b.raws = a.raws /\ b.held = h /\ b.live = a.live /\ b.sent = a.sent
    BY <2>1 DEF Records
  <2> HIDE DEF b
  <2>4. b.live - b.held.n = a.live - a.held.n - 1
    BY <1>2, <2>1, <2>3
  <2> QED BY <2>2, <2>3, <2>4 DEF Consumes
<1>6. CASE fate = "whole"
  <2> DEFINE l == a.live - a.held.n
             b == [a EXCEPT !.held = NoDatagram, !.live = l]
             q == [FirstOf(a, p) EXCEPT !.part = "whole"]
  <2>1. l \in Int /\ l - 0 = l
    BY <1>2
  <2>2. NoDatagram \in [packet : Packet \cup {NoPacket}, n : Nat, first : BOOLEAN] /\ NoDatagram.n = 0
    BY DEF NoDatagram
  <2>3. Reass(a, p, i, memory, client, fate) = Deliver(b, q, i, memory, client)
    BY <1>6 DEF Reass
  <2>4. q \in PacketType
    BY <1>1, <1>3 DEF PacketType
  <2>5. Alike(a.held.packet, p)
    BY <1>6 DEF May
  <2>6. q.src = p.src /\ q.dest = p.dest /\ q.proto = p.proto
    <3> DEFINE h == a.held.packet
    <3>1. h \in PacketType /\ p \in PacketType
      BY <1>1, <1>2
    <3>2. [h EXCEPT !.part = "whole", !.room = TRUE] = [p EXCEPT !.part = "whole", !.room = TRUE]
      BY <2>5 DEF Alike
    <3> HIDE DEF h
    <3>3. /\ [h EXCEPT !.part = "whole", !.room = TRUE].src = h.src
          /\ [h EXCEPT !.part = "whole", !.room = TRUE].dest = h.dest
          /\ [h EXCEPT !.part = "whole", !.room = TRUE].proto = h.proto
          /\ [p EXCEPT !.part = "whole", !.room = TRUE].src = p.src
          /\ [p EXCEPT !.part = "whole", !.room = TRUE].dest = p.dest
          /\ [p EXCEPT !.part = "whole", !.room = TRUE].proto = p.proto
      BY <3>1 DEF PacketType
    <3>4. h.src = p.src /\ h.dest = p.dest /\ h.proto = p.proto
      BY <3>2, <3>3
    <3>5. FirstOf(a, p) = h \/ FirstOf(a, p) = p
      BY DEF FirstOf, h
    <3>6. FirstOf(a, p) \in PacketType
      BY <1>1, <1>3
    <3>7. q.src = FirstOf(a, p).src /\ q.dest = FirstOf(a, p).dest /\ q.proto = FirstOf(a, p).proto
      BY <3>6 DEF PacketType
    <3> QED BY <3>4, <3>5, <3>7
  <2>7. Answers(q, i) = Answers(p, i)
    BY <2>6 DEF Answers
  <2> HIDE DEF l, q
  <2>8. /\ b \in Records /\ b.raws = a.raws /\ b.held = NoDatagram /\ b.live = l
        /\ b.sent = a.sent
    BY <2>1, <2>2 DEF Records
  <2> HIDE DEF b
  <2>9. Consumes(b, Deliver(b, q, i, memory, client), 1, Answers(q, i))
    BY <2>4, <2>8, DeliverIs
  <2>10. b.live - b.held.n = a.live - a.held.n
    BY <2>1, <2>2, <2>8 DEF l
  <2> QED BY <2>3, <2>7, <2>8, <2>9, <2>10 DEF Consumes
<1> QED BY <1>4, <1>5, <1>6

(* What is answered to a packet that ip_input accepts.                     *)
Allowed(p, i) ==
  {m \in Answers(p, i) :
     /\ ~FromMany(p, i)
     /\ (\E j \in Netif \ {i} : IsBroadcast(p.dest, j)) \/ \E j \in Netif : p.dest = addr[j]}

LEMMA IpInputIs ==
  ASSUME IpAssumption, TypeOK, NEW a \in Records, NEW p \in Packet, NEW i \in Netif,
         NEW memory, NEW client, NEW fate \in {"refused", "kept", "whole"}, May(a, p, fate)
  PROVE  /\ Consumes(a, IpInput(a, p, i, memory, client, fate), 1, Answers(p, i))
         /\ i \in up => Consumes(a, IpInput(a, p, i, memory, client, fate), 1, Allowed(p, i))
<1> DEFINE forUs == \E j \in {i} \cup Listed : Accepts(j, p.dest)
           dhcp == ~forUs /\ p.proto = "udp" /\ p.body = "dhcp"
           dropped == ~p.good \/ (~dhcp /\ FromMany(p, i)) \/ (~forUs /\ ~dhcp)
           b == IF p.part = "whole" THEN Deliver(a, p, i, memory, client)
                ELSE Reass(a, p, i, memory, client, fate)
<1>1. IpInput(a, p, i, memory, client, fate) = IF dropped THEN Free(a) ELSE b
  BY DEF IpInput
<1>2. Listed \subseteq Netif
  BY ListIs DEF Listed, TypeOK
<1>3. CASE dropped
  <2>1. Only(a, Free(a), 1, Answers(p, i)) /\ Only(a, Free(a), 1, Allowed(p, i))
    BY AllocFree DEF Only
  <2> QED BY <1>1, <1>3, <2>1, OnlyConsumes
<1>4. CASE ~dropped
  <2>1. p \in PacketType
    BY Addresses
  <2>2. Consumes(a, b, 1, Answers(p, i))
    <3>1. CASE p.part = "whole"
      BY <2>1, <3>1, DeliverIs
    <3>2. CASE p.part # "whole"
      BY <3>2, ReassIs
    <3> QED BY <3>1, <3>2
  <2>3. ASSUME i \in up, NEW m \in Answers(p, i) PROVE m \in Allowed(p, i)
    <3>1. ~IsBroadcast(p.dest, i) /\ (p.proto = "udp" => p.dest = addr[i])
      BY <2>3 DEF Answers
    <3>2. ~dhcp
      <4> SUFFICES ASSUME dhcp PROVE FALSE
        OBVIOUS
      <4>1. p.dest = addr[i] /\ ~Accepts(i, p.dest)
        BY <3>1
      <4>2. p.dest = AnyHost
        BY <2>3, <4>1 DEF Accepts
      <4> QED BY <3>1, <4>2 DEF IsBroadcast
    <3>3. ~FromMany(p, i) /\ forUs
      BY <1>4, <3>2
    <3>4. PICK j \in {i} \cup Listed : Accepts(j, p.dest)
      BY <3>3
    <3>5. (p.dest = addr[j] \/ IsBroadcast(p.dest, j)) /\ j \in Netif
      BY <1>2, <3>4 DEF Accepts
    <3>6. p.dest = addr[j] \/ (j # i /\ IsBroadcast(p.dest, j))
      BY <3>1, <3>5
    <3> QED BY <2>3, <3>3, <3>5, <3>6 DEF Allowed
  <2>4. IpInput(a, p, i, memory, client, fate) = b
    BY <1>1, <1>4
  <2> HIDE DEF b
  <2> QED BY <2>2, <2>3, <2>4 DEF Consumes
<1> QED BY <1>3, <1>4

LEMMA HeardIs ==
  ASSUME NEW a \in Records, NEW x \in Address, NEW hard \in BOOLEAN, NEW i
  PROVE  Only(a, Heard(a, x, hard, i), 0, {})
<1>1. CASE IsBroadcast(x, i) \/ x = Group
  BY <1>1, Nothing DEF Heard
<1>2. CASE ~(IsBroadcast(x, i) \/ x = Group)
  <2> DEFINE h == Append(a.heard, [host |-> x, hard |-> hard])
             b == [a EXCEPT !.heard = h]
  <2>1. h \in Seq([host : Address, hard : BOOLEAN])
    <3>1. /\ a.heard \in Seq([host : Address, hard : BOOLEAN])
          /\ [host |-> x, hard |-> hard] \in [host : Address, hard : BOOLEAN]
      BY DEF Records
    <3> QED BY <3>1, AppendIs
  <2>2. Heard(a, x, hard, i) = b
    BY <1>2 DEF Heard
  <2> HIDE DEF h
  <2>3. b \in Records /\ b.raws = a.raws /\ b.held = a.held /\ b.live = a.live /\ b.sent = a.sent
    BY <2>1 DEF Records
  <2>4. a.live - 0 = a.live
    BY DEF Records
  <2> QED BY <2>2, <2>3, <2>4 DEF Only
<1> QED BY <1>1, <1>2

(* Whatever an IP packet leads to, its buffer is accounted for once.       *)
LEMMA IpFrameIs ==
  ASSUME IpAssumption, TypeOK, NEW a \in Records, NEW p \in Packet, NEW i \in Netif,
         NEW memory, NEW client, NEW fate \in {"refused", "kept", "whole"}, May(a, p, fate)
  PROVE  /\ Consumes(a, IpFrame(a, p, i, memory, client, fate), 1, Answers(p, i))
         /\ i \in up => Consumes(a, IpFrame(a, p, i, memory, client, fate), 1, Allowed(p, i))
<1> DEFINE b == IF OnNet(p.src, i) THEN Heard(a, p.src, FALSE, i) ELSE a
<1>1. Only(a, b, 0, {})
  <2>1. p.src \in Address
    BY Addresses DEF PacketType
  <2>2. Only(a, Heard(a, p.src, FALSE, i), 0, {}) /\ Only(a, a, 0, {})
    BY <2>1, HeardIs, Nothing
  <2> QED BY <2>2
<1>2. b \in Records /\ b.held = a.held
  BY <1>1 DEF Only
<1>3. May(b, p, fate)
  BY <1>2 DEF May
<1>4. IpFrame(a, p, i, memory, client, fate) = IpInput(b, p, i, memory, client, fate)
  BY DEF IpFrame
<1> HIDE DEF b
<1>5. /\ Consumes(b, IpInput(b, p, i, memory, client, fate), 1, Answers(p, i))
      /\ i \in up => Consumes(b, IpInput(b, p, i, memory, client, fate), 1, Allowed(p, i))
  BY <1>2, <1>3, IpInputIs
<1>6. a.live - 0 = a.live
  BY DEF Records
<1> QED BY <1>1, <1>4, <1>5, <1>6 DEF Only, Consumes

LEMMA ArpFrameIs ==
  ASSUME IpAssumption, TypeOK, NEW a \in Records, NEW op, NEW src \in Address, NEW target,
         NEW i \in Netif
  PROVE  Consumes(a, ArpFrame(a, op, src, target, i), 1, Message)
<1> DEFINE forUs == addr[i] # AnyHost /\ target = addr[i]
           b == Heard(a, src, forUs, i)
           c == Put(b, addr[i], src, "arp", i, src)
           d == IF op = "request" /\ forUs THEN c ELSE b
<1>1. Only(a, b, 0, {}) /\ b \in Records
  BY HeardIs DEF Only
<1>2. addr[i] \in Address /\ "arp" \in Kind
  BY Addresses DEF TypeOK, Kind
<1>3. ArpFrame(a, op, src, target, i) = Free(d)
  BY DEF ArpFrame
<1> HIDE DEF b
<1>4. Only(b, c, 0, Message)
  <2>1. [src |-> addr[i], dest |-> src, kind |-> "arp", by |-> i, hop |-> src] \in Message
    BY <1>2 DEF Message
  <2>2. Only(b, c, 0, {[src |-> addr[i], dest |-> src, kind |-> "arp", by |-> i, hop |-> src]})
    BY <1>1, <1>2, PutIs
  <2> QED BY <2>1, <2>2 DEF Only
<1>5. Only(b, d, 0, Message) /\ d \in Records
  <2>1. Only(b, b, 0, Message)
    BY <1>1, Nothing
  <2> QED BY <1>4, <2>1 DEF Only
<1> HIDE DEF d
<1>6. Only(d, Free(d), 1, {})
  BY <1>5, AllocFree
<1>7. Only(b, Free(d), 0 + 1, Message \cup {})
  BY <1>1, <1>5, <1>6, OnlyThen
<1>8. Only(a, Free(d), 0 + (0 + 1), {} \cup (Message \cup {}))
  BY <1>1, <1>7, OnlyThen
<1>9. 0 + (0 + 1) = 1 /\ {} \cup (Message \cup {}) = Message
  OBVIOUS
<1> QED BY <1>3, <1>8, <1>9, OnlyConsumes

LEMMA RequestIs ==
  ASSUME IpAssumption, TypeOK, NEW a \in Records, NEW x \in Address, NEW i \in Netif, NEW memory
  PROVE  Only(a, Request(a, x, i, memory), 0, Message)
<1> DEFINE b == Put(Alloc(a), addr[i], x, "arp", i, Ones)
           m == [src |-> addr[i], dest |-> x, kind |-> "arp", by |-> i, hop |-> Ones]
<1>1. addr[i] \in Address /\ Ones \in Address /\ "arp" \in Kind
  BY Addresses DEF TypeOK, Kind
<1>2. Alloc(a) \in Records
  BY AllocFree DEF Only
<1>3. m \in Message
  BY <1>1 DEF Message
<1>4. Only(Alloc(a), b, 0, {m})
  BY <1>1, <1>2, PutIs
<1>5. Only(Alloc(a), b, 0, Message)
  BY <1>3, <1>4 DEF Only
<1>6. Only(a, Free(b), 0, Message)
  BY <1>5, MadeAndFreed
<1> QED BY <1>6, Nothing DEF Request

(* What udp_sendto_if sends through interface i.                           *)
SentBy(i) ==
  {m \in Message : /\ m.by = i /\ m.src = addr[i]
                   /\ m.hop \in {Ones, Group} \/ OnNet(m.hop, i)}

LEMMA UdpSendIs ==
  ASSUME IpAssumption, TypeOK, NEW a \in Records, NEW local \in Given, NEW dest \in Address,
         NEW i \in Netif, NEW room, NEW memory
  PROVE  Only(a, UdpSend(a, local, dest, i, room, memory), 0, SentBy(i))
<1> DEFINE b == IF room THEN a ELSE Alloc(a)
           c == IF local \in {AnyHost, addr[i]} THEN OutputIf(b, local, dest, "udp", i) ELSE b
<1>1. CASE ~room /\ ~memory
  BY <1>1, Nothing DEF UdpSend
<1>2. CASE room \/ memory
  <2>1. b \in Records
    BY AllocFree DEF Only
  <2>2. Only(b, c, 0, SentBy(i))
    <3>1. CASE local \in {AnyHost, addr[i]}
      <4>1. local \in Address /\ "udp" \in Kind
        BY Addresses DEF Kind
      <4>2. Only(b, OutputIf(b, local, dest, "udp", i), 0, Through(local, dest, "udp", i))
        BY <2>1, <4>1, OutputIfIs
      <4>3. Through(local, dest, "udp", i) \subseteq SentBy(i)
        BY <3>1, HopIs DEF Through, SentBy
      <4> QED BY <3>1, <4>2, <4>3 DEF Only
    <3>2. CASE local \notin {AnyHost, addr[i]}
      BY <2>1, <3>2, Nothing
    <3> QED BY <3>1, <3>2
  <2>3. UdpSend(a, local, dest, i, room, memory) = IF room THEN c ELSE Free(c)
    BY <1>2 DEF UdpSend
  <2>4. CASE room
    BY <2>2, <2>3, <2>4
  <2>5. CASE ~room
    <3> HIDE DEF c
    <3>1. Only(Alloc(a), c, 0, SentBy(i))
      BY <2>2, <2>5
    <3> QED BY <2>3, <2>5, <3>1, MadeAndFreed
  <2> QED BY <2>4, <2>5
<1> QED BY <1>1, <1>2

LEMMA UdpSendToIs ==
  ASSUME IpAssumption, TypeOK, NEW a \in Records, NEW local \in Given, NEW dest \in Address,
         NEW room, NEW memory
  PROVE  Only(a, UdpSendTo(a, local, dest, room, memory), 0, UNION {SentBy(i) : i \in up})
<1>1. CASE Route(dest) = Nil
  BY <1>1, Nothing DEF UdpSendTo
<1>2. CASE Route(dest) # Nil
  <2>1. Route(dest) \in up /\ Route(dest) \in Netif
    BY <1>2, RouteIs
  <2>2. Only(a, UdpSend(a, local, dest, Route(dest), room, memory), 0, SentBy(Route(dest)))
    BY <2>1, UdpSendIs
  <2>3. SentBy(Route(dest)) \subseteq UNION {SentBy(i) : i \in up}
    BY <2>1
  <2> QED BY <1>2, <2>2, <2>3 DEF UdpSendTo, Only
<1> QED BY <1>1, <1>2

LEMMA RawSendToIs ==
  ASSUME IpAssumption, TypeOK, NEW a \in Records, NEW local \in Given, NEW dest \in Address,
         NEW room, NEW memory
  PROVE  Only(a, RawSendTo(a, local, dest, room, memory), 0, Message)
<1> DEFINE b == IF room THEN a ELSE Alloc(a)
           c == Output(b, local, dest, "raw")
<1>1. CASE ~room /\ ~memory
  BY <1>1, Nothing DEF RawSendTo
<1>2. CASE room \/ memory
  <2>1. b \in Records
    BY AllocFree DEF Only
  <2>2. local \in Address /\ "raw" \in Kind
    BY Addresses DEF Kind
  <2>3. Only(b, c, 0, UNION {Through(local, dest, "raw", i) : i \in Netif})
    BY <2>1, <2>2, OutputIs
  <2>4. (UNION {Through(local, dest, "raw", i) : i \in Netif}) \subseteq Message
    BY DEF Through
  <2>5. Only(b, c, 0, Message)
    BY <2>3, <2>4 DEF Only
  <2>6. RawSendTo(a, local, dest, room, memory) = IF room THEN c ELSE Free(c)
    BY <1>2 DEF RawSendTo
  <2>7. CASE room
    BY <2>5, <2>6, <2>7
  <2>8. CASE ~room
    <3> HIDE DEF c
    <3>1. Only(Alloc(a), c, 0, Message)
      BY <2>5, <2>8
    <3> QED BY <2>6, <2>8, <3>1, MadeAndFreed
  <2> QED BY <2>7, <2>8
<1> QED BY <1>1, <1>2

-----------------------------------------------------------------------------
(* The inductive invariant: the counts of buffers and fragments agree, the *)
(* lists hold nothing twice, and the connection's address is one of ours.  *)
IInv == TypeOK /\ BuffersAccounted /\ ListsWhole /\ ConnectionCurrent

LEMMA Starts == ASSUME IpAssumption PROVE Init => IInv
<1> SUFFICES ASSUME Init PROVE IInv
  OBVIOUS
<1>1. << >> \in Seq(Netif) /\ << >> \in Seq(Raw) /\ IsInjective(<< >>)
  BY DEF IsInjective
<1>2. TypeOK
  <2>1. AnyHost \in Given
    BY DEF Given
  <2>2. NoDatagram \in [packet : Packet \cup {NoPacket}, n : Nat, first : BOOLEAN]
    BY DEF NoDatagram
  <2>3. "other" \in Protocol
    BY DEF Protocol
  <2> QED BY <1>1, <2>1, <2>2, <2>3 DEF Init, TypeOK
<1> QED BY <1>1, <1>2 DEF Init, IInv, BuffersAccounted, ListsWhole, ConnectionCurrent, NoDatagram

LEMMA AllIs ==
  ASSUME TypeOK
  PROVE  /\ All \in Records /\ All.raws = raws /\ All.held = held /\ All.live = live
         /\ Range(All.sent) = {}
<1>1. << >> \in Seq(Message) /\ << >> \in Seq([host : Address, hard : BOOLEAN]) /\ Range(<< >>) = {}
  BY DEF Range
<1> QED BY <1>1 DEF TypeOK, All, Records

LEMMA Balanced == ASSUME NEW m \in Int, NEW n \in Int, m - n = 0 PROVE m = n
  OBVIOUS

(* A step that leaves all to the handlers' record.                         *)
LEMMA Handled ==
  ASSUME IpAssumption, IInv, NEW a, NEW msgs, Consumes(All, a, 0, msgs), Becomes(a),
         UNCHANGED <<list, default, addr, conn, proto, eats>>, up' \subseteq Netif
  PROVE  IInv'
<1>1. /\ All \in Records /\ All.raws = raws /\ All.held = held /\ All.live = live
  BY AllIs DEF IInv
<1>2. TypeOK'
  BY <1>1 DEF IInv, TypeOK, Consumes, Records, Becomes
<1>3. BuffersAccounted'
  <2>1. a.live - a.held.n = live - held.n - 0 /\ a.live \in Int /\ a.held.n \in Int
    BY <1>1 DEF Consumes, Records
  <2>2. live = held.n /\ live \in Int
    BY DEF IInv, TypeOK, BuffersAccounted
  <2>3. a.live = a.held.n
    <3>1. live - held.n - 0 = 0
      <4> HIDE DEF IInv
      <4> QED BY <2>2
    <3> QED BY <2>1, <3>1, Balanced
  <2>4. live' = a.live /\ held' = a.held
    BY DEF Becomes
  <2> QED BY <2>3, <2>4 DEF BuffersAccounted
<1>4. ListsWhole'
  BY <1>1 DEF IInv, ListsWhole, Listed, Consumes, Becomes
<1>5. ConnectionCurrent'
  BY DEF IInv, ConnectionCurrent
<1> QED BY <1>2, <1>3, <1>4, <1>5 DEF IInv

(* The buffer of a packet that comes is the one that its handler consumes. *)
LEMMA Came ==
  ASSUME TypeOK, NEW b, NEW msgs, Consumes(Alloc(All), b, 1, msgs)
  PROVE  Consumes(All, b, 0, msgs)
<1>1. /\ All \in Records /\ Only(All, Alloc(All), -1, {})
  BY AllIs, AllocFree
<1> DEFINE c == Alloc(All)
<1>2. /\ c \in Records /\ c.raws = All.raws /\ c.held = All.held
      /\ c.live = All.live - (-1) /\ Range(c.sent) \subseteq Range(All.sent)
  BY <1>1 DEF Only
<1> HIDE DEF c
<1>3. All.live \in Int /\ All.held.n \in Int
  BY <1>1 DEF Records
<1>4. c.live - c.held.n - 1 = All.live - All.held.n - 0
  BY <1>2, <1>3
<1>5. Consumes(c, b, 1, msgs)
  BY DEF c
<1> QED BY <1>2, <1>4, <1>5 DEF Consumes

(* A new address of an interface, and the connection of the old one        *)
(* (netif_set_ipaddr).                                                     *)
LEMMA Renumbered ==
  ASSUME IpAssumption, IInv, NEW i \in Netif, NEW x \in Own[i] \cup {AnyHost},
         addr' = [addr EXCEPT ![i] = x], conn' = Connection(i, x)
  PROVE  /\ addr' \in [Netif -> Given] /\ conn' \in Given \cup {Nil}
         /\ ConnectionCurrent'
<1>1. x \in Given
  BY DEF Given
<1>2. addr \in [Netif -> Given] /\ conn \in Given \cup {Nil}
  BY DEF IInv, TypeOK
<1>3. /\ addr' \in [Netif -> Given] /\ addr'[i] = x
      /\ \A j \in Netif \ {i} : addr'[j] = addr[j]
  BY <1>1, <1>2
<1>4. conn' = Nil \/ (conn' = conn /\ (conn = addr[i] => x = addr[i]))
  BY DEF Connection
<1>5. conn' # Nil => \E j \in Netif : conn' = addr'[j]
  <2> SUFFICES ASSUME conn' # Nil PROVE \E j \in Netif : conn' = addr'[j]
    OBVIOUS
  <2>1. PICK j \in Netif : conn = addr[j]
    BY <1>4 DEF IInv, ConnectionCurrent
  <2>2. conn' = addr'[j]
    BY <1>3, <1>4, <2>1
  <2> QED BY <2>2
<1> QED BY <1>2, <1>3, <1>4, <1>5 DEF ConnectionCurrent

(* The steps of the interfaces.                                            *)
LEMMA AddKeeps ==
  ASSUME IpAssumption, IInv, NEW i \in Netif, NEW x \in Own[i] \cup {AnyHost}, NEW f \in BOOLEAN,
         Add(i, x, f)
  PROVE  IInv'
<1>1. addr' \in [Netif -> Given] /\ conn' \in Given \cup {Nil} /\ ConnectionCurrent'
  BY Renumbered DEF Add
<1>2. list \in Seq(Netif) /\ i \notin Range(list) /\ IsInjective(list)
  BY DEF IInv, TypeOK, ListsWhole, Add, Listed
<1>3. /\ list' \in Seq(Netif) /\ IsInjective(list') /\ Range(list) \subseteq Range(list')
  <2>1. /\ <<i>> \o list \in Seq(Netif) /\ Range(<<i>> \o list) = {i} \cup Range(list)
        /\ IsInjective(<<i>> \o list)
    BY <1>2, InFront
  <2> QED BY <1>2, <2>1 DEF Add
<1>4. TypeOK'
  BY <1>1, <1>3 DEF IInv, TypeOK, Add
<1>5. ListsWhole'
  BY <1>3 DEF IInv, ListsWhole, Listed, Add
<1>6. BuffersAccounted'
  BY DEF IInv, BuffersAccounted, Add
<1> QED BY <1>1, <1>4, <1>5, <1>6 DEF IInv

LEMMA SetAddrKeeps ==
  ASSUME IpAssumption, IInv, NEW i \in Netif, NEW x \in Own[i] \cup {AnyHost}, SetAddr(i, x)
  PROVE  IInv'
<1>1. addr' \in [Netif -> Given] /\ conn' \in Given \cup {Nil} /\ ConnectionCurrent'
  BY Renumbered DEF SetAddr
<1>2. TypeOK'
  BY <1>1 DEF IInv, TypeOK, SetAddr
<1>3. ListsWhole' /\ BuffersAccounted'
  BY DEF IInv, ListsWhole, Listed, BuffersAccounted, SetAddr
<1> QED BY <1>1, <1>2, <1>3 DEF IInv

LEMMA RemoveNetifKeeps ==
  ASSUME IInv, NEW i \in Netif, RemoveNetif(i)
  PROVE  IInv'
<1>1. list \in Seq(Netif) /\ i \in Range(list) /\ IsInjective(list)
  BY DEF IInv, TypeOK, ListsWhole, RemoveNetif, Listed
<1>2. list' \in Seq(Netif) /\ IsInjective(list') /\ Range(list') = Range(list) \ {i}
  BY <1>1, UnlinkedIs DEF RemoveNetif
<1>3. TypeOK'
  BY <1>2 DEF IInv, TypeOK, RemoveNetif
<1>4. ListsWhole'
  BY <1>2 DEF IInv, ListsWhole, Listed, RemoveNetif
<1>5. BuffersAccounted' /\ ConnectionCurrent'
  BY DEF IInv, BuffersAccounted, ConnectionCurrent, RemoveNetif
<1> QED BY <1>3, <1>4, <1>5 DEF IInv

(* The steps that take a flag, the default interface or the connection.    *)
LEMMA SetDefaultKeeps ==
  ASSUME IInv, NEW i \in Netif \cup {Nil}, SetDefault(i)
  PROVE  IInv'
  BY DEF SetDefault, IInv, TypeOK, BuffersAccounted, ListsWhole, Listed, ConnectionCurrent

LEMMA SetDownKeeps ==
  ASSUME IInv, NEW i \in Netif, SetDown(i)
  PROVE  IInv'
  BY DEF SetDown, IInv, TypeOK, BuffersAccounted, ListsWhole, Listed, ConnectionCurrent

LEMMA ConnectKeeps ==
  ASSUME IInv, NEW d \in Dests, Connect(d)
  PROVE  IInv'
<1>1. Route(d) \in Netif
  BY RouteIs DEF IInv, Connect
<1> QED
  BY <1>1 DEF Connect, IInv, TypeOK, BuffersAccounted, ListsWhole, Listed, ConnectionCurrent

LEMMA DisconnectKeeps ==
  ASSUME IInv, Disconnect
  PROVE  IInv'
  BY DEF Disconnect, IInv, TypeOK, BuffersAccounted, ListsWhole, Listed, ConnectionCurrent

(* The steps of the raw blocks.                                            *)
LEMMA RawNewKeeps ==
  ASSUME IpAssumption, IInv, NEW r \in Raw, NEW pr \in RawProtocol, RawNew(r, pr)
  PROVE  IInv'
<1>1. raws \in Seq(Raw) /\ r \notin Range(raws) /\ IsInjective(raws)
  BY DEF IInv, TypeOK, ListsWhole, RawNew
<1>2. raws' \in Seq(Raw) /\ IsInjective(raws')
  BY <1>1, InFront DEF RawNew
<1>3. TypeOK'
  BY <1>2 DEF IInv, TypeOK, RawNew, IpAssumption
<1>4. ListsWhole' /\ BuffersAccounted' /\ ConnectionCurrent'
  BY <1>2 DEF IInv, ListsWhole, Listed, BuffersAccounted, ConnectionCurrent, RawNew
<1> QED BY <1>3, <1>4 DEF IInv

LEMMA RawRecvKeeps ==
  ASSUME IInv, NEW r \in Raw, NEW e \in BOOLEAN, RawRecv(r, e)
  PROVE  IInv'
  BY DEF RawRecv, IInv, TypeOK, BuffersAccounted, ListsWhole, Listed, ConnectionCurrent

LEMMA RawRemoveKeeps ==
  ASSUME IInv, NEW r \in Raw, RawRemove(r)
  PROVE  IInv'
<1>1. raws \in Seq(Raw) /\ r \in Range(raws) /\ IsInjective(raws)
  BY DEF IInv, TypeOK, ListsWhole, RawRemove
<1>2. raws' \in Seq(Raw) /\ IsInjective(raws')
  BY <1>1, UnlinkedIs DEF RawRemove
<1>3. TypeOK'
  BY <1>2 DEF IInv, TypeOK, RawRemove, Protocol
<1>4. ListsWhole' /\ BuffersAccounted' /\ ConnectionCurrent'
  BY <1>2 DEF IInv, ListsWhole, Listed, BuffersAccounted, ConnectionCurrent, RawRemove
<1> QED BY <1>3, <1>4 DEF IInv

(* The steps that leave all to a handler.                                  *)
LEMMA ListedIs == ASSUME IInv PROVE Listed \subseteq Netif
  BY ListIs DEF Listed, IInv, TypeOK

LEMMA SetUpKeeps ==
  ASSUME IpAssumption, IInv, NEW i \in Netif, NEW memory \in BOOLEAN, SetUp(i, memory)
  PROVE  IInv'
<1> DEFINE a == IF i \in up THEN All ELSE Request(All, addr[i], i, memory)
<1>1. All \in Records /\ addr[i] \in Address
  BY AllIs, Addresses DEF IInv, TypeOK
<1>2. Only(All, a, 0, Message)
  BY <1>1, RequestIs, Nothing DEF IInv
<1>3. Consumes(All, a, 0, Message)
  BY <1>1, <1>2, OnlyConsumes
<1>4. Becomes(a) /\ UNCHANGED <<list, default, addr, conn, proto, eats>> /\ up' \subseteq Netif
  BY DEF SetUp, IInv, TypeOK
<1> HIDE DEF a
<1> QED BY <1>3, <1>4, Handled

LEMMA SameIs == ASSUME IInv, Same
  PROVE  UNCHANGED <<list, default, addr, conn, proto, eats>> /\ up' \subseteq Netif
  BY DEF Same, IInv, TypeOK

LEMMA PacketsKeeps ==
  ASSUME IpAssumption, IInv, NEW i \in Netif, NEW p \in Packet, NEW memory \in BOOLEAN,
         NEW client, NEW fate \in {"refused", "kept", "whole"},
         Packets(i, p, memory, client, fate)
  PROVE  IInv'
<1> DEFINE a == IpFrame(Alloc(All), p, i, memory, client, fate)
<1>1. TypeOK
  BY DEF IInv
<1>2. Alloc(All) \in Records /\ Alloc(All).held = All.held
  BY <1>1, AllIs, AllocFree DEF Only
<1>3. May(Alloc(All), p, fate)
  BY <1>2 DEF Packets, May
<1>4. Consumes(Alloc(All), a, 1, Answers(p, i))
  BY <1>1, <1>2, <1>3, IpFrameIs
<1>5. Consumes(All, a, 0, Answers(p, i))
  BY <1>1, <1>4, Came
<1>6. Becomes(a) /\ Same
  BY DEF Packets
<1> HIDE DEF a
<1> QED BY <1>5, <1>6, SameIs, Handled

LEMMA ArpKeeps ==
  ASSUME IpAssumption, IInv, NEW i \in Netif, NEW op, NEW src \in Dests, NEW target \in Dests,
         Arp(i, op, src, target)
  PROVE  IInv'
<1> DEFINE a == ArpFrame(Alloc(All), op, src, target, i)
<1>1. TypeOK /\ src \in Address
  BY Addresses DEF IInv
<1>2. Alloc(All) \in Records
  BY <1>1, AllIs, AllocFree DEF Only
<1>3. Consumes(All, a, 0, Message)
  BY <1>1, <1>2, ArpFrameIs, Came
<1>4. Becomes(a) /\ Same
  BY DEF Arp
<1> HIDE DEF a
<1> QED BY <1>3, <1>4, SameIs, Handled

LEMMA OtherFrameKeeps ==
  ASSUME IpAssumption, IInv, NEW i \in Netif, OtherFrame(i)
  PROVE  IInv'
<1> DEFINE a == Free(Alloc(All))
<1>1. TypeOK
  BY DEF IInv
<1>2. Alloc(All) \in Records
  BY <1>1, AllIs, AllocFree DEF Only
<1>3. Consumes(All, a, 0, {})
  BY <1>1, <1>2, AllocFree, OnlyConsumes, Came
<1>4. Becomes(a) /\ Same
  BY DEF OtherFrame
<1> HIDE DEF a
<1> QED BY <1>3, <1>4, SameIs, Handled

LEMMA ReassTimeoutKeeps ==
  ASSUME IpAssumption, IInv, NEW memory \in BOOLEAN, ReassTimeout(memory)
  PROVE  IInv'
<1> DEFINE a == IF held.first THEN SendResponse(All, held.packet, "time", memory) ELSE All
           l == a.live - held.n
           b == [a EXCEPT !.held = NoDatagram, !.live = l]
<1>1. TypeOK /\ All \in Records /\ All.held = held
  BY AllIs DEF IInv
<1>2. held.packet \in PacketType
  BY <1>1, Addresses DEF TypeOK
<1>3. Only(All, a, 0, Message)
  <2>1. "time" \in Kind
    BY DEF Kind
  <2>2. Only(All, SendResponse(All, held.packet, "time", memory), 0, Message)
    BY <1>1, <1>2, <2>1, SendResponseIs DEF Only
  <2> QED BY <1>1, <2>2, Nothing
<1>4. Becomes(b) /\ Same
  BY DEF ReassTimeout
<1> HIDE DEF a
<1>5. /\ a \in Records /\ a.raws = All.raws /\ a.live = All.live - 0
      /\ Range(a.sent) \subseteq Range(All.sent) \cup Message
  BY <1>3 DEF Only
<1>6. l \in Int /\ held.n \in Nat /\ a.live \in Int
  BY <1>1, <1>5 DEF Records, TypeOK
<1>7. NoDatagram \in [packet : Packet \cup {NoPacket}, n : Nat, first : BOOLEAN] /\ NoDatagram.n = 0
  BY DEF NoDatagram
<1> HIDE DEF l
<1>8. /\ b \in Records /\ b.raws = a.raws /\ b.held = NoDatagram /\ b.live = l
      /\ b.sent = a.sent
  BY <1>5, <1>6, <1>7 DEF Records
<1> HIDE DEF b
<1>9. l - 0 = All.live - held.n - 0
  <2>1. All.live \in Int
    BY <1>1 DEF Records
  <2> QED BY <1>5, <1>6, <2>1 DEF l
<1>10. Consumes(All, b, 0, Message)
  BY <1>1, <1>5, <1>7, <1>8, <1>9 DEF Consumes
<1> QED BY <1>4, <1>10, SameIs, Handled

LEMMA SendKeeps ==
  ASSUME IpAssumption, IInv, NEW l \in Given, NEW d \in Dests, NEW room \in BOOLEAN,
         NEW memory \in BOOLEAN, Send(l, d, room, memory)
  PROVE  IInv'
<1>1. TypeOK /\ All \in Records /\ d \in Address
  BY AllIs, Addresses DEF IInv
<1>2. Same
  BY DEF Send
<1>3. CASE Becomes(UdpSendTo(All, l, d, room, memory))
  <2> DEFINE a == UdpSendTo(All, l, d, room, memory)
  <2>1. Consumes(All, a, 0, UNION {SentBy(i) : i \in up})
    BY <1>1, UdpSendToIs, OnlyConsumes
  <2> QED BY <1>2, <1>3, <2>1, SameIs, Handled
<1>4. CASE Becomes(RawSendTo(All, l, d, room, memory))
  <2>1. Consumes(All, RawSendTo(All, l, d, room, memory), 0, Message)
    BY <1>1, RawSendToIs, OnlyConsumes
  <2> QED BY <1>2, <1>4, <2>1, SameIs, Handled
<1>5. ASSUME NEW i \in Listed, Becomes(UdpSend(All, l, d, i, room, memory)) PROVE IInv'
  <2>1. Consumes(All, UdpSend(All, l, d, i, room, memory), 0, SentBy(i))
    BY <1>1, ListedIs, UdpSendIs, OnlyConsumes
  <2> QED BY <1>2, <1>5, <2>1, SameIs, Handled
<1> QED BY <1>3, <1>4, <1>5 DEF Send

-----------------------------------------------------------------------------
(* Every step keeps the invariant.                                         *)
LEMMA NextKeeps ==
  ASSUME IpAssumption, IInv, [Next]_vars
  PROVE  IInv'
<1>1. ASSUME NEW i \in Netif, NEW x \in Own[i] \cup {AnyHost},
             SetAddr(i, x) \/ \E f \in BOOLEAN : Add(i, x, f)
      PROVE  IInv'
  BY <1>1, SetAddrKeeps, AddKeeps
<1>2. ASSUME NEW i \in Netif, RemoveNetif(i) \/ SetDown(i) \/ OtherFrame(i)
      PROVE  IInv'
  BY <1>2, RemoveNetifKeeps, SetDownKeeps, OtherFrameKeeps
<1>3. ASSUME NEW i \in Netif, NEW memory \in BOOLEAN, SetUp(i, memory)
      PROVE  IInv'
  BY <1>3, SetUpKeeps
<1>4. ASSUME NEW i \in Netif, NEW p \in Packet, NEW memory \in BOOLEAN,
             NEW fate \in {"refused", "kept", "whole"},
             NEW client, Packets(i, p, memory, client, fate)
      PROVE  IInv'
  BY <1>4, PacketsKeeps
<1>5. ASSUME NEW i \in Netif, NEW op \in {"request", "reply"}, NEW src \in Dests,
             NEW target \in Dests, Arp(i, op, src, target)
      PROVE  IInv'
  BY <1>5, ArpKeeps
<1>6. ASSUME NEW i \in Netif \cup {Nil}, SetDefault(i)
      PROVE  IInv'
  BY <1>6, SetDefaultKeeps
<1>7. ASSUME NEW d \in Dests, Connect(d)
      PROVE  IInv'
  BY <1>7, ConnectKeeps
<1>8. CASE Disconnect
  BY <1>8, DisconnectKeeps
<1>9. ASSUME NEW r \in Raw, \/ \E pr \in RawProtocol : RawNew(r, pr)
                            \/ \E e \in BOOLEAN : RawRecv(r, e)
                            \/ RawRemove(r)
      PROVE  IInv'
  BY <1>9, RawNewKeeps, RawRecvKeeps, RawRemoveKeeps
<1>10. ASSUME NEW memory \in BOOLEAN, ReassTimeout(memory)
       PROVE  IInv'
  BY <1>10, ReassTimeoutKeeps
<1>11. ASSUME NEW l \in Given, NEW d \in Dests, NEW room \in BOOLEAN, NEW memory \in BOOLEAN,
              Send(l, d, room, memory)
       PROVE  IInv'
  BY <1>11, SendKeeps
<1>12. CASE UNCHANGED vars
  BY <1>12 DEF vars, IInv, TypeOK, BuffersAccounted, ListsWhole, Listed, ConnectionCurrent
<1> HIDE DEF IInv
<1> QED
  BY <1>1, <1>2, <1>3, <1>4, <1>5, <1>6, <1>7, <1>8, <1>9, <1>10, <1>11, <1>12, Zenon DEF Next

LEMMA Invariant ==
  ASSUME IpAssumption
  PROVE  Spec => []IInv
<1>1. Init => IInv
  BY Starts
<1>2. IInv /\ [Next]_vars => IInv'
  BY NextKeeps
<1> QED BY <1>1, <1>2, PTL DEF Spec

(* The interfaces, their addresses, the raw blocks and the fragments keep  *)
(* their types, whatever interfaces, networks and packets there are        *)
(* (netif.c, raw.c, ip_frag.c).                                            *)
THEOREM TypeCorrect ==
  ASSUME IpAssumption
  PROVE  Spec => []TypeOK
<1>1. IInv => TypeOK
  BY DEF IInv
<1> QED BY <1>1, Invariant, PTL

(* Every buffer that comes or is made is freed or handed over exactly      *)
(* once, on every path through ethernet_input, ip_input, ip_reass,         *)
(* raw_input, icmp_input, udp_input and the functions that send; what is   *)
(* left are the fragments that are kept.                                   *)
THEOREM BuffersFreedOnce ==
  ASSUME IpAssumption
  PROVE  Spec => []BuffersAccounted
<1>1. IInv => BuffersAccounted
  BY DEF IInv
<1> QED BY <1>1, Invariant, PTL

(* netif_list and raw_pcbs never hold an item twice, also when raw_input   *)
(* moves a block to the front, and netif_default is in the list.           *)
THEOREM ListsStayWhole ==
  ASSUME IpAssumption
  PROVE  Spec => []ListsWhole
<1>1. IInv => ListsWhole
  BY DEF IInv
<1> QED BY <1>1, Invariant, PTL

(* A connection's local address is that of an interface at every time:     *)
(* netif_set_ipaddr aborts those of the address that it takes away.        *)
THEOREM ConnectionIsOurs ==
  ASSUME IpAssumption
  PROVE  Spec => []ConnectionCurrent
<1>1. IInv => ConnectionCurrent
  BY DEF IInv
<1> QED BY <1>1, Invariant, PTL

(* ip_input, icmp_input and udp_input answer only what came from one host  *)
(* to an address of ours, or to what is a broadcast elsewhere only, and    *)
(* send the answer to that host.                                           *)
THEOREM AnsweredRightly ==
  ASSUME IpAssumption
  PROVE  Spec => []AnswersRight
<1>1. ASSUME IInv PROVE AnswersRight
  <2> SUFFICES
        ASSUME NEW i \in Listed \intersect up, NEW p \in Packet, NEW client \in BOOLEAN,
               NEW fate \in {"refused", "whole"}, May(All, p, fate),
               NEW m \in Range(IpFrame(Alloc(All), p, i, TRUE, client, fate).sent),
               ~ \E j \in Netif \ {i} : IsBroadcast(p.dest, j)
        PROVE  /\ \E j \in Netif : p.dest = addr[j]
               /\ m.dest = p.src /\ ~FromMany(p, i) /\ \E j \in Netif : m.src = addr[j]
               /\ m.kind # "reply" => p.proto # "icmp"
    BY DEF AnswersRight
  <2> DEFINE a == IpFrame(Alloc(All), p, i, TRUE, client, fate)
  <2>1. TypeOK /\ i \in Netif
    BY <1>1 DEF IInv, TypeOK
  <2>2. /\ Alloc(All) \in Records /\ Alloc(All).held = All.held
        /\ Range(Alloc(All).sent) \subseteq Range(All.sent) \cup {}
    BY <2>1, AllIs, AllocFree DEF Only
  <2>3. May(Alloc(All), p, fate) /\ fate \in {"refused", "kept", "whole"}
    BY <2>2 DEF May
  <2>4. Consumes(Alloc(All), a, 1, Allowed(p, i))
    BY <2>1, <2>2, <2>3, IpFrameIs
  <2>5. Range(All.sent) = {}
    BY <2>1, AllIs
  <2>6. m \in Range(a.sent)
    OBVIOUS
  <2> HIDE DEF a
  <2>7. m \in Allowed(p, i)
    BY <2>2, <2>4, <2>5, <2>6 DEF Consumes
  <2>8. \E j \in Netif : p.dest = addr[j]
    BY <2>7 DEF Allowed
  <2> QED BY <2>7, <2>8 DEF Allowed, Answers, Ours
<1> QED BY <1>1, Invariant, PTL

(* A datagram of udp_sendto leaves by an interface that is up, with the    *)
(* address that this has now, whatever address its block was bound to, and *)
(* goes to all, to a group or to a host of the interface's network.        *)
THEOREM SentRightly ==
  ASSUME IpAssumption
  PROVE  Spec => []SendsRight
<1>1. ASSUME IInv PROVE SendsRight
  <2> SUFFICES ASSUME NEW l \in Given, NEW d \in Dests,
                      NEW m \in Range(UdpSendTo(All, l, d, TRUE, TRUE).sent)
               PROVE  /\ m.by \in up /\ m.src = addr[m.by]
                      /\ m.hop \in {Ones, Group} \/ OnNet(m.hop, m.by)
    BY DEF SendsRight
  <2>1. TypeOK /\ All \in Records /\ Range(All.sent) = {} /\ d \in Address
    BY <1>1, AllIs, Addresses DEF IInv
  <2>2. Only(All, UdpSendTo(All, l, d, TRUE, TRUE), 0, UNION {SentBy(i) : i \in up})
    BY <2>1, UdpSendToIs
  <2>3. PICK i \in up : m \in SentBy(i)
    BY <2>1, <2>2 DEF Only
  <2> QED BY <2>3 DEF SentBy
<1> QED BY <1>1, Invariant, PTL

(* What the runs check of Ip: buffers and lists, the connection's address, *)
(* what is answered and what is sent, all in every state.                  *)
THEOREM IpIsSound ==
  ASSUME IpAssumption
  PROVE  Spec => []IpSound
<1>1. TypeOK /\ BuffersAccounted /\ ListsWhole /\ ConnectionCurrent /\ AnswersRight /\ SendsRight
      => IpSound
  BY DEF IpSound
<1> QED
  BY <1>1, TypeCorrect, BuffersFreedOnce, ListsStayWhole, ConnectionIsOurs, AnsweredRightly,
     SentRightly, PTL
===============================================================================
