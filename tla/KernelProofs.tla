----------------------------- MODULE KernelProofs -----------------------------
(***************************************************************************)
(* Lemmas about the kernel's lists and about the operators of Kernel, for  *)
(* every number of tasks, priorities and ticks: what each kernel function  *)
(* does to the lists, and that it keeps them sound.  The proofs about      *)
(* queues, mutexes and tasks rest on them.                                 *)
(***************************************************************************)
EXTENDS Kernel, SequenceTheorems, FiniteSetTheorems, WellFoundedInduction, TLAPS

-----------------------------------------------------------------------------
(* Every set of natural numbers that is not empty has a least element.     *)
LEMMA LeastOf ==
  ASSUME NEW T \in SUBSET Nat, T # {}
  PROVE  \E m \in T : \A n \in T : m <= n
<1> DEFINE R == OpToRel(<, Nat)
<1>1. IsWellFoundedOn(R, Nat)
  BY NatLessThanWellFounded, Zenon
<1>2. PICK m \in T : \A n \in T : ~(<<n, m>> \in R)
  BY <1>1, WFMin, Zenon
<1>3. \A n \in T : n < m => <<n, m>> \in R
  BY Zenon DEF OpToRel
<1>4. \A n \in T : ~(n < m)
  BY <1>2, <1>3, Zenon
<1> QED BY <1>4

(* Induction, for sets.                                                    *)
LEMMA NatSet ==
  ASSUME NEW T \in SUBSET Nat, 0 \in T, \A n \in T : n + 1 \in T
  PROVE  T = Nat
<1> SUFFICES ASSUME T # Nat PROVE FALSE
  OBVIOUS
<1>1. PICK m \in Nat \ T : \A n \in Nat \ T : m <= n
  BY LeastOf
<1>2. m # 0 /\ m - 1 \in Nat
  BY <1>1
<1>3. m - 1 \in T
  BY <1>1, <1>2
<1> QED BY <1>1, <1>2, <1>3

(* A loop whose i-th pass leads from a state of S[i - 1] to one of S[i]    *)
(* is a function of the number of passes.                                  *)
Leads(f, n, S) == \A i \in 1..n : \A s \in S[i - 1] : f[s] \in S[i]
Chained(g, f, n, S, x) == /\ g[0] = x /\ \A i \in 1..n : g[i] = f[g[i - 1]]
                          /\ \A i \in 0..n : g[i] \in S[i]

(* If each pass of a loop leads from one set to the next, the states after *)
(* each pass are a function: the loop of Times has a value.                *)
LEMMA Passes ==
  ASSUME NEW n \in Nat, NEW Q, NEW S \in [0..n -> SUBSET Q], NEW x \in S[0],
         NEW f, Leads(f, n, S)
  PROVE  \E g \in [0..n -> Q] : Chained(g, f, n, S, x)
<1> USE DEF Leads
<1> DEFINE Run(m, g) == /\ g = [i \in 0..m |-> g[i]]
                        /\ g[0] = x /\ \A i \in 1..m : g[i] = f[g[i - 1]]
                        /\ \A i \in 0..m : g[i] \in S[i]
           T == {m \in Nat : m <= n => \E g : Run(m, g)}
<1>1. 0 \in T
  <2> DEFINE g == [i \in 0..0 |-> x]
  <2>1. Run(0, g)
    OBVIOUS
  <2> QED BY <2>1
<1>2. ASSUME NEW m \in T PROVE m + 1 \in T
  <2> SUFFICES ASSUME m + 1 <= n PROVE \E g : Run(m + 1, g)
    OBVIOUS
  <2>1. PICK g : Run(m, g)
    OBVIOUS
  <2>2. /\ g[0] = x /\ \A i \in 1..m : g[i] = f[g[i - 1]]
        /\ \A i \in 0..m : g[i] \in S[i]
    BY <2>1, Zenon
  <2>7. g[m] \in S[m] /\ f[g[m]] \in S[m + 1]
    BY <2>2
  <2> DEFINE h == [i \in 0..m + 1 |-> IF i <= m THEN g[i] ELSE f[g[m]]]
  <2>3. \A i \in 0..m + 1 : h[i] = IF i <= m THEN g[i] ELSE f[g[m]]
    OBVIOUS
  <2>4. \A i \in 1..m + 1 : h[i] = f[h[i - 1]]
    <3> SUFFICES ASSUME NEW i \in 1..m + 1 PROVE h[i] = f[h[i - 1]]
      OBVIOUS
    <3> HIDE DEF h
    <3>1. h[i - 1] = g[i - 1]
      BY <2>3
    <3>2. CASE i <= m
      <4>1. g[i] = f[g[i - 1]]
        BY <2>2, <3>2
      <4> QED BY <2>3, <3>1, <3>2, <4>1
    <3>3. CASE i = m + 1
      BY <2>3, <3>1, <3>3
    <3> QED BY <3>2, <3>3
  <2>5. \A i \in 0..m + 1 : h[i] \in S[i]
    BY <2>2, <2>7, <2>3
  <2>6. h = [i \in 0..m + 1 |-> h[i]] /\ h[0] = x
    BY <2>2
  <2> QED BY <2>4, <2>5, <2>6
<1>3. T = Nat
  BY <1>1, <1>2, NatSet
<1>4. PICK g : Run(n, g)
  BY <1>3
<1>5. g \in [0..n -> Q]
  <2>1. \A i \in 0..n : g[i] \in Q
    BY <1>4
  <2>2. g = [i \in 0..n |-> g[i]]
    BY <1>4
  <2> QED BY <2>1, <2>2, Zenon
<1>6. g[0] = x /\ (\A i \in 1..n : g[i] = f[g[i - 1]]) /\ \A i \in 0..n : g[i] \in S[i]
  BY <1>4, Zenon
<1> QED BY <1>5, <1>6 DEF Chained

-----------------------------------------------------------------------------
(* Lists of tasks.                                                         *)
TaskList == Seq(Task)
Sorted(list, key) ==
  \A i, j \in 1..Len(list) : i < j => key[list[i]] <= key[list[j]]

(* The tasks of a list, by their places.                                   *)
LEMMA ListIs ==
  ASSUME NEW list \in TaskList
  PROVE  /\ Len(list) \in Nat /\ DOMAIN list = 1..Len(list)
         /\ \A i \in 1..Len(list) : list[i] \in Task
         /\ ToSet(list) = {list[i] : i \in 1..Len(list)} /\ ToSet(list) \subseteq Task
         /\ \A t : t \in ToSet(list) <=> \E i \in 1..Len(list) : list[i] = t
         /\ \A t : Contains(list, t) <=> t \in ToSet(list)
         /\ IsInjective(list) <=> \A i, j \in 1..Len(list) : list[i] = list[j] => i = j
         /\ list = << >> <=> Len(list) = 0
         /\ list = << >> <=> ToSet(list) = {}
<1>1. /\ Len(list) \in Nat /\ list \in [1..Len(list) -> Task] /\ DOMAIN list = 1..Len(list)
  BY LenProperties DEF TaskList
<1>2. list = << >> <=> Len(list) = 0
  BY <1>1, EmptySeq DEF TaskList
<1>3. ToSet(list) = {list[i] : i \in 1..Len(list)}
  BY <1>1 DEF ToSet
<1>4. \A t : Contains(list, t) <=> t \in ToSet(list)
  BY <1>3 DEF Contains
<1>5. IsInjective(list) <=> \A i, j \in 1..Len(list) : list[i] = list[j] => i = j
  BY <1>1 DEF IsInjective
<1>6. \A t : t \in ToSet(list) <=> \E i \in 1..Len(list) : list[i] = t
  BY <1>3, Zenon
<1>7. Len(list) = 0 <=> ToSet(list) = {}
  <2>1. ASSUME Len(list) = 0 PROVE ToSet(list) = {}
    BY <1>6, <2>1
  <2>2. ASSUME Len(list) # 0 PROVE list[1] \in ToSet(list)
    BY <1>1, <1>6, <2>2
  <2> QED BY <2>1, <2>2
<1>8. \A i \in 1..Len(list) : list[i] \in Task
  BY <1>1
<1>9. ToSet(list) \subseteq Task
  BY <1>6, <1>8
<1>10. list = << >> <=> ToSet(list) = {}
  BY <1>2, <1>7
<1> QED BY <1>1, <1>2, <1>3, <1>4, <1>5, <1>6, <1>8, <1>9, <1>10, Zenon

(* Adding at the end.                                                      *)
LEMMA AppendList ==
  ASSUME NEW list \in TaskList, NEW t \in Task
  PROVE  /\ Append(list, t) \in TaskList
         /\ ToSet(Append(list, t)) = ToSet(list) \cup {t}
         /\ IsInjective(list) /\ t \notin ToSet(list) => IsInjective(Append(list, t))
         /\ Append(list, t) # << >>
<1> DEFINE longer == Append(list, t)
<1>1. /\ longer \in TaskList /\ longer # << >> /\ Len(longer) = Len(list) + 1
      /\ \A i \in 1..Len(list) : longer[i] = list[i]
      /\ longer[Len(list) + 1] = t
  BY AppendProperties DEF TaskList
<1> HIDE DEF longer
<1>2. Len(list) \in Nat
  BY ListIs
<1>3. \A u : u \in ToSet(longer) <=> u \in ToSet(list) \cup {t}
  <2>1. \A u : (\E i \in 1..Len(list) + 1 : longer[i] = u)
                 <=> (\E i \in 1..Len(list) : list[i] = u) \/ u = t
    BY <1>1, <1>2
  <2> QED BY <1>1, <2>1, ListIs
<1>4. IsInjective(list) /\ t \notin ToSet(list) => IsInjective(longer)
  <2> SUFFICES ASSUME IsInjective(list), t \notin ToSet(list),
                      NEW i \in 1..Len(list) + 1, NEW j \in 1..Len(list) + 1,
                      longer[i] = longer[j]
               PROVE  i = j
    BY <1>1, ListIs
  <2>1. \A m, n \in 1..Len(list) : list[m] = list[n] => m = n
    BY ListIs
  <2>2. \A m \in 1..Len(list) : list[m] # t
    BY ListIs
  <2> QED BY <1>1, <1>2, <2>1, <2>2
<1> QED BY <1>1, <1>3, <1>4 DEF longer

(* Taking the head off.                                                    *)
LEMMA TailList ==
  ASSUME NEW list \in TaskList, list # << >>
  PROVE  /\ Head(list) \in Task /\ Head(list) \in ToSet(list) /\ Head(list) = list[1]
         /\ Tail(list) \in TaskList /\ Len(Tail(list)) = Len(list) - 1
         /\ \A i \in 1..Len(list) - 1 : Tail(list)[i] = list[i + 1]
         /\ IsInjective(list) => /\ ToSet(Tail(list)) = ToSet(list) \ {Head(list)}
                                 /\ IsInjective(Tail(list))
<1> DEFINE rest == Tail(list)
<1>1. /\ rest \in TaskList /\ Head(list) \in Task
      /\ Len(rest) = Len(list) - 1 /\ \A i \in 1..Len(rest) : rest[i] = list[i + 1]
  BY HeadTailProperties DEF TaskList
<1>2. Len(list) \in Nat \ {0}
  BY ListIs
<1>3. Head(list) = list[1]
  BY DEF TaskList
<1> HIDE DEF rest
<1>4. Head(list) \in ToSet(list)
  BY <1>2, <1>3, ListIs
<1>5. ASSUME IsInjective(list) PROVE ToSet(rest) = ToSet(list) \ {Head(list)} /\ IsInjective(rest)
  <2>1. \A m, n \in 1..Len(list) : list[m] = list[n] => m = n
    BY <1>5, ListIs
  <2>2. \A u : (\E i \in 1..Len(rest) : rest[i] = u)
                 <=> (\E i \in 1..Len(list) : list[i] = u) /\ u # list[1]
    <3> TAKE u
    <3>1. ASSUME NEW i \in 1..Len(rest), rest[i] = u
          PROVE  (\E j \in 1..Len(list) : list[j] = u) /\ u # list[1]
      <4>1. i + 1 \in 1..Len(list) /\ i + 1 # 1 /\ list[i + 1] = u
        BY <1>1, <1>2, <3>1
      <4> QED BY <1>2, <2>1, <4>1
    <3>2. ASSUME NEW j \in 1..Len(list), list[j] = u, u # list[1]
          PROVE  \E i \in 1..Len(rest) : rest[i] = u
      <4>1. j - 1 \in 1..Len(rest) /\ rest[j - 1] = u
        BY <1>1, <1>2, <3>2
      <4> QED BY <4>1
    <3> QED BY <3>1, <3>2
  <2>3. \A u : u \in ToSet(rest) <=> u \in ToSet(list) \ {Head(list)}
    <3>1. \A u : u \in ToSet(rest) <=> \E i \in 1..Len(rest) : rest[i] = u
      BY <1>1, ListIs
    <3>2. \A u : u \in ToSet(list) <=> \E i \in 1..Len(list) : list[i] = u
      BY ListIs
    <3> QED BY <1>3, <2>2, <3>1, <3>2
  <2>4. \A m, n \in 1..Len(rest) : rest[m] = rest[n] => m = n
    BY <1>1, <1>2, <2>1
  <2> QED BY <1>1, <2>3, <2>4, ListIs
<1> QED BY <1>1, <1>2, <1>3, <1>4, <1>5 DEF rest

(* Removing the item at a place.                                           *)
LEMMA RemoveAtList ==
  ASSUME NEW list \in TaskList, NEW n \in 1..Len(list)
  PROVE  /\ RemoveAt(list, n) \in TaskList /\ Len(RemoveAt(list, n)) = Len(list) - 1
         /\ \A i \in 1..Len(list) - 1 :
              RemoveAt(list, n)[i] = IF i < n THEN list[i] ELSE list[i + 1]
<1> DEFINE left == SubSeq(list, 1, n - 1)
           right == SubSeq(list, n + 1, Len(list))
<1>1. Len(list) \in Nat /\ \A i \in 1..Len(list) : list[i] \in Task
  BY ListIs
<1>2. /\ left \in Seq(Task) /\ Len(left) = n - 1
      /\ \A i \in 1..n - 1 : left[i] = list[i]
  <2>1. \A i \in 1..n - 1 : list[i] \in Task
    BY <1>1
  <2>2. 1 \in Int /\ n - 1 \in Int
    BY <1>1
  <2>3. /\ left \in Seq(Task) /\ Len(left) = IF 1 <= n - 1 THEN n - 1 - 1 + 1 ELSE 0
        /\ \A i \in 1..n - 1 - 1 + 1 : left[i] = list[1 + i - 1]
    BY <2>1, <2>2, SubSeqProperties
  <2> HIDE DEF left
  <2>4. \A i \in 1..n - 1 : i \in 1..n - 1 - 1 + 1 /\ 1 + i - 1 = i
    BY <1>1
  <2>5. \A i \in 1..n - 1 : left[i] = list[i]
    BY <2>3, <2>4
  <2> QED BY <1>1, <2>3, <2>5
<1>3. /\ right \in Seq(Task) /\ Len(right) = Len(list) - n
      /\ \A i \in 1..Len(list) - n : right[i] = list[n + i]
  <2>1. \A i \in n + 1..Len(list) : list[i] \in Task
    BY <1>1
  <2>2. n + 1 \in Int /\ Len(list) \in Int
    BY <1>1
  <2>3. /\ right \in Seq(Task)
        /\ Len(right) = IF n + 1 <= Len(list) THEN Len(list) - (n + 1) + 1 ELSE 0
        /\ \A i \in 1..Len(list) - (n + 1) + 1 : right[i] = list[(n + 1) + i - 1]
    BY <2>1, <2>2, SubSeqProperties
  <2> HIDE DEF right
  <2>4. \A i \in 1..Len(list) - n : i \in 1..Len(list) - (n + 1) + 1 /\ (n + 1) + i - 1 = n + i
    BY <1>1
  <2>5. \A i \in 1..Len(list) - n : right[i] = list[n + i]
    BY <2>3, <2>4
  <2> QED BY <1>1, <2>3, <2>5
<1> HIDE DEF left, right
<1>4. /\ left \o right \in Seq(Task) /\ Len(left \o right) = Len(left) + Len(right)
      /\ \A i \in 1..Len(left) + Len(right) :
           (left \o right)[i] = IF i <= Len(left) THEN left[i] ELSE right[i - Len(left)]
  BY <1>2, <1>3, ConcatProperties
<1>5. RemoveAt(list, n) = left \o right
  BY DEF RemoveAt, left, right
<1>6. \A i \in 1..Len(list) - 1 :
        (left \o right)[i] = IF i < n THEN list[i] ELSE list[i + 1]
  <2> SUFFICES ASSUME NEW i \in 1..Len(list) - 1
               PROVE  (left \o right)[i] = IF i < n THEN list[i] ELSE list[i + 1]
    OBVIOUS
  <2>1. CASE i < n
    <3>1. i \in 1..n - 1 /\ i \in 1..Len(left) + Len(right) /\ i <= Len(left)
      BY <1>1, <1>2, <1>3, <2>1
    <3> QED BY <1>2, <1>4, <2>1, <3>1
  <2>2. CASE ~(i < n)
    <3>1. /\ i - Len(left) \in 1..Len(list) - n /\ i \in 1..Len(left) + Len(right)
          /\ ~(i <= Len(left)) /\ n + (i - Len(left)) = i + 1
      BY <1>1, <1>2, <1>3, <2>2
    <3> QED BY <1>3, <1>4, <2>2, <3>1
  <2> QED BY <2>1, <2>2
<1>7. Len(left) + Len(right) = Len(list) - 1
  BY <1>1, <1>2, <1>3
<1> QED BY <1>4, <1>5, <1>6, <1>7 DEF TaskList

(* Inserting an item at a place.                                           *)
LEMMA InsertAtList ==
  ASSUME NEW list \in TaskList, NEW n \in 1..Len(list) + 1, NEW t \in Task
  PROVE  /\ InsertAt(list, n, t) \in TaskList /\ Len(InsertAt(list, n, t)) = Len(list) + 1
         /\ \A i \in 1..Len(list) + 1 :
              InsertAt(list, n, t)[i]
                = IF i < n THEN list[i] ELSE IF i = n THEN t ELSE list[i - 1]
<1> DEFINE left == SubSeq(list, 1, n - 1)
           right == SubSeq(list, n, Len(list))
           with == left \o << t >>
<1>1. Len(list) \in Nat /\ \A i \in 1..Len(list) : list[i] \in Task
  BY ListIs
<1>2. /\ left \in Seq(Task) /\ Len(left) = n - 1
      /\ \A i \in 1..n - 1 : left[i] = list[i]
  <2>1. \A i \in 1..n - 1 : list[i] \in Task
    BY <1>1
  <2>2. 1 \in Int /\ n - 1 \in Int
    BY <1>1
  <2>3. /\ left \in Seq(Task) /\ Len(left) = IF 1 <= n - 1 THEN n - 1 - 1 + 1 ELSE 0
        /\ \A i \in 1..n - 1 - 1 + 1 : left[i] = list[1 + i - 1]
    BY <2>1, <2>2, SubSeqProperties
  <2> HIDE DEF left
  <2>4. \A i \in 1..n - 1 : i \in 1..n - 1 - 1 + 1 /\ 1 + i - 1 = i
    BY <1>1
  <2>5. \A i \in 1..n - 1 : left[i] = list[i]
    BY <2>3, <2>4
  <2> QED BY <1>1, <2>3, <2>5
<1>3. /\ right \in Seq(Task) /\ Len(right) = Len(list) - n + 1
      /\ \A i \in 1..Len(list) - n + 1 : right[i] = list[n + i - 1]
  <2>1. \A i \in n..Len(list) : list[i] \in Task
    BY <1>1
  <2>2. n \in Int /\ Len(list) \in Int
    BY <1>1
  <2>3. /\ right \in Seq(Task)
        /\ Len(right) = IF n <= Len(list) THEN Len(list) - n + 1 ELSE 0
        /\ \A i \in 1..Len(list) - n + 1 : right[i] = list[n + i - 1]
    BY <2>1, <2>2, SubSeqProperties
  <2> HIDE DEF right
  <2> QED BY <1>1, <2>3
<1> HIDE DEF left, right
<1>4. with = Append(left, t)
  BY <1>2, AppendIsConcat
<1> HIDE DEF with
<1>5. /\ with \in Seq(Task) /\ Len(with) = n
      /\ \A i \in 1..n : with[i] = IF i < n THEN list[i] ELSE t
  <2>1. /\ with \in Seq(Task) /\ Len(with) = Len(left) + 1
        /\ \A i \in 1..Len(left) : with[i] = left[i]
        /\ with[Len(left) + 1] = t
    BY <1>2, <1>4, AppendProperties
  <2>2. \A i \in 1..n : i < n => i \in 1..Len(left)
    BY <1>2, <1>1
  <2>3. Len(left) + 1 = n
    BY <1>1, <1>2
  <2> QED BY <1>1, <1>2, <2>1, <2>2, <2>3
<1>6. /\ with \o right \in Seq(Task) /\ Len(with \o right) = Len(with) + Len(right)
      /\ \A i \in 1..Len(with) + Len(right) :
           (with \o right)[i] = IF i <= Len(with) THEN with[i] ELSE right[i - Len(with)]
  BY <1>3, <1>5, ConcatProperties
<1>7. InsertAt(list, n, t) = with \o right
  BY DEF InsertAt, with, left, right
<1>8. \A i \in 1..Len(list) + 1 :
        (with \o right)[i] = IF i < n THEN list[i] ELSE IF i = n THEN t ELSE list[i - 1]
  <2> SUFFICES ASSUME NEW i \in 1..Len(list) + 1
               PROVE  (with \o right)[i]
                        = IF i < n THEN list[i] ELSE IF i = n THEN t ELSE list[i - 1]
    OBVIOUS
  <2>1. CASE i <= n
    <3>1. i \in 1..n /\ i \in 1..Len(with) + Len(right) /\ i <= Len(with)
      BY <1>1, <1>3, <1>5, <2>1
    <3> QED BY <1>1, <1>5, <1>6, <2>1, <3>1
  <2>2. CASE ~(i <= n)
    <3>1. /\ i - Len(with) \in 1..Len(list) - n + 1 /\ i \in 1..Len(with) + Len(right)
          /\ ~(i <= Len(with)) /\ n + (i - Len(with)) - 1 = i - 1 /\ ~(i < n) /\ i # n
      BY <1>1, <1>3, <1>5, <2>2
    <3> QED BY <1>3, <1>6, <3>1
  <2> QED BY <2>1, <2>2
<1>9. Len(with) + Len(right) = Len(list) + 1
  BY <1>1, <1>3, <1>5
<1> QED BY <1>6, <1>7, <1>8, <1>9 DEF TaskList

(* uxListRemove keeps the other items in their order.                      *)
LEMMA UnlinkList ==
  ASSUME NEW list \in TaskList, NEW t
  PROVE  /\ Unlink(list, t) \in TaskList
         /\ t \notin ToSet(list) => Unlink(list, t) = list
         /\ t \in ToSet(list) => Len(Unlink(list, t)) = Len(list) - 1
         /\ ToSet(Unlink(list, t)) \subseteq ToSet(list)
         /\ IsInjective(list) => /\ IsInjective(Unlink(list, t))
                                 /\ ToSet(Unlink(list, t)) = ToSet(list) \ {t}
         /\ \A key : Sorted(list, key) => Sorted(Unlink(list, t), key)
<1> DEFINE rest == Unlink(list, t)
<1>1. Len(list) \in Nat /\ \A u : u \in ToSet(list) <=> \E i \in 1..Len(list) : list[i] = u
  BY ListIs
<1>2. CASE t \notin ToSet(list)
  <2>1. ~Contains(list, t)
    BY <1>2, ListIs
  <2>2. rest = list
    BY <2>1 DEF Unlink
  <2> QED BY <1>2, <2>2, ListIs
<1>3. CASE t \in ToSet(list)
  <2>1. Contains(list, t)
    BY <1>3, ListIs
  <2>2. PICK n \in 1..Len(list) : list[n] = t /\ rest = RemoveAt(list, n)
    <3> DEFINE n == CHOOSE i \in 1..Len(list) : list[i] = t
    <3>1. n \in 1..Len(list) /\ list[n] = t
      BY <1>1, <1>3
    <3>2. rest = RemoveAt(list, n)
      BY <2>1 DEF Unlink
    <3> HIDE DEF n, rest
    <3> QED BY <3>1, <3>2
  <2> HIDE DEF rest
  <2>3. /\ rest \in TaskList /\ Len(rest) = Len(list) - 1
        /\ \A i \in 1..Len(list) - 1 : rest[i] = IF i < n THEN list[i] ELSE list[i + 1]
    BY <2>2, RemoveAtList
  <2> DEFINE at(i) == IF i < n THEN i ELSE i + 1
  <2>4. \A i \in 1..Len(rest) : rest[i] = list[at(i)] /\ at(i) \in 1..Len(list) /\ at(i) # n
    BY <1>1, <2>3
  <2>5. \A i, j \in 1..Len(rest) : (i < j => at(i) < at(j)) /\ (at(i) = at(j) => i = j)
    BY <1>1, <2>3
  <2>6. \A j \in 1..Len(list) : j # n => \E i \in 1..Len(rest) : at(i) = j
    <3> SUFFICES ASSUME NEW j \in 1..Len(list), j # n PROVE \E i \in 1..Len(rest) : at(i) = j
      OBVIOUS
    <3>1. CASE j < n
      <4>1. j \in 1..Len(rest) /\ at(j) = j
        BY <1>1, <2>3, <3>1
      <4> HIDE DEF at
      <4> QED BY <4>1
    <3>2. CASE j > n
      <4>1. j - 1 \in 1..Len(rest) /\ at(j - 1) = j
        BY <1>1, <2>3, <3>2
      <4> HIDE DEF at
      <4> QED BY <4>1
    <3> QED BY <1>1, <3>1, <3>2
  <2> HIDE DEF at
  <2>7. \A u : u \in ToSet(rest) <=> \E i \in 1..Len(rest) : rest[i] = u
    BY <2>3, ListIs
  <2>8. ToSet(rest) \subseteq ToSet(list)
    BY <1>1, <2>4, <2>7
  <2>9. ASSUME IsInjective(list) PROVE IsInjective(rest) /\ ToSet(rest) = ToSet(list) \ {t}
    <3>1. \A i, j \in 1..Len(list) : list[i] = list[j] => i = j
      BY <2>9, ListIs
    <3>2. \A i, j \in 1..Len(rest) : rest[i] = rest[j] => i = j
      BY <2>4, <2>5, <3>1
    <3>3. t \notin ToSet(rest)
      BY <2>2, <2>4, <2>7, <3>1
    <3>4. \A u \in ToSet(list) : u # t => u \in ToSet(rest)
      <4> SUFFICES ASSUME NEW j \in 1..Len(list), list[j] # t PROVE list[j] \in ToSet(rest)
        BY <1>1
      <4>1. PICK i \in 1..Len(rest) : at(i) = j
        BY <2>2, <2>6
      <4> QED BY <2>4, <2>7, <4>1
    <3>5. ToSet(rest) = ToSet(list) \ {t}
      BY <2>8, <3>3, <3>4
    <3> QED BY <2>3, <3>2, <3>5, ListIs
  <2>10. ASSUME NEW key, Sorted(list, key) PROVE Sorted(rest, key)
    BY <2>4, <2>5, <2>10 DEF Sorted
  <2> QED BY <1>3, <2>3, <2>8, <2>9, <2>10 DEF rest
<1> QED BY <1>2, <1>3

(* Unlinking the first item moves the others up.                           *)
LEMMA UnlinkHead ==
  ASSUME NEW list \in TaskList, list # << >>, IsInjective(list)
  PROVE  Unlink(list, Head(list)) = Tail(list)
<1> DEFINE n == CHOOSE i \in 1..Len(list) : list[i] = Head(list)
<1>1. Len(list) \in Nat \ {0} /\ \A i, j \in 1..Len(list) : list[i] = list[j] => i = j
  BY ListIs
<1>2. Head(list) = list[1] /\ Head(list) \in ToSet(list)
  BY TailList
<1>3. n = 1
  BY <1>1, <1>2
<1>4. Unlink(list, Head(list)) = RemoveAt(list, n)
  <2>1. Contains(list, Head(list))
    BY <1>2, ListIs
  <2> QED BY <2>1 DEF Unlink
<1> HIDE DEF n
<1>5. /\ RemoveAt(list, 1) \in TaskList /\ Len(RemoveAt(list, 1)) = Len(list) - 1
      /\ \A i \in 1..Len(list) - 1 :
           RemoveAt(list, 1)[i] = IF i < 1 THEN list[i] ELSE list[i + 1]
  BY <1>1, RemoveAtList
<1>6. /\ Tail(list) \in TaskList /\ Len(Tail(list)) = Len(list) - 1
      /\ \A i \in 1..Len(list) - 1 : Tail(list)[i] = list[i + 1]
  BY TailList
<1> DEFINE a == RemoveAt(list, 1)
           b == Tail(list)
<1>7. a \in Seq(Task) /\ b \in Seq(Task) /\ Len(a) = Len(b) /\ \A i \in 1..Len(a) : a[i] = b[i]
  BY <1>1, <1>5, <1>6 DEF TaskList
<1> HIDE DEF a, b
<1>8. a = b
  BY <1>7, SeqEqual
<1> QED BY <1>3, <1>4, <1>8 DEF a, b

(* vListInsert adds the item and keeps a sorted list sorted.               *)
LEMMA InsertSortedList ==
  ASSUME NEW list \in TaskList, NEW key \in [Task -> Int], NEW t \in Task
  PROVE  /\ InsertSorted(list, key, t) \in TaskList
         /\ ToSet(InsertSorted(list, key, t)) = ToSet(list) \cup {t}
         /\ IsInjective(list) /\ t \notin ToSet(list)
              => IsInjective(InsertSorted(list, key, t))
         /\ Sorted(list, key) => Sorted(InsertSorted(list, key, t), key)
<1> DEFINE Here(i) == /\ \A j \in 1..i - 1 : key[list[j]] <= key[t]
                      /\ i <= Len(list) => key[t] < key[list[i]]
<1>1. /\ Len(list) \in Nat /\ \A i \in 1..Len(list) : list[i] \in Task
      /\ \A u : u \in ToSet(list) <=> \E i \in 1..Len(list) : list[i] = u
  BY ListIs
<1>2. \E i \in 1..Len(list) + 1 : Here(i)
  <2> DEFINE T == {i \in 1..Len(list) : key[t] < key[list[i]]}
  <2>1. CASE T = {}
    <3>1. Here(Len(list) + 1)
      BY <1>1, <2>1
    <3> QED BY <1>1, <3>1
  <2>2. CASE T # {}
    <3>1. T \in SUBSET Nat
      BY <1>1
    <3> HIDE DEF T
    <3>2. PICK i \in T : \A j \in T : i <= j
      BY <2>2, <3>1, LeastOf
    <3>3. i \in 1..Len(list) /\ key[t] < key[list[i]]
      BY DEF T
    <3>4. \A j \in 1..i - 1 : key[list[j]] <= key[t]
      <4> SUFFICES ASSUME NEW j \in 1..i - 1 PROVE key[list[j]] <= key[t]
        OBVIOUS
      <4>1. j \in 1..Len(list) /\ ~(i <= j)
        BY <1>1, <3>3
      <4>2. ~(key[t] < key[list[j]])
        BY <3>2, <4>1 DEF T
      <4> QED BY <1>1, <4>1, <4>2
    <3> QED BY <1>1, <3>3, <3>4
  <2> QED BY <2>1, <2>2
<1> DEFINE n == CHOOSE i \in 1..Len(list) + 1 : Here(i)
           longer == InsertSorted(list, key, t)
<1>3. n \in 1..Len(list) + 1 /\ Here(n)
  BY <1>2
<1>4. longer = InsertAt(list, n, t)
  BY DEF InsertSorted
<1> HIDE DEF n, longer
<1>5. /\ longer \in TaskList /\ Len(longer) = Len(list) + 1
      /\ \A i \in 1..Len(list) + 1 :
           longer[i] = IF i < n THEN list[i] ELSE IF i = n THEN t ELSE list[i - 1]
  BY <1>3, <1>4, InsertAtList
<1>6. \A u : u \in ToSet(longer) <=> \E i \in 1..Len(longer) : longer[i] = u
  BY <1>5, ListIs
<1>7. ToSet(longer) = ToSet(list) \cup {t}
  <2>1. \A i \in 1..Len(longer) : longer[i] \in ToSet(list) \cup {t}
    BY <1>1, <1>3, <1>5
  <2>2. longer[n] = t
    BY <1>3, <1>5
  <2>3. \A i \in 1..Len(list) : \E j \in 1..Len(longer) : longer[j] = list[i]
    <3> SUFFICES ASSUME NEW i \in 1..Len(list)
                 PROVE  \E j \in 1..Len(longer) : longer[j] = list[i]
      OBVIOUS
    <3>1. CASE i < n
      <4>1. i \in 1..Len(longer) /\ longer[i] = list[i]
        BY <1>1, <1>5, <3>1
      <4> QED BY <4>1
    <3>2. CASE ~(i < n)
      <4>1. i + 1 \in 1..Len(longer) /\ longer[i + 1] = list[i]
        BY <1>1, <1>3, <1>5, <3>2
      <4> QED BY <4>1
    <3> QED BY <3>1, <3>2
  <2>4. t \in ToSet(longer)
    BY <1>3, <1>5, <1>6, <2>2
  <2> QED BY <1>1, <1>6, <2>1, <2>3, <2>4
<1>8. ASSUME IsInjective(list), t \notin ToSet(list) PROVE IsInjective(longer)
  <2>1. \A i, j \in 1..Len(list) : list[i] = list[j] => i = j
    BY <1>8, ListIs
  <2>2. \A i \in 1..Len(list) : list[i] # t
    BY <1>1, <1>8
  <2>3. ASSUME NEW i \in 1..Len(longer), NEW j \in 1..Len(longer), longer[i] = longer[j]
        PROVE  i = j
    <3> HIDE DEF Here
    <3> DEFINE from(m) == IF m < n THEN m ELSE m - 1
    <3>1. \A m \in 1..Len(longer) :
            m # n => from(m) \in 1..Len(list) /\ longer[m] = list[from(m)]
      BY <1>1, <1>3, <1>5
    <3>2. longer[n] = t
      BY <1>3, <1>5
    <3>3. i # n /\ j # n => from(i) # from(j) \/ i = j
      BY <1>1, <1>3, <1>5
    <3> HIDE DEF from
    <3>4. \A m \in 1..Len(longer) : m # n => longer[m] # t
      BY <2>2, <3>1
    <3>5. i = n <=> j = n
      BY <2>3, <3>2, <3>4
    <3>6. i # n => from(i) = from(j)
      BY <2>1, <2>3, <3>1, <3>5
    <3> QED BY <3>3, <3>5, <3>6
  <2> QED BY <1>5, <2>3, ListIs
<1>9. ASSUME Sorted(list, key) PROVE Sorted(longer, key)
  <2> SUFFICES ASSUME NEW i \in 1..Len(longer), NEW j \in 1..Len(longer), i < j
               PROVE  key[longer[i]] <= key[longer[j]]
    BY DEF Sorted
  <2>1. \A a, b \in 1..Len(list) : a < b => key[list[a]] <= key[list[b]]
    BY <1>9 DEF Sorted
  <2>2. \A a \in 1..Len(list) : key[list[a]] \in Int
    BY <1>1
  <2>3. \A a \in 1..Len(list) : a < n => key[list[a]] <= key[t]
    BY <1>1, <1>3
  <2>4. \A a \in 1..Len(list) : ~(a < n) => key[t] <= key[list[a]]
    <3> SUFFICES ASSUME NEW a \in 1..Len(list), ~(a < n) PROVE key[t] <= key[list[a]]
      OBVIOUS
    <3>1. n \in 1..Len(list) /\ key[t] < key[list[n]]
      BY <1>1, <1>3
    <3>2. key[list[n]] <= key[list[a]]
      BY <1>1, <2>1, <2>2, <3>1
    <3> QED BY <2>2, <3>1, <3>2
  <2> HIDE DEF Here
  <2>5. CASE j < n
    BY <1>1, <1>3, <1>5, <2>1, <2>5
  <2>6. CASE j = n
    BY <1>1, <1>3, <1>5, <2>3, <2>6
  <2>7. CASE j > n /\ i < n
    BY <1>1, <1>3, <1>5, <2>1, <2>7
  <2>8. CASE j > n /\ i = n
    BY <1>1, <1>3, <1>5, <2>4, <2>8
  <2>9. CASE j > n /\ i > n
    <3>1. /\ i - 1 \in 1..Len(list) /\ j - 1 \in 1..Len(list) /\ i - 1 < j - 1
          /\ longer[i] = list[i - 1] /\ longer[j] = list[j - 1]
      BY <1>1, <1>3, <1>5, <2>9
    <3> QED BY <2>1, <3>1
  <2> QED BY <1>1, <1>3, <1>5, <2>5, <2>6, <2>7, <2>8, <2>9
<1> QED BY <1>5, <1>7, <1>8, <1>9 DEF longer

-----------------------------------------------------------------------------
(* What is always true of the scheduler.  First, what its fields hold.     *)
Parts == {"ready", "top", "current", "suspended", "pending", "missedTicks", "missedYield",
          "delayed", "overflowed", "wake", "waiting", "eventKey", "priority", "tick",
          "overflows", "nextUnblock", "swapFailed"}

IsRecord(k) == k = [f \in Parts |-> k[f]]

Typed(k) ==
  /\ IsRecord(k)
  /\ k.ready \in [Priorities -> TaskList] /\ k.top \in Priorities /\ k.current \in Task
  /\ k.suspended \in Nat /\ k.missedTicks \in Nat /\ k.missedYield \in BOOLEAN
  /\ k.pending \in TaskList /\ k.delayed \in TaskList /\ k.overflowed \in TaskList
  /\ k.wake \in [Task -> 0..MaxDelay] /\ k.waiting \in [EventLists -> TaskList]
  /\ k.eventKey \in [Task -> Int] /\ k.priority \in [Task -> Priorities]
  /\ k.tick \in 0..MaxDelay /\ k.overflows \in 0..OverflowRange - 1
  /\ k.nextUnblock \in 0..MaxDelay /\ k.swapFailed \in BOOLEAN

(* The generic list item of every living task is in one list: the ready    *)
(* list of its priority, which is not above top, or a delayed list.        *)
Homed(k, live) ==
  /\ \A p \in Priorities : IsInjective(k.ready[p])
  /\ IsInjective(k.delayed) /\ IsInjective(k.overflowed)
  /\ \A p \in Priorities : \A t \in ToSet(k.ready[p]) :
       t \in live /\ t \notin Blocked(k) /\ k.priority[t] = p /\ p <= k.top
  /\ \A t \in ToSet(k.delayed) : t \in live /\ t \notin ToSet(k.overflowed)
  /\ \A t \in ToSet(k.overflowed) : t \in live
  /\ \A t \in live : t \in Blocked(k) \/ t \in ToSet(k.ready[k.priority[t]])

(* Its event list item is in one list at most, behind those of the tasks   *)
(* that are at least as important.                                         *)
ByRank(k) ==
  /\ \A t \in Task : k.eventKey[t] = MaxPriorities - k.priority[t]
  /\ \A e \in EventLists : Sorted(k.waiting[e], k.eventKey)

Events(k) ==
  /\ ByRank(k)
  /\ IsInjective(k.pending) /\ \A e \in EventLists : IsInjective(k.waiting[e])
  /\ \A e, f \in EventLists : e # f => ToSet(k.waiting[e]) \cap ToSet(k.waiting[f]) = {}
  /\ \A e \in EventLists : ToSet(k.waiting[e]) \cap ToSet(k.pending) = {}

(* A task that waits for an event, or whose event came while the scheduler *)
(* was suspended, has a time-out.                                          *)
Waiters(k) ==
  /\ \A e \in EventLists : ToSet(k.waiting[e]) \subseteq Blocked(k)
  /\ ToSet(k.pending) \subseteq Blocked(k)

Sound(k, live) == Typed(k) /\ Homed(k, live) /\ Events(k) /\ Waiters(k)

IdleReady(k) == k.priority[Idle] = 0 /\ Idle \in ToSet(k.ready[0])

(* The delayed lists are sorted, nothing in them is overdue, what wakes    *)
(* after the wrap is in the list of the next turn, and none was left       *)
(* behind when the count wrapped.                                          *)
InOrder(k) == Sorted(k.delayed, k.wake) /\ Sorted(k.overflowed, k.wake)
NotOverdue(k) == \A t \in ToSet(k.delayed) : k.tick < k.wake[t] /\ k.nextUnblock <= k.wake[t]
NextTurn(k) == \A t \in ToSet(k.overflowed) : k.wake[t] < k.tick
Timed(k) == InOrder(k) /\ NotOverdue(k) /\ NextTurn(k) /\ ~k.swapFailed

(* No ready task is more important than the one that runs.                 *)
Highest(k) == \A p \in Priorities : k.ready[p] # << >> => p <= k.priority[k.current]

(* These are what SchedulerSound of RtosQueue and its like are made of.    *)
LEMMA SoundLists ==
  ASSUME NEW k, NEW live \in SUBSET Task, Sound(k, live),
         k.pending # << >> => k.suspended > 0
  PROVE  ListsSound(k, live)
<1>1. /\ \A p \in Priorities : k.ready[p] \in TaskList
      /\ k.delayed \in TaskList /\ k.overflowed \in TaskList /\ k.pending \in TaskList
      /\ \A e \in EventLists : k.waiting[e] \in TaskList
      /\ \A t \in Task : k.priority[t] \in Priorities
  BY DEF Sound, Typed
<1>2. \A t : IsReady(k, t) <=> \E p \in Priorities : t \in ToSet(k.ready[p])
  BY <1>1, ListIs DEF IsReady
<1>3. \A t : WaitingFor(k, t) = {e \in EventLists : t \in ToSet(k.waiting[e])}
  BY <1>1, ListIs DEF WaitingFor
<1>4. \A t : Contains(k.pending, t) <=> t \in ToSet(k.pending)
  BY <1>1, ListIs
<1>5. \A t \in Task \ live : ~IsReady(k, t) /\ t \notin Blocked(k)
  BY <1>2 DEF Sound, Homed, Blocked
<1>6. ASSUME NEW t \in live
      PROVE  /\ IsReady(k, t) <=> t \notin Blocked(k)
             /\ IsReady(k, t) => Contains(k.ready[k.priority[t]], t) /\ k.priority[t] <= k.top
             /\ WaitingFor(k, t) # {} => t \in Blocked(k)
             /\ Contains(k.pending, t) => WaitingFor(k, t) = {} /\ k.suspended > 0
  <2>1. IsReady(k, t) <=> t \notin Blocked(k)
    BY <1>1, <1>2 DEF Sound, Homed
  <2>2. IsReady(k, t) => Contains(k.ready[k.priority[t]], t) /\ k.priority[t] <= k.top
    BY <1>1, <1>2, ListIs DEF Sound, Homed
  <2>3. WaitingFor(k, t) # {} => t \in Blocked(k)
    BY <1>3 DEF Sound, Waiters
  <2>4. Contains(k.pending, t) => WaitingFor(k, t) = {} /\ k.suspended > 0
    <3> SUFFICES ASSUME t \in ToSet(k.pending) PROVE WaitingFor(k, t) = {} /\ k.suspended > 0
      BY <1>4
    <3>1. k.pending # << >>
      BY <1>1, ListIs
    <3>2. \A e \in EventLists : t \notin ToSet(k.waiting[e])
      BY DEF Sound, Events
    <3> QED BY <1>3, <3>1, <3>2
  <2> QED BY <2>1, <2>2, <2>3, <2>4
<1>7. IsInjective(k.delayed \o k.overflowed)
  <2> DEFINE d == k.delayed
             o == k.overflowed
             all == d \o o
  <2>1. d \in TaskList /\ o \in TaskList
    BY <1>1
  <2>2. /\ \A i, j \in 1..Len(d) : d[i] = d[j] => i = j
        /\ \A i, j \in 1..Len(o) : o[i] = o[j] => i = j
        /\ \A i \in 1..Len(d) : d[i] \in ToSet(d)
        /\ \A i \in 1..Len(o) : o[i] \in ToSet(o)
        /\ Len(d) \in Nat /\ Len(o) \in Nat
    BY <2>1, ListIs DEF Sound, Homed
  <2>3. \A t \in ToSet(d) : t \notin ToSet(o)
    BY DEF Sound, Homed
  <2> HIDE DEF d, o
  <2>4. /\ all \in TaskList /\ Len(all) = Len(d) + Len(o)
        /\ \A i \in 1..Len(d) + Len(o) : all[i] = IF i <= Len(d) THEN d[i] ELSE o[i - Len(d)]
    BY <2>1, ConcatProperties DEF TaskList
  <2> HIDE DEF all
  <2>5. ASSUME NEW i \in 1..Len(all), NEW j \in 1..Len(all), all[i] = all[j]
        PROVE  i = j
    <3>1. CASE i <= Len(d) /\ j <= Len(d)
      BY <2>2, <2>4, <2>5, <3>1
    <3>2. CASE ~(i <= Len(d)) /\ ~(j <= Len(d))
      <4>1. /\ i - Len(d) \in 1..Len(o) /\ j - Len(d) \in 1..Len(o)
            /\ o[i - Len(d)] = o[j - Len(d)]
        BY <2>2, <2>4, <2>5, <3>2
      <4>2. i - Len(d) = j - Len(d)
        BY <2>2, <4>1
      <4> QED BY <2>2, <2>4, <4>2
    <3>3. CASE i <= Len(d) /\ ~(j <= Len(d))
      <4>1. i \in 1..Len(d) /\ j - Len(d) \in 1..Len(o) /\ d[i] = o[j - Len(d)]
        BY <2>2, <2>4, <2>5, <3>3
      <4> QED BY <2>2, <2>3, <4>1
    <3>4. CASE ~(i <= Len(d)) /\ j <= Len(d)
      <4>1. j \in 1..Len(d) /\ i - Len(d) \in 1..Len(o) /\ d[j] = o[i - Len(d)]
        BY <2>2, <2>4, <2>5, <3>4
      <4> QED BY <2>2, <2>3, <4>1
    <3> QED BY <3>1, <3>2, <3>3, <3>4
  <2>6. IsInjective(all)
    BY <2>4, <2>5, ListIs
  <2> QED BY <2>6 DEF all, d, o
<1> QED BY <1>5, <1>6, <1>7 DEF ListsSound, Sound, Homed

-----------------------------------------------------------------------------
(* Waking a task: it leaves the delayed and the event lists and goes to    *)
(* the end of its ready list.  A time-out, an event and the end of a       *)
(* suspension do the same to the lists.                                    *)
Wakes(k, r, t) ==
  /\ IsRecord(r)
  /\ r.ready = [p \in Priorities |-> IF p = k.priority[t] THEN Append(Unlink(k.ready[p], t), t)
                                     ELSE Unlink(k.ready[p], t)]
  /\ r.top = IF k.priority[t] > k.top THEN k.priority[t] ELSE k.top
  /\ r.wake = [k.wake EXCEPT ![t] = 0]
  /\ r.delayed = Unlink(k.delayed, t) /\ r.overflowed = Unlink(k.overflowed, t)
  /\ r.waiting = [e \in EventLists |-> Unlink(k.waiting[e], t)]
  /\ r.pending = Unlink(k.pending, t)
  /\ r.current = k.current /\ r.suspended = k.suspended
  /\ r.missedTicks = k.missedTicks /\ r.missedYield = k.missedYield
  /\ r.eventKey = k.eventKey /\ r.priority = k.priority
  /\ r.tick = k.tick /\ r.overflows = k.overflows
  /\ r.nextUnblock = k.nextUnblock /\ r.swapFailed = k.swapFailed

(* Serving the head of the delayed list wakes that task and no other.      *)
LEMMA ServeHeadWakes ==
  ASSUME NEW k, Typed(k), k.delayed # << >>
  PROVE  Wakes(k, ServeHead(k), Head(k.delayed))
<1> DEFINE t == Head(k.delayed)
           a == RemoveGenericItem(k, t)
           b == RemoveEventItem(a, t)
           r == AddTaskToReadyQueue(b, t)
<1>1. /\ k = [f \in Parts |-> k[f]] /\ k.priority \in [Task -> Priorities] /\ t \in Task
      /\ k.ready \in [Priorities -> TaskList]
  BY TailList DEF Typed, IsRecord
<1> HIDE DEF t
<1>2. /\ a = [f \in Parts |-> a[f]]
      /\ a.ready = [p \in Priorities |-> Unlink(k.ready[p], t)]
      /\ a.wake = [k.wake EXCEPT ![t] = 0]
      /\ a.delayed = Unlink(k.delayed, t) /\ a.overflowed = Unlink(k.overflowed, t)
      /\ a.top = k.top /\ a.current = k.current /\ a.suspended = k.suspended
      /\ a.pending = k.pending /\ a.missedTicks = k.missedTicks /\ a.missedYield = k.missedYield
      /\ a.waiting = k.waiting /\ a.eventKey = k.eventKey /\ a.priority = k.priority
      /\ a.tick = k.tick /\ a.overflows = k.overflows /\ a.nextUnblock = k.nextUnblock
      /\ a.swapFailed = k.swapFailed
  BY <1>1 DEF RemoveGenericItem, Parts
<1> HIDE DEF a
<1>3. /\ b = [f \in Parts |-> b[f]]
      /\ b.waiting = [e \in EventLists |-> Unlink(a.waiting[e], t)]
      /\ b.pending = Unlink(a.pending, t)
      /\ b.ready = a.ready /\ b.wake = a.wake
      /\ b.delayed = a.delayed /\ b.overflowed = a.overflowed
      /\ b.top = a.top /\ b.current = a.current /\ b.suspended = a.suspended
      /\ b.missedTicks = a.missedTicks /\ b.missedYield = a.missedYield
      /\ b.eventKey = a.eventKey /\ b.priority = a.priority
      /\ b.tick = a.tick /\ b.overflows = a.overflows /\ b.nextUnblock = a.nextUnblock
      /\ b.swapFailed = a.swapFailed
  BY <1>2 DEF RemoveEventItem, Parts
<1> HIDE DEF b
<1>4. /\ r = [f \in Parts |-> r[f]]
      /\ r.ready = [b.ready EXCEPT ![b.priority[t]] = Append(@, t)]
      /\ r.top = IF b.priority[t] > b.top THEN b.priority[t] ELSE b.top
      /\ r.waiting = b.waiting /\ r.pending = b.pending /\ r.wake = b.wake
      /\ r.delayed = b.delayed /\ r.overflowed = b.overflowed
      /\ r.current = b.current /\ r.suspended = b.suspended
      /\ r.missedTicks = b.missedTicks /\ r.missedYield = b.missedYield
      /\ r.eventKey = b.eventKey /\ r.priority = b.priority
      /\ r.tick = b.tick /\ r.overflows = b.overflows /\ r.nextUnblock = b.nextUnblock
      /\ r.swapFailed = b.swapFailed
  BY <1>3 DEF AddTaskToReadyQueue, Parts
<1>5. ServeHead(k) = r
  BY DEF ServeHead, a, b, t
<1> HIDE DEF r
<1>6. k.priority[t] \in Priorities
  BY <1>1
<1>7. r.ready = [p \in Priorities |->
                   IF p = k.priority[t] THEN Append(Unlink(k.ready[p], t), t)
                   ELSE Unlink(k.ready[p], t)]
  <2> DEFINE left == [p \in Priorities |-> Unlink(k.ready[p], t)]
  <2>1. r.ready = [left EXCEPT ![k.priority[t]] = Append(@, t)]
    <3>1. b.ready = left
      BY <1>2, <1>3
    <3>2. b.priority = k.priority
      BY <1>2, <1>3
    <3>3. r.ready = [b.ready EXCEPT ![b.priority[t]] = Append(@, t)]
      BY <1>4
    <3> HIDE DEF left
    <3> QED BY <3>1, <3>2, <3>3
  <2>2. [left EXCEPT ![k.priority[t]] = Append(@, t)]
          = [p \in Priorities |-> IF p = k.priority[t] THEN Append(left[p], t) ELSE left[p]]
    OBVIOUS
  <2>3. \A p \in Priorities : left[p] = Unlink(k.ready[p], t)
    OBVIOUS
  <2> HIDE DEF left
  <2> QED BY <2>1, <2>2, <2>3
<1>8. Wakes(k, r, t)
  BY <1>2, <1>3, <1>4, <1>7, Zenon DEF Wakes, IsRecord
<1> QED BY <1>5, <1>8 DEF t

(* Moving the head of the pending list wakes that task and no other.       *)
LEMMA MoveHeadWakes ==
  ASSUME NEW k, Typed(k), k.pending # << >>
  PROVE  Wakes(k, MoveHead(k), Head(k.pending))
<1> DEFINE t == Head(k.pending)
           a == RemoveEventItem(k, t)
           b == RemoveGenericItem(a, t)
           r == AddTaskToReadyQueue(b, t)
<1>1. /\ k = [f \in Parts |-> k[f]] /\ k.priority \in [Task -> Priorities] /\ t \in Task
      /\ k.ready \in [Priorities -> TaskList]
  BY TailList DEF Typed, IsRecord
<1> HIDE DEF t
<1>2. /\ a = [f \in Parts |-> a[f]]
      /\ a.waiting = [e \in EventLists |-> Unlink(k.waiting[e], t)]
      /\ a.pending = Unlink(k.pending, t)
      /\ a.ready = k.ready /\ a.wake = k.wake
      /\ a.delayed = k.delayed /\ a.overflowed = k.overflowed
      /\ a.top = k.top /\ a.current = k.current /\ a.suspended = k.suspended
      /\ a.missedTicks = k.missedTicks /\ a.missedYield = k.missedYield
      /\ a.eventKey = k.eventKey /\ a.priority = k.priority
      /\ a.tick = k.tick /\ a.overflows = k.overflows /\ a.nextUnblock = k.nextUnblock
      /\ a.swapFailed = k.swapFailed
  BY <1>1 DEF RemoveEventItem, Parts
<1> HIDE DEF a
<1>3. /\ b = [f \in Parts |-> b[f]]
      /\ b.ready = [p \in Priorities |-> Unlink(a.ready[p], t)]
      /\ b.wake = [a.wake EXCEPT ![t] = 0]
      /\ b.delayed = Unlink(a.delayed, t) /\ b.overflowed = Unlink(a.overflowed, t)
      /\ b.top = a.top /\ b.current = a.current /\ b.suspended = a.suspended
      /\ b.pending = a.pending /\ b.missedTicks = a.missedTicks /\ b.missedYield = a.missedYield
      /\ b.waiting = a.waiting /\ b.eventKey = a.eventKey /\ b.priority = a.priority
      /\ b.tick = a.tick /\ b.overflows = a.overflows /\ b.nextUnblock = a.nextUnblock
      /\ b.swapFailed = a.swapFailed
  BY <1>2 DEF RemoveGenericItem, Parts
<1> HIDE DEF b
<1>4. /\ r = [f \in Parts |-> r[f]]
      /\ r.ready = [b.ready EXCEPT ![b.priority[t]] = Append(@, t)]
      /\ r.top = IF b.priority[t] > b.top THEN b.priority[t] ELSE b.top
      /\ r.waiting = b.waiting /\ r.pending = b.pending /\ r.wake = b.wake
      /\ r.delayed = b.delayed /\ r.overflowed = b.overflowed
      /\ r.current = b.current /\ r.suspended = b.suspended
      /\ r.missedTicks = b.missedTicks /\ r.missedYield = b.missedYield
      /\ r.eventKey = b.eventKey /\ r.priority = b.priority
      /\ r.tick = b.tick /\ r.overflows = b.overflows /\ r.nextUnblock = b.nextUnblock
      /\ r.swapFailed = b.swapFailed
  BY <1>3 DEF AddTaskToReadyQueue, Parts
<1>5. MoveHead(k) = r
  BY DEF MoveHead, a, b, t
<1> HIDE DEF r
<1>6. k.priority[t] \in Priorities
  BY <1>1
<1>7. r.ready = [p \in Priorities |->
                   IF p = k.priority[t] THEN Append(Unlink(k.ready[p], t), t)
                   ELSE Unlink(k.ready[p], t)]
  <2> DEFINE left == [p \in Priorities |-> Unlink(k.ready[p], t)]
  <2>1. r.ready = [left EXCEPT ![k.priority[t]] = Append(@, t)]
    <3>1. b.ready = left
      BY <1>2, <1>3
    <3>2. b.priority = k.priority
      BY <1>2, <1>3
    <3>3. r.ready = [b.ready EXCEPT ![b.priority[t]] = Append(@, t)]
      BY <1>4
    <3> HIDE DEF left
    <3> QED BY <3>1, <3>2, <3>3
  <2>2. [left EXCEPT ![k.priority[t]] = Append(@, t)]
          = [p \in Priorities |-> IF p = k.priority[t] THEN Append(left[p], t) ELSE left[p]]
    OBVIOUS
  <2>3. \A p \in Priorities : left[p] = Unlink(k.ready[p], t)
    OBVIOUS
  <2> HIDE DEF left
  <2> QED BY <2>1, <2>2, <2>3
<1>8. Wakes(k, r, t)
  BY <1>2, <1>3, <1>4, <1>7, Zenon DEF Wakes, IsRecord
<1> QED BY <1>5, <1>8 DEF t

(* An event outside suspension wakes the first waiter and no other.        *)
LEMMA EventWakes ==
  ASSUME NEW k, Typed(k), Events(k), NEW e \in EventLists, k.waiting[e] # << >>,
         k.suspended = 0
  PROVE  Wakes(k, RemoveFromEventList(k, e), Head(k.waiting[e]))
<1> DEFINE t == Head(k.waiting[e])
           a == [k EXCEPT !.waiting[e] = Tail(@)]
           b == RemoveGenericItem(a, t)
           r == AddTaskToReadyQueue(b, t)
<1>1. /\ k = [f \in Parts |-> k[f]] /\ k.priority \in [Task -> Priorities]
      /\ k.ready \in [Priorities -> TaskList] /\ k.pending \in TaskList
      /\ k.waiting \in [EventLists -> TaskList]
  BY DEF Typed, IsRecord
<1>2. t \in Task /\ t \in ToSet(k.waiting[e])
  BY <1>1, TailList
<1>3. a.waiting = [f \in EventLists |-> Unlink(k.waiting[f], t)]
  <2>1. Unlink(k.waiting[e], t) = Tail(k.waiting[e])
    BY <1>1, UnlinkHead DEF Events
  <2>2. \A f \in EventLists : f # e => Unlink(k.waiting[f], t) = k.waiting[f]
    <3> SUFFICES ASSUME NEW f \in EventLists, f # e
                 PROVE  Unlink(k.waiting[f], t) = k.waiting[f]
      OBVIOUS
    <3>1. t \notin ToSet(k.waiting[f])
      BY <1>2 DEF Events
    <3>2. k.waiting[f] \in TaskList
      BY <1>1
    <3> QED BY <3>1, <3>2, UnlinkList
  <2>3. a.waiting = [k.waiting EXCEPT ![e] = Tail(k.waiting[e])]
    BY <1>1 DEF Parts
  <2> HIDE DEF a, t
  <2> QED BY <1>1, <2>1, <2>2, <2>3
<1>4. Unlink(k.pending, t) = k.pending
  <2>1. t \notin ToSet(k.pending)
    BY <1>2 DEF Events
  <2> QED BY <1>1, <2>1, UnlinkList
<1> HIDE DEF t
<1>5. /\ a = [f \in Parts |-> a[f]]
      /\ a.pending = k.pending /\ a.ready = k.ready /\ a.wake = k.wake
      /\ a.delayed = k.delayed /\ a.overflowed = k.overflowed
      /\ a.top = k.top /\ a.current = k.current /\ a.suspended = k.suspended
      /\ a.missedTicks = k.missedTicks /\ a.missedYield = k.missedYield
      /\ a.eventKey = k.eventKey /\ a.priority = k.priority
      /\ a.tick = k.tick /\ a.overflows = k.overflows /\ a.nextUnblock = k.nextUnblock
      /\ a.swapFailed = k.swapFailed
  BY <1>1 DEF Parts
<1> HIDE DEF a
<1>6. /\ b = [f \in Parts |-> b[f]]
      /\ b.ready = [p \in Priorities |-> Unlink(a.ready[p], t)]
      /\ b.wake = [a.wake EXCEPT ![t] = 0]
      /\ b.delayed = Unlink(a.delayed, t) /\ b.overflowed = Unlink(a.overflowed, t)
      /\ b.top = a.top /\ b.current = a.current /\ b.suspended = a.suspended
      /\ b.pending = a.pending /\ b.missedTicks = a.missedTicks /\ b.missedYield = a.missedYield
      /\ b.waiting = a.waiting /\ b.eventKey = a.eventKey /\ b.priority = a.priority
      /\ b.tick = a.tick /\ b.overflows = a.overflows /\ b.nextUnblock = a.nextUnblock
      /\ b.swapFailed = a.swapFailed
  BY <1>5 DEF RemoveGenericItem, Parts
<1> HIDE DEF b
<1>7. /\ r = [f \in Parts |-> r[f]]
      /\ r.ready = [b.ready EXCEPT ![b.priority[t]] = Append(@, t)]
      /\ r.top = IF b.priority[t] > b.top THEN b.priority[t] ELSE b.top
      /\ r.waiting = b.waiting /\ r.pending = b.pending /\ r.wake = b.wake
      /\ r.delayed = b.delayed /\ r.overflowed = b.overflowed
      /\ r.current = b.current /\ r.suspended = b.suspended
      /\ r.missedTicks = b.missedTicks /\ r.missedYield = b.missedYield
      /\ r.eventKey = b.eventKey /\ r.priority = b.priority
      /\ r.tick = b.tick /\ r.overflows = b.overflows /\ r.nextUnblock = b.nextUnblock
      /\ r.swapFailed = b.swapFailed
  BY <1>6 DEF AddTaskToReadyQueue, Parts
<1>8. RemoveFromEventList(k, e) = r
  BY DEF RemoveFromEventList, a, b, t
<1> HIDE DEF r
<1>9. r.ready = [p \in Priorities |->
                   IF p = k.priority[t] THEN Append(Unlink(k.ready[p], t), t)
                   ELSE Unlink(k.ready[p], t)]
  <2> DEFINE left == [p \in Priorities |-> Unlink(k.ready[p], t)]
  <2>1. r.ready = [left EXCEPT ![k.priority[t]] = Append(@, t)]
    <3>1. b.ready = left
      BY <1>5, <1>6
    <3>2. b.priority = k.priority
      BY <1>5, <1>6
    <3>3. r.ready = [b.ready EXCEPT ![b.priority[t]] = Append(@, t)]
      BY <1>7
    <3> HIDE DEF left
    <3> QED BY <3>1, <3>2, <3>3
  <2>2. [left EXCEPT ![k.priority[t]] = Append(@, t)]
          = [p \in Priorities |-> IF p = k.priority[t] THEN Append(left[p], t) ELSE left[p]]
    OBVIOUS
  <2>3. \A p \in Priorities : left[p] = Unlink(k.ready[p], t)
    OBVIOUS
  <2> HIDE DEF left
  <2> QED BY <2>1, <2>2, <2>3
<1>10. Wakes(k, r, t)
  <2>1. IsRecord(r)
    BY <1>7, Zenon DEF IsRecord
  <2>2. /\ r.top = IF k.priority[t] > k.top THEN k.priority[t] ELSE k.top
        /\ r.wake = [k.wake EXCEPT ![t] = 0]
        /\ r.delayed = Unlink(k.delayed, t) /\ r.overflowed = Unlink(k.overflowed, t)
    BY <1>5, <1>6, <1>7
  <2>4. r.waiting = [f \in EventLists |-> Unlink(k.waiting[f], t)]
    <3>1. r.waiting = a.waiting
      BY <1>6, <1>7
    <3> QED BY <1>3, <3>1
  <2>5. r.pending = Unlink(k.pending, t)
    BY <1>4, <1>5, <1>6, <1>7
  <2>3. /\ r.current = k.current /\ r.suspended = k.suspended
        /\ r.missedTicks = k.missedTicks /\ r.missedYield = k.missedYield
        /\ r.eventKey = k.eventKey /\ r.priority = k.priority
        /\ r.tick = k.tick /\ r.overflows = k.overflows
        /\ r.nextUnblock = k.nextUnblock /\ r.swapFailed = k.swapFailed
    BY <1>5, <1>6, <1>7, Zenon
  <2> QED BY <1>9, <2>1, <2>2, <2>3, <2>4, <2>5, Zenon DEF Wakes
<1> QED BY <1>8, <1>10 DEF t

(* What waking the tasks of D does to a scheduler, list by list.           *)
Woken(k, r, D) ==
  /\ \A p \in Priorities : ToSet(r.ready[p]) = ToSet(k.ready[p]) \cup {t \in D : k.priority[t] = p}
  /\ Blocked(r) = Blocked(k) \ D
  /\ \A e \in EventLists : ToSet(r.waiting[e]) = ToSet(k.waiting[e]) \ D
  /\ ToSet(r.pending) = ToSet(k.pending) \ D
  /\ \A t \in Blocked(r) : r.wake[t] = k.wake[t]
  /\ r.priority = k.priority /\ r.eventKey = k.eventKey

(* Waking some tasks and then others is waking them all.                   *)
LEMMA WokenTwice ==
  ASSUME NEW k, NEW s, NEW r, NEW D, NEW E, Woken(k, s, D), Woken(s, r, E)
  PROVE  Woken(k, r, D \cup E)
<1>1. s.priority = k.priority /\ s.eventKey = k.eventKey
  BY DEF Woken
<1>2. ASSUME NEW p \in Priorities
      PROVE  ToSet(r.ready[p]) = ToSet(k.ready[p]) \cup {t \in D \cup E : k.priority[t] = p}
  <2>1. ToSet(r.ready[p]) = ToSet(s.ready[p]) \cup {t \in E : k.priority[t] = p}
    BY <1>1 DEF Woken
  <2>2. ToSet(s.ready[p]) = ToSet(k.ready[p]) \cup {t \in D : k.priority[t] = p}
    BY DEF Woken
  <2> QED BY <2>1, <2>2
<1>3. Blocked(s) = Blocked(k) \ D /\ Blocked(r) = Blocked(s) \ E
  BY DEF Woken
<1>4. ASSUME NEW e \in EventLists PROVE ToSet(r.waiting[e]) = ToSet(k.waiting[e]) \ (D \cup E)
  <2>1. ToSet(r.waiting[e]) = ToSet(s.waiting[e]) \ E
    BY DEF Woken
  <2>2. ToSet(s.waiting[e]) = ToSet(k.waiting[e]) \ D
    BY DEF Woken
  <2> QED BY <2>1, <2>2
<1>5. ToSet(s.pending) = ToSet(k.pending) \ D /\ ToSet(r.pending) = ToSet(s.pending) \ E
  BY DEF Woken
<1>6. \A t \in Blocked(r) : r.wake[t] = k.wake[t]
  BY <1>3 DEF Woken
<1>7. r.priority = s.priority /\ r.eventKey = s.eventKey
  BY DEF Woken
<1>8. Blocked(r) = Blocked(k) \ (D \cup E) /\ ToSet(r.pending) = ToSet(k.pending) \ (D \cup E)
  BY <1>3, <1>5
<1> QED BY <1>1, <1>2, <1>4, <1>6, <1>7, <1>8 DEF Woken

(* Waking a task that is blocked keeps the scheduler sound.                *)
LEMMA WakesSound ==
  ASSUME TaskAssumption, TickAssumption,
         NEW k, NEW live \in SUBSET Task, Sound(k, live), NEW t \in Blocked(k),
         NEW r, Wakes(k, r, t)
  PROVE  /\ Sound(r, live) /\ Woken(k, r, {t})
         /\ InOrder(k) => InOrder(r)
         /\ ToSet(r.delayed) = ToSet(k.delayed) \ {t}
         /\ ToSet(r.overflowed) = ToSet(k.overflowed) \ {t}
<1>1. /\ \A p \in Priorities : k.ready[p] \in TaskList
      /\ k.delayed \in TaskList /\ k.overflowed \in TaskList /\ k.pending \in TaskList
      /\ \A e \in EventLists : k.waiting[e] \in TaskList
      /\ k.priority \in [Task -> Priorities] /\ k.top \in Priorities
      /\ k.wake \in [Task -> 0..MaxDelay]
  BY DEF Sound, Typed
<1>2. t \in Task /\ t \in live
  BY <1>1, ListIs DEF Sound, Homed, Blocked
<1>3. \A p \in Priorities : t \notin ToSet(k.ready[p]) /\ Unlink(k.ready[p], t) = k.ready[p]
  <2> SUFFICES ASSUME NEW p \in Priorities
               PROVE  t \notin ToSet(k.ready[p]) /\ Unlink(k.ready[p], t) = k.ready[p]
    OBVIOUS
  <2>1. t \notin ToSet(k.ready[p])
    BY DEF Sound, Homed
  <2> QED BY <1>1, <2>1, UnlinkList
<1>4. k.priority[t] \in Priorities /\ 0 \in 0..MaxDelay /\ Priorities \subseteq Int
  BY <1>1, <1>2 DEF TickAssumption, MaxDelay, Priorities
<1>5. ASSUME NEW p \in Priorities
      PROVE  /\ r.ready[p] \in TaskList /\ IsInjective(r.ready[p])
             /\ ToSet(r.ready[p]) = ToSet(k.ready[p]) \cup {u \in {t} : k.priority[u] = p}
  <2>1. r.ready[p] = IF p = k.priority[t] THEN Append(k.ready[p], t) ELSE k.ready[p]
    BY <1>3 DEF Wakes
  <2>2. IsInjective(k.ready[p])
    BY DEF Sound, Homed
  <2>3. CASE p = k.priority[t]
    <3>1. r.ready[p] = Append(k.ready[p], t) /\ {u \in {t} : k.priority[u] = p} = {t}
      BY <2>1, <2>3
    <3>2. /\ r.ready[p] \in TaskList /\ ToSet(r.ready[p]) = ToSet(k.ready[p]) \cup {t}
          /\ IsInjective(r.ready[p])
      BY <1>1, <1>2, <1>3, <2>2, <3>1, AppendList
    <3> QED BY <3>1, <3>2
  <2>4. CASE p # k.priority[t]
    <3>1. {u \in {t} : k.priority[u] = p} = {}
      BY <2>4
    <3> QED BY <1>1, <2>1, <2>2, <2>4, <3>1
  <2> QED BY <2>3, <2>4
<1>6. /\ r.delayed \in TaskList /\ IsInjective(r.delayed)
      /\ ToSet(r.delayed) = ToSet(k.delayed) \ {t}
      /\ r.overflowed \in TaskList /\ IsInjective(r.overflowed)
      /\ ToSet(r.overflowed) = ToSet(k.overflowed) \ {t}
      /\ r.pending \in TaskList /\ IsInjective(r.pending)
      /\ ToSet(r.pending) = ToSet(k.pending) \ {t}
  <2>1. /\ r.delayed = Unlink(k.delayed, t) /\ r.overflowed = Unlink(k.overflowed, t)
        /\ r.pending = Unlink(k.pending, t)
    BY DEF Wakes
  <2>2. IsInjective(k.delayed) /\ IsInjective(k.overflowed) /\ IsInjective(k.pending)
    BY DEF Sound, Homed, Events
  <2> QED BY <1>1, <2>1, <2>2, UnlinkList
<1>7. ASSUME NEW e \in EventLists
      PROVE  /\ r.waiting[e] \in TaskList /\ IsInjective(r.waiting[e])
             /\ ToSet(r.waiting[e]) = ToSet(k.waiting[e]) \ {t}
  <2>1. r.waiting[e] = Unlink(k.waiting[e], t) /\ IsInjective(k.waiting[e])
    BY DEF Wakes, Sound, Events
  <2> QED BY <1>1, <2>1, UnlinkList
<1>8. Blocked(r) = Blocked(k) \ {t}
  BY <1>6 DEF Blocked
<1>9. /\ r.current = k.current /\ r.suspended = k.suspended /\ r.priority = k.priority
      /\ r.eventKey = k.eventKey /\ r.wake = [k.wake EXCEPT ![t] = 0]
      /\ r.top = IF k.priority[t] > k.top THEN k.priority[t] ELSE k.top
  <2>1. /\ r.current = k.current /\ r.suspended = k.suspended /\ r.priority = k.priority
        /\ r.eventKey = k.eventKey
    BY DEF Wakes
  <2>2. r.wake = [k.wake EXCEPT ![t] = 0]
    BY DEF Wakes
  <2>3. r.top = IF k.priority[t] > k.top THEN k.priority[t] ELSE k.top
    BY DEF Wakes
  <2> QED BY <2>1, <2>2, <2>3
<1>16. \A u \in Blocked(r) : r.wake[u] = k.wake[u]
  <2>1. \A u \in Blocked(r) : u \in Task /\ u # t
    BY <1>6, <1>8, ListIs DEF Blocked
  <2> QED BY <1>1, <1>9, <2>1
<1>10. Woken(k, r, {t})
  BY <1>5, <1>6, <1>7, <1>8, <1>9, <1>16 DEF Woken
<1>11. Typed(r)
  <2>1. r.ready \in [Priorities -> TaskList]
    <3>1. DOMAIN r.ready = Priorities /\ r.ready = [p \in Priorities |-> r.ready[p]]
      BY DEF Wakes
    <3> QED BY <1>5, <3>1
  <2>2. r.waiting \in [EventLists -> TaskList]
    <3>1. r.waiting = [e \in EventLists |-> r.waiting[e]]
      BY DEF Wakes
    <3> QED BY <1>7, <3>1
  <2>3. r.wake \in [Task -> 0..MaxDelay]
    BY <1>1, <1>4, <1>9
  <2>4. r.top \in Priorities
    BY <1>1, <1>4, <1>9
  <2>5. /\ IsRecord(r)
        /\ r.missedTicks = k.missedTicks /\ r.missedYield = k.missedYield
        /\ r.tick = k.tick /\ r.overflows = k.overflows
        /\ r.nextUnblock = k.nextUnblock /\ r.swapFailed = k.swapFailed
    BY DEF Wakes
  <2>6. /\ k.current \in Task /\ k.suspended \in Nat /\ k.missedTicks \in Nat
        /\ k.missedYield \in BOOLEAN /\ k.eventKey \in [Task -> Int]
        /\ k.tick \in 0..MaxDelay /\ k.overflows \in 0..OverflowRange - 1
        /\ k.nextUnblock \in 0..MaxDelay /\ k.swapFailed \in BOOLEAN
    BY DEF Sound, Typed
  <2> QED BY <1>1, <1>6, <1>9, <2>1, <2>2, <2>3, <2>4, <2>5, <2>6, Zenon DEF Typed
<1>12. Homed(r, live)
  <2>1. \A p \in Priorities : \A u \in ToSet(r.ready[p]) :
          u \in live /\ u \notin Blocked(r) /\ r.priority[u] = p /\ p <= r.top
    <3> SUFFICES ASSUME NEW p \in Priorities, NEW u \in ToSet(r.ready[p])
                 PROVE  u \in live /\ u \notin Blocked(r) /\ r.priority[u] = p /\ p <= r.top
      OBVIOUS
    <3>1. p \in Int /\ k.top \in Int /\ k.priority[t] \in Int
      BY <1>1, <1>4
    <3>2. CASE u \in ToSet(k.ready[p])
      <4>1. u \in live /\ u \notin Blocked(k) /\ k.priority[u] = p /\ p <= k.top
        BY <3>2 DEF Sound, Homed
      <4> QED BY <1>8, <1>9, <3>1, <4>1
    <3>3. CASE u = t /\ k.priority[t] = p
      BY <1>2, <1>8, <1>9, <3>1, <3>3
    <3> QED BY <1>5, <3>2, <3>3
  <2>2. \A u \in live : u \in Blocked(r) \/ u \in ToSet(r.ready[r.priority[u]])
    <3> SUFFICES ASSUME NEW u \in live, u \notin Blocked(r)
                 PROVE  u \in ToSet(r.ready[k.priority[u]])
      BY <1>9
    <3>1. k.priority[u] \in Priorities
      BY <1>1
    <3>2. CASE u = t
      BY <1>5, <3>1, <3>2
    <3>3. CASE u # t
      <4>1. u \in ToSet(k.ready[k.priority[u]])
        BY <1>8, <3>3 DEF Sound, Homed
      <4> QED BY <1>5, <3>1, <4>1
    <3> QED BY <3>2, <3>3
  <2>3. \A u \in ToSet(r.delayed) : u \in live /\ u \notin ToSet(r.overflowed)
    BY <1>6 DEF Sound, Homed
  <2>4. \A u \in ToSet(r.overflowed) : u \in live
    BY <1>6 DEF Sound, Homed
  <2> QED BY <1>5, <1>6, <2>1, <2>2, <2>3, <2>4 DEF Homed
<1>13. Events(r)
  <2>1. Events(k)
    BY DEF Sound
  <2>2. ByRank(r)
    <3>1. /\ r.eventKey = k.eventKey /\ r.priority = k.priority
          /\ \A u \in Task : k.eventKey[u] = MaxPriorities - k.priority[u]
          /\ \A e \in EventLists : Sorted(k.waiting[e], k.eventKey)
      BY <2>1 DEF Wakes, Events, ByRank
    <3>2. \A e \in EventLists : r.waiting[e] = Unlink(k.waiting[e], t)
      BY DEF Wakes
    <3> QED BY <1>1, <3>1, <3>2, UnlinkList DEF ByRank
  <2> QED BY <1>6, <1>7, <2>1, <2>2 DEF Events
<1>14. Waiters(r)
  BY <1>6, <1>7, <1>8 DEF Sound, Waiters
<1>15. ASSUME InOrder(k) PROVE InOrder(r)
  <2>1. Sorted(r.delayed, k.wake) /\ Sorted(r.overflowed, k.wake)
    BY <1>1, <1>15, UnlinkList DEF Wakes, InOrder
  <2>2. /\ \A i \in 1..Len(r.delayed) : r.delayed[i] \in ToSet(r.delayed)
        /\ \A i \in 1..Len(r.overflowed) : r.overflowed[i] \in ToSet(r.overflowed)
    BY <1>6, ListIs
  <2>3. \A u \in ToSet(r.delayed) \cup ToSet(r.overflowed) : r.wake[u] = k.wake[u]
    <3>1. \A u \in ToSet(r.delayed) \cup ToSet(r.overflowed) : u # t /\ u \in Task
      BY <1>1, <1>6, ListIs
    <3> QED BY <1>1, <1>9, <3>1
  <2> QED BY <2>1, <2>2, <2>3 DEF InOrder, Sorted
<1> QED BY <1>6, <1>10, <1>11, <1>12, <1>13, <1>14, <1>15 DEF Sound


(* An induction over the passes of a loop.                                 *)
LEMMA Climbs ==
  ASSUME NEW n \in Nat, NEW h, NEW S, h[0] \in S[0],
         \A i \in 1..n : h[i - 1] \in S[i - 1] => h[i] \in S[i]
  PROVE  h[n] \in S[n]
<1> DEFINE T == {m \in Nat : m <= n => h[m] \in S[m]}
<1>1. 0 \in T
  OBVIOUS
<1>2. ASSUME NEW m \in T PROVE m + 1 \in T
  <2> SUFFICES ASSUME m + 1 <= n PROVE h[m + 1] \in S[m + 1]
    OBVIOUS
  <2>1. m + 1 \in 1..n /\ (m + 1) - 1 = m /\ h[m] \in S[m]
    OBVIOUS
  <2> QED BY <2>1
<1>3. T = Nat
  BY <1>1, <1>2, NatSet
<1> QED BY <1>3

(* The states of the scheduler are in a set.                               *)
Values ==
  UNION {[Priorities -> TaskList], Priorities, Task, Nat, TaskList, BOOLEAN,
         [Task -> 0..MaxDelay], [EventLists -> TaskList], [Task -> Int], [Task -> Priorities],
         0..MaxDelay, 0..OverflowRange - 1}
States == [Parts -> Values]

(* A typed scheduler is in the set of states that the loops are defined    *)
(* on.                                                                     *)
LEMMA TypedState ==
  ASSUME NEW k, Typed(k)
  PROVE  k \in States
<1>1. \A f \in Parts : k[f] \in Values
  <2>1. /\ k["ready"] \in Values /\ k["top"] \in Values /\ k["current"] \in Values
        /\ k["suspended"] \in Values /\ k["pending"] \in Values
        /\ k["missedTicks"] \in Values /\ k["missedYield"] \in Values
    BY Zenon DEF Typed, Values
  <2>2. /\ k["delayed"] \in Values /\ k["overflowed"] \in Values /\ k["wake"] \in Values
        /\ k["waiting"] \in Values /\ k["eventKey"] \in Values
    BY Zenon DEF Typed, Values
  <2>3. /\ k["priority"] \in Values /\ k["tick"] \in Values
        /\ k["overflows"] \in Values /\ k["nextUnblock"] \in Values
        /\ k["swapFailed"] \in Values
    BY Zenon DEF Typed, Values
  <2> QED BY <2>1, <2>2, <2>3 DEF Parts
<1>2. k = [f \in Parts |-> k[f]]
  BY Zenon DEF Typed, IsRecord
<1> HIDE DEF Values
<1> QED BY <1>1, <1>2, Zenon DEF States


-----------------------------------------------------------------------------
(* The clock and the running task, which waking leaves alone.              *)
Still(k, r) ==
  /\ r.current = k.current /\ r.suspended = k.suspended
  /\ r.missedTicks = k.missedTicks /\ r.missedYield = k.missedYield
  /\ r.tick = k.tick /\ r.overflows = k.overflows /\ r.swapFailed = k.swapFailed

(* The loop of prvCheckDelayedTasks stops at the first task of the delayed *)
(* list that is not due.                                                   *)
LEMMA DueCountIs ==
  ASSUME TickAssumption, NEW k, Typed(k), Sorted(k.delayed, k.wake)
  PROVE  /\ DueCount(k) \in 0..Len(k.delayed)
         /\ \A i \in 1..DueCount(k) : k.wake[k.delayed[i]] <= k.tick
         /\ \A i \in DueCount(k) + 1..Len(k.delayed) : k.tick < k.wake[k.delayed[i]]
<1> DEFINE d == k.delayed
           len == Len(d)
           w == k.wake
           Fits(n) == /\ \A i \in 1..n : w[d[i]] <= k.tick
                      /\ n < len => k.tick < w[d[n + 1]]
           T == {n \in 0..len : n < len => k.tick < w[d[n + 1]]}
<1>1. d \in TaskList /\ w \in [Task -> 0..MaxDelay] /\ k.tick \in 0..MaxDelay
  BY DEF Typed
<1>2. len \in Nat /\ \A i \in 1..len : w[d[i]] \in 0..MaxDelay
  BY <1>1, ListIs
<1>3. \A i, j \in 1..len : i < j => w[d[i]] <= w[d[j]]
  BY DEF Sorted
<1>4. MaxDelay \in Nat
  BY DEF TickAssumption, MaxDelay
<1>5. DueCount(k) = CHOOSE n \in 0..len : Fits(n)
  BY DEF DueCount
<1> HIDE DEF d, len, w
<1>6. \E n \in 0..len : Fits(n)
  <2>1. T \in SUBSET Nat /\ len \in T
    BY <1>2
  <2>2. PICK n \in T : \A m \in T : n <= m
    BY <2>1, LeastOf
  <2>3. ASSUME NEW i \in 1..n PROVE w[d[i]] <= k.tick
    <3>1. i - 1 \in 0..len /\ i \in 1..len /\ (i - 1) + 1 = i /\ i - 1 < n
      BY <1>2
    <3>2. i - 1 \notin T
      BY <1>2, <2>2, <3>1
    <3>3. ~(k.tick < w[d[i]])
      BY <3>1, <3>2
    <3> QED BY <1>1, <1>2, <1>4, <3>1, <3>3
  <2> QED BY <1>2, <2>3
<1> DEFINE c == DueCount(k)
<1>7. c \in 0..len /\ Fits(c)
  BY <1>5, <1>6
<1> HIDE DEF c
<1>8. ASSUME NEW i \in c + 1..len PROVE k.tick < w[d[i]]
  <2>1. c + 1 \in 1..len /\ i \in 1..len /\ k.tick < w[d[c + 1]]
    BY <1>2, <1>7
  <2>2. i = c + 1 \/ w[d[c + 1]] <= w[d[i]]
    BY <1>2, <1>3, <1>7, <2>1
  <2> QED BY <1>1, <1>2, <1>4, <2>1, <2>2
<1> QED BY <1>7, <1>8 DEF c, d, len, w

(* Serving the first n tasks of the delayed list.                          *)
Served(k, n) == Times(n, ServeHead, k)
Serves(k, r, n, live) ==
  /\ Sound(r, live) /\ InOrder(r) /\ Still(k, r)
  /\ Woken(k, r, {k.delayed[j] : j \in 1..n}) /\ r.nextUnblock = k.nextUnblock
  /\ Len(r.delayed) = Len(k.delayed) - n
  /\ \A j \in 1..Len(k.delayed) - n : r.delayed[j] = k.delayed[n + j]
  /\ ToSet(r.overflowed) \subseteq ToSet(k.overflowed)

(* prvCheckDelayedTasks, its loop: as many heads as are due are woken.     *)
LEMMA ServeHeads ==
  ASSUME TaskAssumption, TickAssumption,
         NEW k, NEW live \in SUBSET Task, Sound(k, live), InOrder(k),
         NEW n \in 0..Len(k.delayed)
  PROVE  Serves(k, Served(k, n), n, live)
<1> DEFINE d == k.delayed
           Done(i) == {d[j] : j \in 1..i}
           Good(s, i) == /\ Sound(s, live) /\ InOrder(s) /\ Still(k, s)
                         /\ Woken(k, s, Done(i)) /\ s.nextUnblock = k.nextUnblock
                         /\ Len(s.delayed) = Len(d) - i
                         /\ \A j \in 1..Len(d) - i : s.delayed[j] = d[i + j]
                         /\ ToSet(s.overflowed) \subseteq ToSet(k.overflowed)
           S == [i \in 0..n |-> {s \in States : Good(s, i)}]
           f == [s \in States |-> ServeHead(s)]
           Loop(h) == h = [i \in 0..n |-> IF i = 0 THEN k ELSE ServeHead(h[i - 1])]
           after == CHOOSE h : Loop(h)
<1>1. d \in TaskList /\ Len(d) \in Nat
  BY ListIs DEF Sound, Typed
<1>2. k \in S[0]
  <2>1. k \in States
    BY TypedState DEF Sound
  <2>2. Woken(k, k, {})
    BY DEF Woken
  <2>3. Done(0) = {}
    OBVIOUS
  <2>4. Still(k, k)
    BY DEF Still
  <2>5. Len(d) = Len(d) - 0 /\ \A j \in 1..Len(d) - 0 : d[j] = d[0 + j]
    BY <1>1
  <2> HIDE DEF Done
  <2>6. Good(k, 0)
    BY <2>2, <2>3, <2>4, <2>5
  <2> HIDE DEF Good
  <2> QED BY <2>1, <2>6
<1>3. ASSUME NEW i \in 1..n, NEW s \in S[i - 1] PROVE ServeHead(s) \in S[i]
  <2> DEFINE t == Head(s.delayed)
             r == ServeHead(s)
  <2>1. i - 1 \in 0..n /\ i \in 0..n /\ i - 1 \in Nat
    BY <1>1
  <2>2. Good(s, i - 1)
    BY <2>1
  <2>3. Typed(s) /\ s.delayed \in TaskList /\ IsInjective(s.delayed)
    BY <2>2 DEF Sound, Typed, Homed
  <2>4. Len(s.delayed) = Len(d) - (i - 1) /\ s.delayed # << >>
    <3>1. Len(s.delayed) = Len(d) - (i - 1) /\ Len(s.delayed) # 0
      BY <1>1, <2>2
    <3> QED BY <2>3, <3>1, ListIs
  <2>5. t = d[i] /\ t \in Blocked(s)
    <3>1. t = s.delayed[1] /\ t \in ToSet(s.delayed)
      BY <2>3, <2>4, TailList
    <3>2. s.delayed[1] = d[(i - 1) + 1]
      BY <1>1, <2>2
    <3>3. (i - 1) + 1 = i
      OBVIOUS
    <3> QED BY <3>1, <3>2, <3>3 DEF Blocked
  <2>6. Wakes(s, r, t)
    BY <2>3, <2>4, ServeHeadWakes
  <2> HIDE DEF t, r, S, f, Loop, after
  <2>7. /\ Sound(r, live) /\ InOrder(r) /\ Woken(s, r, {t})
        /\ ToSet(r.overflowed) = ToSet(s.overflowed) \ {t}
    <3>1. Sound(s, live) /\ InOrder(s)
      BY <2>2
    <3> HIDE DEF Good, Done
    <3> QED BY <2>5, <2>6, <3>1, WakesSound
  <2>8. Woken(k, r, Done(i))
    <3>1. Done(i) = Done(i - 1) \cup {t}
      <4>1. \A x : (\E j \in 1..i : x = d[j]) <=> (\E j \in 1..i - 1 : x = d[j]) \/ x = d[i]
        BY <2>1
      <4> QED BY <2>5, <4>1
    <3>2. Woken(k, s, Done(i - 1))
      BY <2>2
    <3> HIDE DEF Done
    <3> QED BY <2>7, <3>1, <3>2, WokenTwice
  <2>9. Still(s, r) /\ r.nextUnblock = s.nextUnblock /\ r.delayed = Unlink(s.delayed, t)
    BY <2>6 DEF Wakes, Still
  <2>10. Still(k, r) /\ r.nextUnblock = k.nextUnblock
    BY <2>2, <2>9 DEF Still
  <2>11. r.delayed = Tail(s.delayed)
    BY <2>3, <2>4, <2>9, UnlinkHead DEF t
  <2>12. Len(r.delayed) = Len(d) - i /\ \A j \in 1..Len(d) - i : r.delayed[j] = d[i + j]
    <3>1. /\ Len(r.delayed) = Len(s.delayed) - 1
          /\ \A j \in 1..Len(s.delayed) - 1 : r.delayed[j] = s.delayed[j + 1]
      BY <2>3, <2>4, <2>11, TailList
    <3>2. \A j \in 1..Len(d) - (i - 1) : s.delayed[j] = d[(i - 1) + j]
      BY <2>2
    <3>3. ASSUME NEW j \in 1..Len(d) - i PROVE r.delayed[j] = d[i + j]
      <4>1. /\ j + 1 \in 1..Len(d) - (i - 1) /\ (i - 1) + (j + 1) = i + j
            /\ j \in 1..Len(s.delayed) - 1
        BY <1>1, <2>4
      <4> QED BY <3>1, <3>2, <4>1
    <3> QED BY <1>1, <2>4, <3>1, <3>3
  <2>13. r \in States
    BY <2>7, TypedState DEF Sound
  <2>15. ToSet(r.overflowed) \subseteq ToSet(k.overflowed)
    BY <2>2, <2>7
  <2>14. Good(r, i)
    BY <2>7, <2>8, <2>10, <2>12, <2>15
  <2> HIDE DEF Good
  <2> QED BY <2>1, <2>13, <2>14 DEF S, r
<1>4. n \in Nat /\ S \in [0..n -> SUBSET States]
  BY <1>1
<1> HIDE DEF Good, S
<1>5. \A i \in 1..n : \A s \in S[i - 1] : f[s] \in S[i]
  BY <1>3, <1>4
<1>6. PICK g \in [0..n -> States] : Chained(g, f, n, S, k)
  <2> HIDE DEF f, Loop, after
  <2>1. Leads(f, n, S)
    BY <1>5 DEF Leads
  <2> QED BY <1>2, <1>4, <2>1, Passes, Zenon
<1>7. Loop(g)
  <2>1. \A i \in 1..n : g[i] = ServeHead(g[i - 1])
    <3> SUFFICES ASSUME NEW i \in 1..n PROVE g[i] = ServeHead(g[i - 1])
      OBVIOUS
    <3>1. g[i] = f[g[i - 1]] /\ i - 1 \in 0..n
      BY <1>4, <1>6 DEF Chained
    <3>2. g[i - 1] \in States
      BY <3>1
    <3> HIDE DEF Loop, after
    <3> QED BY <3>1, <3>2, Zenon
  <2> HIDE DEF f
  <2> QED BY <1>4, <1>6, <2>1 DEF Chained
<1>8. Loop(after)
  <2> HIDE DEF Loop
  <2> QED BY <1>7, Zenon
<1>9. Served(k, n) = after[n]
  BY DEF Served, Times
<1> HIDE DEF after
<1>10. after[0] = k /\ \A i \in 1..n : after[i] = ServeHead(after[i - 1])
  <2>1. \A i \in 0..n : after[i] = IF i = 0 THEN k ELSE ServeHead(after[i - 1])
    BY <1>8, Zenon
  <2> QED BY <1>4, <2>1
<1> HIDE DEF Loop, f
<1>11. after[n] \in S[n]
  <2>1. \A i \in 1..n : after[i - 1] \in S[i - 1] => after[i] \in S[i]
    BY <1>3, <1>10
  <2> QED BY <1>2, <1>4, <1>10, <2>1, Climbs
<1>12. Good(after[n], n)
  BY <1>4, <1>11 DEF S
<1> QED BY <1>9, <1>12 DEF Good, Serves


(* prvCheckDelayedTasks wakes the tasks that are due, and no other.        *)
DueTasks(k) == {t \in ToSet(k.delayed) : k.wake[t] <= k.tick}
ServesDue(k, r, live) ==
  /\ Sound(r, live) /\ InOrder(r) /\ NotOverdue(r) /\ Still(k, r) /\ Woken(k, r, DueTasks(k))
  /\ ToSet(r.overflowed) \subseteq ToSet(k.overflowed)

(* prvCheckDelayedTasks: afterwards no task of the list is due.            *)
LEMMA CheckDelayedTasksSound ==
  ASSUME TaskAssumption, TickAssumption,
         NEW k, NEW live \in SUBSET Task, Sound(k, live), InOrder(k),
         \A t \in ToSet(k.delayed) : k.nextUnblock <= k.wake[t]
  PROVE  ServesDue(k, CheckDelayedTasks(k), live)
<1> DEFINE d == k.delayed
           Due == {t \in ToSet(d) : k.wake[t] <= k.tick}
           n == DueCount(k)
           s == Served(k, n)
           r == CheckDelayedTasks(k)
<1>1. /\ Typed(k) /\ d \in TaskList /\ Len(d) \in Nat /\ Sorted(d, k.wake)
      /\ k.tick \in 0..MaxDelay /\ k.nextUnblock \in 0..MaxDelay
      /\ k.wake \in [Task -> 0..MaxDelay] /\ MaxDelay \in Nat
  <2>1. Typed(k) /\ Sorted(d, k.wake)
    BY DEF Sound, InOrder
  <2>2. /\ d \in TaskList /\ k.tick \in 0..MaxDelay /\ k.nextUnblock \in 0..MaxDelay
        /\ k.wake \in [Task -> 0..MaxDelay]
    BY <2>1 DEF Typed
  <2>3. MaxDelay \in Nat
    BY DEF TickAssumption, MaxDelay
  <2> QED BY <2>1, <2>2, <2>3, ListIs
<1>2. \A t : t \in ToSet(d) <=> \E i \in 1..Len(d) : d[i] = t
  BY <1>1, ListIs
<1>3. \A t \in ToSet(d) : t \in Task /\ k.wake[t] \in 0..MaxDelay
  BY <1>1, ListIs
<1>4. CASE k.tick < k.nextUnblock
  <2>1. r = k
    BY <1>4 DEF CheckDelayedTasks
  <2>2. Due = {} /\ \A t \in ToSet(d) : k.tick < k.wake[t]
    BY <1>1, <1>3, <1>4
  <2>3. Woken(k, k, {}) /\ Still(k, k) /\ NotOverdue(k)
    BY <2>2 DEF Woken, Still, NotOverdue
  <2> QED BY <2>1, <2>2, <2>3 DEF ServesDue, DueTasks
<1>5. CASE ~(k.tick < k.nextUnblock)
  <2>1. /\ n \in 0..Len(d) /\ \A i \in 1..n : k.wake[d[i]] <= k.tick
        /\ \A i \in n + 1..Len(d) : k.tick < k.wake[d[i]]
    BY <1>1, DueCountIs
  <2>2. /\ Sound(s, live) /\ InOrder(s) /\ Still(k, s) /\ Woken(k, s, {d[j] : j \in 1..n})
        /\ Len(s.delayed) = Len(d) - n
        /\ \A j \in 1..Len(d) - n : s.delayed[j] = d[n + j]
        /\ ToSet(s.overflowed) \subseteq ToSet(k.overflowed)
    <3>1. Serves(k, s, n, live)
      <4> HIDE DEF n
      <4> QED BY <2>1, ServeHeads
    <3> QED BY <3>1 DEF Serves
  <2>3. Due = {d[j] : j \in 1..n}
    <3>1. ASSUME NEW t \in Due PROVE \E j \in 1..n : t = d[j]
      <4>1. PICK i \in 1..Len(d) : d[i] = t
        BY <1>2
      <4>2. i \in 1..n
        BY <1>1, <1>3, <2>1, <4>1
      <4> QED BY <4>1, <4>2
    <3>2. \A j \in 1..n : d[j] \in Due
      BY <1>1, <1>2, <2>1
    <3> HIDE DEF Due
    <3> QED BY <3>1, <3>2
  <2>4. r = [s EXCEPT !.nextUnblock = IF s.delayed = << >> THEN MaxDelay
                                      ELSE s.wake[Head(s.delayed)]]
    BY <1>5 DEF CheckDelayedTasks, Served
  <2>5. Typed(s)
    BY <2>2 DEF Sound
  <2> HIDE DEF n, s, r, d, Due
  <2> DEFINE x == IF s.delayed = << >> THEN MaxDelay ELSE s.wake[Head(s.delayed)]
  <2>6. x \in 0..MaxDelay
    <3>1. s.delayed # << >> => Head(s.delayed) \in Task
      BY <2>5, TailList DEF Typed
    <3>2. s.wake \in [Task -> 0..MaxDelay]
      BY <2>5 DEF Typed
    <3> QED BY <1>1, <3>1, <3>2
  <2>7. r = [s EXCEPT !.nextUnblock = x]
    BY <2>4
  <2> HIDE DEF x
  <2>8. /\ IsRecord(r) /\ r.nextUnblock = x /\ r.ready = s.ready /\ r.top = s.top
        /\ r.current = s.current /\ r.suspended = s.suspended /\ r.pending = s.pending
        /\ r.missedTicks = s.missedTicks /\ r.missedYield = s.missedYield
        /\ r.delayed = s.delayed /\ r.overflowed = s.overflowed /\ r.wake = s.wake
        /\ r.waiting = s.waiting /\ r.eventKey = s.eventKey /\ r.priority = s.priority
        /\ r.tick = s.tick /\ r.overflows = s.overflows /\ r.swapFailed = s.swapFailed
    <3>1. s = [f \in Parts |-> s[f]]
      BY <2>5 DEF Typed, IsRecord
    <3> QED BY <2>7, <3>1 DEF Parts, IsRecord
  <2>9. Typed(r)
    BY <2>5, <2>6, <2>8, Zenon DEF Typed
  <2>10. Blocked(r) = Blocked(s)
    BY <2>8 DEF Blocked
  <2>11. Homed(r, live) /\ Events(r) /\ Waiters(r)
    <3>1. Homed(r, live)
      BY <2>2, <2>8, <2>10 DEF Sound, Homed
    <3>2. Events(r)
      BY <2>2, <2>8 DEF Sound, Events, ByRank
    <3>3. Waiters(r)
      BY <2>2, <2>8, <2>10 DEF Sound, Waiters
    <3> QED BY <3>1, <3>2, <3>3
  <2>12. Woken(k, r, Due)
    BY <2>2, <2>3, <2>8, <2>10 DEF Woken
  <2>13. InOrder(r) /\ Still(k, r)
    BY <2>2, <2>8 DEF InOrder, Still
  <2>14. NotOverdue(r)
    <3> SUFFICES ASSUME NEW t \in ToSet(s.delayed)
                 PROVE  k.tick < s.wake[t] /\ x <= s.wake[t]
      BY <2>2, <2>8 DEF NotOverdue, Still
    <3>1. s.delayed \in TaskList /\ s.wake \in [Task -> 0..MaxDelay]
      BY <2>5 DEF Typed
    <3>2. PICK j \in 1..Len(s.delayed) : s.delayed[j] = t
      BY <3>1, ListIs
    <3>3. s.delayed # << >> /\ Head(s.delayed) = s.delayed[1] /\ Len(s.delayed) \in Nat
      BY <3>1, ListIs, TailList
    <3>4. x = s.wake[s.delayed[1]]
      BY <3>3 DEF x
    <3>5. s.wake[s.delayed[1]] <= s.wake[t]
      <4>1. \A a, b \in 1..Len(s.delayed) : a < b => s.wake[s.delayed[a]] <= s.wake[s.delayed[b]]
        BY <2>2 DEF InOrder, Sorted
      <4>2. s.wake[t] \in Int /\ 1 \in 1..Len(s.delayed)
        BY <1>1, <3>1, <3>2, <3>3, ListIs
      <4> QED BY <3>2, <4>1, <4>2
    <3>6. k.tick < k.wake[t]
      <4>1. t = d[n + j] /\ n + j \in n + 1..Len(d)
        BY <1>1, <2>1, <2>2, <3>2
      <4> QED BY <2>1, <4>1
    <3>7. s.wake[t] = k.wake[t]
      <4>1. t \in Blocked(s)
        BY DEF Blocked
      <4> QED BY <2>2, <4>1 DEF Woken
    <3> QED BY <3>4, <3>5, <3>6, <3>7
  <2>15. ToSet(r.overflowed) \subseteq ToSet(k.overflowed)
    BY <2>2, <2>8
  <2> QED BY <2>9, <2>11, <2>12, <2>13, <2>14, <2>15 DEF Sound, r, Due, d, ServesDue, DueTasks
<1> QED BY <1>4, <1>5


(* Interrupts until a sleeping task has to wake, and a stamp n interrupts  *)
(* after it was set, at most one turn of the count ago.                    *)
Left(k, t) == (k.wake[t] - k.tick) % TickRange

TimeOuts == [overflows : 0..OverflowRange - 1, tick : 0..MaxDelay]
Passed(k, stamp, n) ==
  \/ k.tick = stamp.tick + n /\ k.overflows = stamp.overflows
  \/ k.tick = stamp.tick + n - TickRange
     /\ k.overflows = (stamp.overflows + 1) % OverflowRange

(* The clock has gone on by n ticks: sleepers have so many fewer left, and *)
(* those that had no more than n were woken.                               *)
Later(k, r, n) ==
  /\ \A t \in Blocked(r) : t \in Blocked(k) /\ Left(r, t) = Left(k, t) - n
  /\ \A t \in Blocked(k) \ Blocked(r) : Left(k, t) <= n
  /\ \A stamp \in TimeOuts : \A e \in Nat :
       e + n <= TickRange /\ Passed(k, stamp, e) => Passed(r, stamp, e + n)
Goes(k, r, n) ==
  \A stamp \in TimeOuts : \A e \in Nat :
    e + n <= TickRange /\ Passed(k, stamp, e) => Passed(r, stamp, e + n)

(* One tick nearer to a wake time, for every position of the two counts.   *)
LEMMA OneTickLess ==
  ASSUME TickAssumption, NEW tick \in 0..MaxDelay, NEW wake \in 0..MaxDelay, wake # tick
  PROVE  LET later == (tick + 1) % TickRange
         IN  /\ (wake - tick) % TickRange \in 1..MaxDelay
             /\ wake = later => (wake - tick) % TickRange = 1
             /\ wake # later => (wake - later) % TickRange = ((wake - tick) % TickRange) - 1
<1> DEFINE R == TickRange
           later == (tick + 1) % R
<1>1. R \in Nat /\ R > 1 /\ MaxDelay = R - 1
  BY DEF TickAssumption, MaxDelay
<1> HIDE DEF R
<1>2. later = IF tick + 1 = R THEN 0 ELSE tick + 1
  BY <1>1
<1>3. \A d \in -MaxDelay..MaxDelay : d % R = IF d < 0 THEN d + R ELSE d
  <2> SUFFICES ASSUME NEW d \in -MaxDelay..MaxDelay
               PROVE  d % R = IF d < 0 THEN d + R ELSE d
    OBVIOUS
  <2>1. CASE d < 0
    <3>1. d + R \in 0..R - 1 /\ d = (d + R) + (-1) * R
      BY <1>1, <2>1
    <3> QED BY <1>1, <2>1, <3>1
  <2>2. CASE ~(d < 0)
    BY <1>1, <2>2
  <2> QED BY <2>1, <2>2
<1>4. later \in 0..MaxDelay /\ wake - tick \in -MaxDelay..MaxDelay /\ wake - later \in -MaxDelay..MaxDelay
  BY <1>1, <1>2
<1>5. /\ (wake - tick) % R = IF wake - tick < 0 THEN wake - tick + R ELSE wake - tick
      /\ (wake - later) % R = IF wake - later < 0 THEN wake - later + R ELSE wake - later
  BY <1>3, <1>4
<1>6. /\ (wake - tick) % R \in 1..MaxDelay
      /\ wake = later => (wake - tick) % R = 1
      /\ wake # later => (wake - later) % R = ((wake - tick) % R) - 1
  BY <1>1, <1>2, <1>4, <1>5
<1> QED BY <1>6 DEF R

(* One tick further from a stamp.                                          *)
LEMMA OneTickMore ==
  ASSUME TickAssumption, NEW k, NEW r, k.tick \in 0..MaxDelay,
         r.tick = (k.tick + 1) % TickRange,
         r.overflows = IF r.tick = 0 THEN (k.overflows + 1) % OverflowRange ELSE k.overflows,
         NEW stamp \in TimeOuts, NEW e \in Nat, e + 1 <= TickRange, Passed(k, stamp, e)
  PROVE  Passed(r, stamp, e + 1)
<1> DEFINE R == TickRange
           O == OverflowRange
<1>1. R \in Nat /\ R > 1 /\ MaxDelay = R - 1 /\ stamp.tick \in 0..MaxDelay
  BY DEF TickAssumption, MaxDelay, TimeOuts
<1>2. \/ k.tick = stamp.tick + e /\ k.overflows = stamp.overflows
      \/ k.tick = stamp.tick + e - R /\ k.overflows = (stamp.overflows + 1) % O
  BY DEF Passed
<1> HIDE DEF R, O
<1>3. r.tick = IF k.tick + 1 = R THEN 0 ELSE k.tick + 1
  BY <1>1 DEF R
<1>4. r.overflows = IF r.tick = 0 THEN (k.overflows + 1) % O ELSE k.overflows
  BY DEF O
<1> DEFINE Wrapped(o) == (o + 1) % O
<1>5. \/ k.tick = stamp.tick + e /\ k.overflows = stamp.overflows
      \/ k.tick = stamp.tick + e - R /\ k.overflows = Wrapped(stamp.overflows)
  BY <1>2
<1>6. r.overflows = IF r.tick = 0 THEN Wrapped(k.overflows) ELSE k.overflows
  BY <1>4
<1> HIDE DEF Wrapped
<1>7. k.tick \in 0..R - 1 /\ e + 1 <= R
  BY <1>1 DEF R
<1>8. \/ r.tick = stamp.tick + (e + 1) /\ r.overflows = stamp.overflows
      \/ r.tick = stamp.tick + (e + 1) - R /\ r.overflows = Wrapped(stamp.overflows)
  BY <1>1, <1>3, <1>5, <1>6, <1>7
<1> QED BY <1>8 DEF Passed, Wrapped, R, O

(* vTaskIncrementTick while the scheduler is not suspended: the count goes *)
(* on, the delayed lists change places when it wraps, and the tasks that   *)
(* are due are woken.  None is left behind by the change of places.        *)
Ticks(k, r, live) ==
  /\ Sound(r, live) /\ Timed(r) /\ r.tick = (k.tick + 1) % TickRange
  /\ r.current = k.current /\ r.suspended = k.suspended
  /\ r.missedTicks = k.missedTicks /\ r.missedYield = k.missedYield
  /\ \E D \in SUBSET Blocked(k) : Woken(k, r, D)
  /\ Later(k, r, 1)

(* vTaskIncrementTick outside suspension, with or without a wrap of the    *)
(* count.                                                                  *)
LEMMA IncrementTickSound ==
  ASSUME TaskAssumption, TickAssumption,
         NEW k, NEW live \in SUBSET Task, Sound(k, live), Timed(k), k.suspended = 0
  PROVE  Ticks(k, IncrementTick(k), live)
<1> DEFINE a == [k EXCEPT !.tick = (@ + 1) % TickRange]
           b == IF a.tick = 0 THEN SwapDelayedLists(a) ELSE a
           r == CheckDelayedTasks(b)
           x == IF k.overflowed = << >> THEN MaxDelay ELSE k.wake[Head(k.overflowed)]
<1>1. /\ Typed(k) /\ k.delayed \in TaskList /\ k.overflowed \in TaskList
      /\ k.wake \in [Task -> 0..MaxDelay] /\ k.tick \in 0..MaxDelay
      /\ k.overflows \in 0..OverflowRange - 1 /\ k.nextUnblock \in 0..MaxDelay
  <2>1. Typed(k)
    BY DEF Sound
  <2> QED BY <2>1 DEF Typed
<1>2. /\ MaxDelay \in Nat /\ TickRange = MaxDelay + 1
      /\ (k.tick + 1) % TickRange \in 0..MaxDelay
      /\ (k.overflows + 1) % OverflowRange \in 0..OverflowRange - 1
  BY <1>1 DEF TickAssumption, MaxDelay
<1>3. IncrementTick(k) = r
  BY DEF IncrementTick
<1>4. /\ IsRecord(a) /\ a.tick = (k.tick + 1) % TickRange
      /\ a.ready = k.ready /\ a.top = k.top /\ a.nextUnblock = k.nextUnblock
      /\ a.current = k.current /\ a.suspended = k.suspended /\ a.pending = k.pending
      /\ a.missedTicks = k.missedTicks /\ a.missedYield = k.missedYield
      /\ a.delayed = k.delayed /\ a.overflowed = k.overflowed /\ a.wake = k.wake
      /\ a.waiting = k.waiting /\ a.eventKey = k.eventKey /\ a.priority = k.priority
      /\ a.overflows = k.overflows /\ a.swapFailed = k.swapFailed
  <2>1. k = [f \in Parts |-> k[f]]
    BY <1>1 DEF Typed, IsRecord
  <2> QED BY <2>1 DEF Parts, IsRecord
<1>5. a.tick # 0 => a.tick = k.tick + 1
  BY <1>1, <1>2, <1>4
<1>6. a.tick = 0 => k.tick = MaxDelay
  BY <1>1, <1>2, <1>4
<1>7. k.tick = MaxDelay => k.delayed = << >>
  <2> SUFFICES ASSUME k.tick = MaxDelay PROVE ToSet(k.delayed) = {}
    BY <1>1, ListIs
  <2>1. \A t \in ToSet(k.delayed) : k.wake[t] \in 0..MaxDelay /\ k.tick < k.wake[t]
    BY <1>1, ListIs DEF Timed, NotOverdue
  <2> QED BY <1>2, <2>1
<1> HIDE DEF a
<1>8. /\ IsRecord(b) /\ b.tick = a.tick /\ b.ready = k.ready /\ b.top = k.top
      /\ b.current = k.current /\ b.suspended = k.suspended /\ b.pending = k.pending
      /\ b.missedTicks = k.missedTicks /\ b.missedYield = k.missedYield /\ b.wake = k.wake
      /\ b.waiting = k.waiting /\ b.eventKey = k.eventKey /\ b.priority = k.priority
      /\ IF a.tick = 0
         THEN /\ b.delayed = k.overflowed /\ b.overflowed = k.delayed
              /\ b.overflows = (k.overflows + 1) % OverflowRange /\ b.nextUnblock = x
              /\ b.swapFailed = (k.swapFailed \/ k.delayed # << >>)
         ELSE /\ b.delayed = k.delayed /\ b.overflowed = k.overflowed
              /\ b.overflows = k.overflows /\ b.nextUnblock = k.nextUnblock
              /\ b.swapFailed = k.swapFailed
  <2>1. CASE a.tick # 0
    BY <1>4, <2>1
  <2>2. CASE a.tick = 0
    <3> DEFINE c == SwapDelayedLists(a)
    <3>1. b = c
      BY <2>2
    <3>2. a = [f \in Parts |-> a[f]]
      BY <1>4 DEF IsRecord
    <3> HIDE DEF b, x
    <3>3. /\ IsRecord(c) /\ c.tick = a.tick /\ c.ready = a.ready /\ c.top = a.top
          /\ c.current = a.current /\ c.suspended = a.suspended /\ c.pending = a.pending
          /\ c.missedTicks = a.missedTicks /\ c.missedYield = a.missedYield /\ c.wake = a.wake
          /\ c.waiting = a.waiting /\ c.eventKey = a.eventKey /\ c.priority = a.priority
          /\ c.delayed = a.overflowed /\ c.overflowed = a.delayed
          /\ c.overflows = (a.overflows + 1) % OverflowRange
          /\ c.swapFailed = (a.swapFailed \/ a.delayed # << >>)
      BY <3>2 DEF SwapDelayedLists, Parts, IsRecord
    <3>4. c.nextUnblock = IF a.overflowed = << >> THEN MaxDelay ELSE a.wake[Head(a.overflowed)]
      BY <3>2 DEF SwapDelayedLists, Parts
    <3> HIDE DEF c
    <3>5. c.nextUnblock = x
      BY <1>4, <3>4 DEF x
    <3> QED BY <1>4, <2>2, <3>1, <3>3, <3>5
  <2> QED BY <2>1, <2>2
<1> HIDE DEF b
<1>9. x \in 0..MaxDelay /\ \A t \in ToSet(k.overflowed) : x <= k.wake[t]
  <2>1. CASE k.overflowed = << >>
    <3>1. ToSet(k.overflowed) = {}
      BY <1>1, <2>1, ListIs
    <3> QED BY <1>2, <2>1, <3>1
  <2>2. CASE k.overflowed # << >>
    <3> DEFINE o == k.overflowed
    <3>1. Head(o) \in Task /\ Head(o) = o[1]
      BY <1>1, <2>2, TailList
    <3>2. x = k.wake[o[1]] /\ k.wake[o[1]] \in 0..MaxDelay
      BY <1>1, <2>2, <3>1
    <3> HIDE DEF x
    <3>3. ASSUME NEW t \in ToSet(o) PROVE x <= k.wake[t]
      <4>1. PICK j \in 1..Len(o) : o[j] = t
        BY <1>1, ListIs
      <4>2. \A m, n \in 1..Len(o) : m < n => k.wake[o[m]] <= k.wake[o[n]]
        BY DEF Timed, InOrder, Sorted
      <4>3. k.wake[t] \in Int /\ 1 \in 1..Len(o) /\ Len(o) \in Nat
        <5>1. Len(o) \in Nat /\ o[j] \in Task
          BY <1>1, ListIs
        <5>2. k.wake[t] \in 0..MaxDelay
          BY <1>1, <4>1, <5>1
        <5> QED BY <1>2, <4>1, <5>1, <5>2
      <4> QED BY <1>2, <3>2, <4>1, <4>2, <4>3
    <3> QED BY <3>2, <3>3
  <2> QED BY <2>1, <2>2
<1> HIDE DEF x
<1>10. b.swapFailed = FALSE /\ a.tick \in 0..MaxDelay
  <2>1. ~k.swapFailed /\ k.swapFailed \in BOOLEAN
    BY <1>1 DEF Timed, Typed
  <2>2. a.tick = 0 => k.delayed = << >>
    BY <1>6, <1>7
  <2> QED BY <1>2, <1>4, <1>8, <2>1, <2>2
<1>11. Typed(b)
  <2>1. /\ b.delayed \in TaskList /\ b.overflowed \in TaskList
        /\ b.overflows \in 0..OverflowRange - 1 /\ b.nextUnblock \in 0..MaxDelay
    BY <1>1, <1>2, <1>8, <1>9
  <2>2. /\ k.ready \in [Priorities -> TaskList] /\ k.top \in Priorities /\ k.current \in Task
        /\ k.suspended \in Nat /\ k.missedTicks \in Nat /\ k.missedYield \in BOOLEAN
        /\ k.pending \in TaskList /\ k.waiting \in [EventLists -> TaskList]
        /\ k.eventKey \in [Task -> Int] /\ k.priority \in [Task -> Priorities]
    BY <1>1 DEF Typed
  <2> QED BY <1>1, <1>8, <1>10, <2>1, <2>2 DEF Typed
<1>12. Blocked(b) = Blocked(k)
  BY <1>8 DEF Blocked
<1>13. Sound(b, live)
  <2>1. Homed(k, live) /\ Events(k) /\ Waiters(k)
    BY DEF Sound
  <2>2. Homed(b, live)
    BY <1>8, <1>12, <2>1 DEF Homed
  <2>3. Events(b)
    BY <1>8, <2>1 DEF Events, ByRank
  <2>4. Waiters(b)
    BY <1>8, <1>12, <2>1 DEF Waiters
  <2> QED BY <1>11, <2>2, <2>3, <2>4 DEF Sound
<1>14. InOrder(b)
  BY <1>8 DEF Timed, InOrder
<1>15. \A t \in ToSet(b.delayed) : b.nextUnblock <= b.wake[t]
  BY <1>8, <1>9 DEF Timed, NotOverdue
<1>16. ServesDue(b, r, live)
  BY <1>13, <1>14, <1>15, CheckDelayedTasksSound
<1> HIDE DEF r
<1>17. \E D \in SUBSET Blocked(k) : Woken(k, r, D)
  <2>1. Woken(k, b, {})
    BY <1>8, <1>12 DEF Woken
  <2>2. Woken(b, r, DueTasks(b))
    BY <1>16 DEF ServesDue
  <2>3. Woken(k, r, {} \cup DueTasks(b))
    BY <2>1, <2>2, WokenTwice
  <2>4. {} \cup DueTasks(b) \in SUBSET Blocked(k)
    BY <1>12 DEF DueTasks, Blocked
  <2> QED BY <2>3, <2>4
<1>18. /\ r.tick = (k.tick + 1) % TickRange /\ r.current = k.current
       /\ r.suspended = k.suspended
       /\ r.missedTicks = k.missedTicks /\ r.missedYield = k.missedYield
       /\ r.swapFailed = FALSE
  BY <1>4, <1>8, <1>10, <1>16 DEF ServesDue, Still
<1>20. r.overflows = IF r.tick = 0 THEN (k.overflows + 1) % OverflowRange ELSE k.overflows
  BY <1>4, <1>8, <1>16 DEF ServesDue, Still
<1>21. Woken(b, r, DueTasks(b)) /\ ToSet(r.overflowed) \subseteq ToSet(b.overflowed)
  BY <1>16 DEF ServesDue
<1>22. \A t \in Blocked(r) : /\ t \in Blocked(k) /\ r.wake[t] = k.wake[t]
  BY <1>8, <1>12, <1>21 DEF Woken
<1>23. NextTurn(r)
  <2> SUFFICES ASSUME NEW t \in ToSet(r.overflowed) PROVE r.wake[t] < r.tick
    BY DEF NextTurn
  <2>1. t \in ToSet(b.overflowed) /\ r.wake[t] = k.wake[t]
    BY <1>21, <1>22 DEF Blocked
  <2>2. a.tick # 0
    <3> SUFFICES ASSUME a.tick = 0 PROVE FALSE
      OBVIOUS
    <3>1. b.overflowed = k.delayed /\ k.delayed = << >>
      BY <1>6, <1>7, <1>8
    <3>2. ToSet(k.delayed) = {}
      BY <1>1, <3>1, ListIs
    <3> QED BY <2>1, <3>1, <3>2
  <2>3. t \in ToSet(k.overflowed) /\ k.wake[t] < k.tick
    BY <1>8, <2>1, <2>2 DEF Timed, NextTurn
  <2>4. r.tick = k.tick + 1 /\ k.tick \in Int /\ k.wake[t] \in Int
    <3>1. t \in Task
      BY <1>1, <2>3, ListIs
    <3> QED BY <1>1, <1>2, <1>4, <1>5, <1>18, <2>2, <3>1
  <2> QED BY <2>1, <2>3, <2>4
<1>19. Sound(r, live) /\ Timed(r)
  BY <1>16, <1>18, <1>23 DEF ServesDue, Timed
<1>24. ASSUME NEW t \in Blocked(k)
       PROVE  k.wake[t] \in 0..MaxDelay /\ k.wake[t] # k.tick
  <2>1. t \in Task
    BY <1>1, ListIs DEF Blocked
  <2>2. k.wake[t] < k.tick \/ k.tick < k.wake[t]
    BY DEF Blocked, Timed, NotOverdue, NextTurn
  <2> QED BY <1>1, <1>2, <2>1, <2>2
<1>25. ASSUME NEW t \in Blocked(r)
       PROVE  t \in Blocked(k) /\ Left(r, t) = Left(k, t) - 1
  <2>1. t \in Blocked(k) /\ r.wake[t] = k.wake[t]
    BY <1>22
  <2>2. r.wake[t] # r.tick
    <3>1. r.wake[t] < r.tick \/ r.tick < r.wake[t]
      BY <1>19 DEF Blocked, Timed, NotOverdue, NextTurn
    <3> QED BY <1>2, <1>18, <1>24, <2>1, <3>1
  <2> QED BY <1>1, <1>18, <1>24, <2>1, <2>2, OneTickLess DEF Left
<1>26. ASSUME NEW t \in Blocked(k) \ Blocked(r) PROVE Left(k, t) <= 1
  <2>1. t \in DueTasks(b)
    BY <1>12, <1>21 DEF Woken
  <2>2. t \in ToSet(b.delayed) /\ k.wake[t] <= a.tick
    BY <1>8, <2>1 DEF DueTasks
  <2>3. k.wake[t] = a.tick
    <3>1. k.wake[t] \in 0..MaxDelay /\ a.tick \in 0..MaxDelay
      BY <1>10, <1>24
    <3>2. CASE a.tick = 0
      BY <1>2, <2>2, <3>1, <3>2
    <3>3. CASE a.tick # 0
      <4>1. k.tick < k.wake[t] /\ a.tick = k.tick + 1
        BY <1>5, <1>8, <2>2, <3>3 DEF Timed, NotOverdue
      <4> QED BY <1>1, <1>2, <2>2, <3>1, <4>1
    <3> QED BY <3>2, <3>3
  <2>4. Left(k, t) = 1
    BY <1>1, <1>4, <1>24, <2>3, OneTickLess DEF Left
  <2> QED BY <2>4
<1>27. Later(k, r, 1)
  <2>1. \A stamp \in TimeOuts : \A e \in Nat :
          e + 1 <= TickRange /\ Passed(k, stamp, e) => Passed(r, stamp, e + 1)
    BY <1>1, <1>18, <1>20, OneTickMore
  <2> QED BY <1>25, <1>26, <2>1 DEF Later
<1> QED BY <1>3, <1>17, <1>18, <1>19, <1>27 DEF Ticks


-----------------------------------------------------------------------------
(* vTaskSwitchContext while the scheduler is not suspended: a task of the  *)
(* highest ready priority runs, and the lists hold the same tasks.         *)
IsRunnable(k, t) == t \in ToSet(k.ready[k.priority[t]])

Switches(k, r, live) ==
  /\ Sound(r, live) /\ Woken(k, r, {}) /\ (Timed(k) => Timed(r))
  /\ r.tick = k.tick /\ r.overflows = k.overflows /\ r.suspended = k.suspended
  /\ r.missedTicks = k.missedTicks /\ r.missedYield = k.missedYield /\ r.pending = k.pending
  /\ Highest(r) /\ r.current \in live /\ IsRunnable(r, r.current)

(* vTaskSwitchContext chooses a ready task of the highest priority.        *)
LEMMA SwitchContextSound ==
  ASSUME TaskAssumption,
         NEW k, NEW live \in SUBSET Task, Sound(k, live), IdleReady(k), k.suspended = 0
  PROVE  Switches(k, SwitchContext(k), live)
<1> DEFINE Chosen(p) == k.ready[p] # << >> /\ \A q \in p + 1..k.top : k.ready[q] = << >>
           p == CHOOSE p \in 0..k.top : Chosen(p)
           next == Head(k.ready[p])
           new == Append(Tail(k.ready[p]), next)
           r == SwitchContext(k)
<1>1. /\ Typed(k) /\ k.ready \in [Priorities -> TaskList] /\ k.top \in Priorities
      /\ k.priority \in [Task -> Priorities]
  <2>1. Typed(k)
    BY DEF Sound
  <2> QED BY <2>1 DEF Typed
<1>2. 0 \in Priorities /\ k.ready[0] # << >> /\ MaxPriorities \in Nat
  <2>1. 0 \in Priorities /\ MaxPriorities \in Nat
    BY DEF TaskAssumption, Priorities
  <2>2. k.ready[0] \in TaskList
    BY <1>1, <2>1
  <2> QED BY <2>1, <2>2, ListIs DEF IdleReady
<1>3. k.top \in Nat /\ 0..k.top \subseteq Priorities /\ \A q \in Priorities : q \in Nat
  BY <1>1, <1>2 DEF Priorities
<1>4. \E q \in 0..k.top : Chosen(q)
  <2> DEFINE T == {m \in 0..k.top : k.ready[k.top - m] # << >>}
  <2>1. T \in SUBSET Nat /\ k.top \in T
    <3>1. k.top - k.top = 0 /\ k.top \in 0..k.top
      BY <1>3
    <3> QED BY <1>2, <1>3, <3>1
  <2>2. PICK m \in T : \A n \in T : m <= n
    <3> HIDE DEF T
    <3> QED BY <2>1, LeastOf
  <2>3. k.top - m \in 0..k.top /\ k.ready[k.top - m] # << >>
    BY <1>3
  <2>4. ASSUME NEW q \in (k.top - m) + 1..k.top PROVE k.ready[q] = << >>
    <3>1. k.top \in Nat /\ m \in 0..k.top
      BY <1>3
    <3> HIDE DEF T
    <3>2. k.top - q \in 0..k.top /\ ~(m <= k.top - q) /\ k.top - (k.top - q) = q
      BY <3>1
    <3>3. k.top - q \notin T
      BY <2>2, <3>2
    <3> QED BY <3>2, <3>3 DEF T
  <2> QED BY <2>3, <2>4
<1>5. p \in 0..k.top /\ Chosen(p)
  <2> HIDE DEF Chosen
  <2> QED BY <1>4
<1>6. r = [k EXCEPT !.top = p, !.ready[p] = Append(Tail(@), next), !.current = next]
  BY <1>3 DEF SwitchContext
<1> HIDE DEF p
<1>7. p \in Priorities /\ k.ready[p] \in TaskList /\ IsInjective(k.ready[p])
  <2>1. p \in Priorities
    BY <1>3, <1>5
  <2> QED BY <1>1, <2>1 DEF Sound, Homed
<1>8. /\ next \in ToSet(k.ready[p]) /\ next \in Task
      /\ new \in TaskList /\ ToSet(new) = ToSet(k.ready[p]) /\ IsInjective(new)
  <2> DEFINE rest == Tail(k.ready[p])
  <2>1. /\ next \in ToSet(k.ready[p]) /\ next \in Task /\ rest \in TaskList
        /\ ToSet(rest) = ToSet(k.ready[p]) \ {next} /\ IsInjective(rest)
    BY <1>5, <1>7, TailList
  <2> HIDE DEF rest, next
  <2>2. /\ Append(rest, next) \in TaskList /\ ToSet(Append(rest, next)) = ToSet(rest) \cup {next}
        /\ IsInjective(Append(rest, next))
    BY <2>1, AppendList
  <2>3. new = Append(rest, next)
    BY DEF rest
  <2> HIDE DEF new
  <2> QED BY <2>1, <2>2, <2>3
<1>9. /\ IsRecord(r) /\ r.top = p /\ r.ready = [k.ready EXCEPT ![p] = new] /\ r.current = next
      /\ r.suspended = k.suspended /\ r.pending = k.pending
      /\ r.missedTicks = k.missedTicks /\ r.missedYield = k.missedYield
      /\ r.delayed = k.delayed /\ r.overflowed = k.overflowed /\ r.wake = k.wake
      /\ r.waiting = k.waiting /\ r.eventKey = k.eventKey /\ r.priority = k.priority
      /\ r.tick = k.tick /\ r.overflows = k.overflows /\ r.nextUnblock = k.nextUnblock
      /\ r.swapFailed = k.swapFailed
  <2>1. k = [f \in Parts |-> k[f]]
    BY <1>1 DEF Typed, IsRecord
  <2> HIDE DEF next
  <2>2. r = [k EXCEPT !.top = p, !.ready[p] = Append(Tail(@), next), !.current = next]
    BY <1>6
  <2> HIDE DEF r
  <2> QED BY <2>1, <2>2 DEF Parts, IsRecord
<1> HIDE DEF next, r, new, Chosen
<1>10. \A q \in Priorities : /\ r.ready[q] = IF q = p THEN new ELSE k.ready[q]
                             /\ ToSet(r.ready[q]) = ToSet(k.ready[q])
                             /\ IsInjective(r.ready[q]) /\ r.ready[q] \in TaskList
  <2>1. \A q \in Priorities : r.ready[q] = IF q = p THEN new ELSE k.ready[q]
    BY <1>1, <1>9
  <2>2. \A q \in Priorities : IsInjective(k.ready[q]) /\ k.ready[q] \in TaskList
    BY <1>1 DEF Sound, Homed
  <2> QED BY <1>8, <2>1, <2>2
<1>11. Blocked(r) = Blocked(k)
  BY <1>9 DEF Blocked
<1>12. Woken(k, r, {})
  BY <1>9, <1>10, <1>11 DEF Woken
<1>13. \A q \in Priorities : ToSet(r.ready[q]) # {} => q <= p
  <2> SUFFICES ASSUME NEW q \in Priorities, ToSet(k.ready[q]) # {}, ~(q <= p) PROVE FALSE
    BY <1>10
  <2>1. q <= k.top
    BY DEF Sound, Homed
  <2>2. q \in p + 1..k.top
    BY <1>3, <1>5, <2>1
  <2>3. k.ready[q] = << >>
    BY <1>5, <2>2 DEF Chosen
  <2>4. k.ready[q] \in TaskList
    BY <1>1
  <2> QED BY <2>3, <2>4, ListIs
<1>14. Typed(r)
  <2>1. r.ready \in [Priorities -> TaskList]
    BY <1>1, <1>8, <1>9
  <2>2. /\ k.current \in Task /\ k.suspended \in Nat /\ k.missedTicks \in Nat
        /\ k.missedYield \in BOOLEAN
        /\ k.pending \in TaskList /\ k.delayed \in TaskList /\ k.overflowed \in TaskList
        /\ k.wake \in [Task -> 0..MaxDelay] /\ k.waiting \in [EventLists -> TaskList]
        /\ k.eventKey \in [Task -> Int] /\ k.priority \in [Task -> Priorities]
        /\ k.tick \in 0..MaxDelay /\ k.overflows \in 0..OverflowRange - 1
        /\ k.nextUnblock \in 0..MaxDelay /\ k.swapFailed \in BOOLEAN
    BY <1>1 DEF Typed
  <2> QED BY <1>7, <1>8, <1>9, <2>1, <2>2 DEF Typed
<1>15. Homed(r, live)
  <2>1. Homed(k, live)
    BY DEF Sound
  <2>2. \A q \in Priorities : \A t \in ToSet(r.ready[q]) :
          t \in live /\ t \notin Blocked(r) /\ r.priority[t] = q /\ q <= r.top
    BY <1>9, <1>10, <1>11, <1>13, <2>1 DEF Homed
  <2>3. \A t \in live : t \in Blocked(r) \/ t \in ToSet(r.ready[r.priority[t]])
    <3> SUFFICES ASSUME NEW t \in live, t \notin Blocked(r)
                 PROVE  t \in ToSet(r.ready[k.priority[t]])
      BY <1>9
    <3>1. t \in ToSet(k.ready[k.priority[t]]) /\ k.priority[t] \in Priorities
      BY <1>1, <1>11, <2>1 DEF Homed
    <3> QED BY <1>10, <3>1
  <2> QED BY <1>9, <1>10, <2>1, <2>2, <2>3 DEF Homed
<1>16. Events(r) /\ Waiters(r)
  <2>1. Events(k) /\ Waiters(k)
    BY DEF Sound
  <2>2. Events(r)
    BY <1>9, <2>1 DEF Events, ByRank
  <2>3. Waiters(r)
    BY <1>9, <1>11, <2>1 DEF Waiters
  <2> QED BY <2>2, <2>3
<1>17. k.priority[next] = p /\ next \in live
  BY <1>7, <1>8 DEF Sound, Homed
<1>18. Highest(r)
  <2> SUFFICES ASSUME NEW q \in Priorities, r.ready[q] # << >> PROVE q <= p
    BY <1>9, <1>17 DEF Highest
  <2>1. ToSet(r.ready[q]) # {}
    BY <1>10, ListIs
  <2> QED BY <1>13, <2>1
<1>19. r.current \in live /\ IsRunnable(r, r.current)
  BY <1>7, <1>8, <1>9, <1>10, <1>17 DEF IsRunnable
<1>20. Timed(k) => Timed(r)
  BY <1>9 DEF Timed, InOrder, NotOverdue, NextTurn
<1> QED BY <1>9, <1>12, <1>14, <1>15, <1>16, <1>18, <1>19, <1>20 DEF Sound, Switches, r

(* Being sound is a matter of the lists.                                   *)
SameLists(k, r) ==
  /\ r.ready = k.ready /\ r.top = k.top /\ r.pending = k.pending
  /\ r.delayed = k.delayed /\ r.overflowed = k.overflowed /\ r.wake = k.wake
  /\ r.waiting = k.waiting /\ r.eventKey = k.eventKey /\ r.priority = k.priority

(* What leaves the lists alone leaves them sound.                          *)
LEMMA SameListsSound ==
  ASSUME NEW k, NEW r, NEW live, Sound(k, live), SameLists(k, r), Typed(r)
  PROVE  /\ Sound(r, live) /\ Blocked(r) = Blocked(k)
         /\ (IdleReady(k) => IdleReady(r))
         /\ Woken(k, r, {})
<1>1. Blocked(r) = Blocked(k)
  BY DEF SameLists, Blocked
<1>2. Homed(r, live)
  BY <1>1 DEF Sound, SameLists, Homed
<1>3. Events(r) /\ Waiters(r)
  BY <1>1 DEF Sound, SameLists, Events, ByRank, Waiters
<1>4. IdleReady(k) => IdleReady(r)
  BY DEF SameLists, IdleReady
<1>5. Woken(k, r, {})
  BY <1>1 DEF SameLists, Woken
<1> QED BY <1>1, <1>2, <1>3, <1>4, <1>5 DEF Sound

(* Every sleeping task has between one tick and a turn of the count left.  *)
LEMMA SleeperLeft ==
  ASSUME TickAssumption, NEW k, Typed(k), Timed(k), NEW t \in Blocked(k)
  PROVE  Left(k, t) \in 1..MaxDelay
<1>1. /\ k.delayed \in TaskList /\ k.overflowed \in TaskList
      /\ k.wake \in [Task -> 0..MaxDelay] /\ k.tick \in 0..MaxDelay /\ MaxDelay \in Nat
  BY DEF Typed, TickAssumption, MaxDelay
<1>2. t \in Task
  BY <1>1, ListIs DEF Blocked
<1>3. k.wake[t] < k.tick \/ k.tick < k.wake[t]
  BY DEF Blocked, Timed, NotOverdue, NextTurn
<1>4. k.wake[t] \in 0..MaxDelay /\ k.wake[t] # k.tick
  BY <1>1, <1>2, <1>3
<1> QED BY <1>1, <1>4, OneTickLess DEF Left

(* The clock that did not go on.                                           *)
LEMMA LaterNot ==
  ASSUME TickAssumption, NEW k, NEW r, Typed(k), Timed(k), Woken(k, r, {}),
         r.tick = k.tick, r.overflows = k.overflows
  PROVE  Later(k, r, 0)
<1>1. \A t \in Blocked(r) : t \in Blocked(k) /\ r.wake[t] = k.wake[t]
  BY DEF Woken
<1>2. \A t \in Blocked(r) : Left(r, t) = Left(k, t) - 0
  <2> SUFFICES ASSUME NEW t \in Blocked(r) PROVE Left(r, t) = Left(k, t) - 0
    OBVIOUS
  <2>1. Left(k, t) \in 1..MaxDelay
    BY <1>1, SleeperLeft
  <2>2. Left(r, t) = Left(k, t)
    BY <1>1 DEF Left
  <2> QED BY <2>1, <2>2
<1>3. \A stamp \in TimeOuts : \A e \in Nat : Passed(k, stamp, e) => Passed(r, stamp, e + 0)
  <2> SUFFICES ASSUME NEW stamp \in TimeOuts, NEW e \in Nat, Passed(k, stamp, e)
               PROVE  Passed(r, stamp, e + 0)
    OBVIOUS
  <2>1. e + 0 = e
    OBVIOUS
  <2>2. Passed(r, stamp, e)
    BY DEF Passed
  <2> QED BY <2>1, <2>2
<1> QED BY <1>1, <1>2, <1>3 DEF Later, Woken

(* Some ticks and then more.                                               *)
LEMMA LaterTwice ==
  ASSUME TickAssumption, NEW k, NEW s, NEW r, NEW m \in Nat, NEW n \in Nat,
         Typed(k), Timed(k), Later(k, s, m), Later(s, r, n)
  PROVE  Later(k, r, m + n)
<1>1. \A t \in Blocked(k) : Left(k, t) \in Int
  BY SleeperLeft DEF TickAssumption, MaxDelay
<1>2. \A t \in Blocked(r) : t \in Blocked(k) /\ Left(r, t) = Left(k, t) - (m + n)
  BY <1>1 DEF Later
<1>3. \A t \in Blocked(k) \ Blocked(r) : Left(k, t) <= m + n
  BY <1>1 DEF Later
<1>4. ASSUME NEW stamp \in TimeOuts, NEW e \in Nat,
             e + (m + n) <= TickRange, Passed(k, stamp, e)
      PROVE  Passed(r, stamp, e + (m + n))
  <2>1. e + m \in Nat /\ e + m <= TickRange /\ (e + m) + n <= TickRange
        /\ (e + m) + n = e + (m + n)
    BY <1>4 DEF TickAssumption
  <2>2. Passed(s, stamp, e + m)
    BY <1>4, <2>1 DEF Later
  <2>3. Passed(r, stamp, (e + m) + n)
    BY <2>1, <2>2 DEF Later
  <2> QED BY <2>1, <2>3
<1> QED BY <1>2, <1>3, <1>4 DEF Later

(* While it is suspended, the switch is only remembered.                   *)
LEMMA SwitchContextLater ==
  ASSUME NEW k, Typed(k), k.suspended # 0
  PROVE  LET r == SwitchContext(k)
         IN  /\ SameLists(k, r) /\ Typed(r) /\ r.missedYield = TRUE
             /\ r.current = k.current /\ r.suspended = k.suspended
             /\ r.missedTicks = k.missedTicks /\ r.tick = k.tick
             /\ r.overflows = k.overflows /\ r.nextUnblock = k.nextUnblock
             /\ r.swapFailed = k.swapFailed
<1> DEFINE r == SwitchContext(k)
<1>1. k.suspended \in Nat /\ k = [f \in Parts |-> k[f]]
  BY DEF Typed, IsRecord
<1>2. r = [k EXCEPT !.missedYield = TRUE]
  BY <1>1 DEF SwitchContext
<1> HIDE DEF r
<1>3. /\ IsRecord(r) /\ SameLists(k, r) /\ r.missedYield = TRUE
      /\ r.current = k.current /\ r.suspended = k.suspended
      /\ r.missedTicks = k.missedTicks /\ r.tick = k.tick
      /\ r.overflows = k.overflows /\ r.nextUnblock = k.nextUnblock
      /\ r.swapFailed = k.swapFailed
  BY <1>1, <1>2 DEF Parts, IsRecord, SameLists
<1>4. Typed(r)
  BY <1>3 DEF Typed, SameLists
<1> QED BY <1>3, <1>4 DEF r

(* The idle task is always ready: it never blocks, and waking another      *)
(* leaves it there.                                                        *)
LEMMA IdleStays ==
  ASSUME TaskAssumption, NEW k, NEW r, NEW D, IdleReady(k), Woken(k, r, D)
  PROVE  IdleReady(r)
<1>1. 0 \in Priorities
  BY DEF TaskAssumption, Priorities
<1>2. ToSet(k.ready[0]) \subseteq ToSet(r.ready[0]) /\ r.priority = k.priority
  BY <1>1 DEF Woken
<1> QED BY <1>2 DEF IdleReady


-----------------------------------------------------------------------------
(* The end of a suspension.                                                *)
LEMMA WakesTimed ==
  ASSUME TaskAssumption, TickAssumption,
         NEW k, NEW live \in SUBSET Task, Sound(k, live), NEW t \in Blocked(k),
         NEW r, Wakes(k, r, t), Timed(k)
  PROVE  Timed(r)
<1>1. /\ InOrder(r) /\ Woken(k, r, {t}) /\ ToSet(r.delayed) = ToSet(k.delayed) \ {t}
      /\ ToSet(r.overflowed) = ToSet(k.overflowed) \ {t}
  BY WakesSound DEF Timed
<1>2. r.tick = k.tick /\ r.nextUnblock = k.nextUnblock /\ r.swapFailed = k.swapFailed
  BY DEF Wakes
<1>3. \A u \in ToSet(r.delayed) \cup ToSet(r.overflowed) : r.wake[u] = k.wake[u]
  BY <1>1 DEF Woken, Blocked
<1> QED BY <1>1, <1>2, <1>3 DEF Timed, NotOverdue, NextTurn

(* Every task whose event came meanwhile is woken.                         *)
Moves(k, r, live) ==
  /\ Sound(r, live) /\ (Timed(k) => Timed(r)) /\ Still(k, r)
  /\ Woken(k, r, ToSet(k.pending)) /\ r.pending = << >>

(* xTaskResumeAll, its first loop: every pending task is woken.            *)
LEMMA MovePendingSound ==
  ASSUME TaskAssumption, TickAssumption,
         NEW k, NEW live \in SUBSET Task, Sound(k, live)
  PROVE  Moves(k, MovePending(k), live)
<1> DEFINE d == k.pending
           n == Len(d)
           Done(i) == {d[j] : j \in 1..i}
           Good(s, i) == /\ Sound(s, live) /\ (Timed(k) => Timed(s)) /\ Still(k, s)
                         /\ Woken(k, s, Done(i))
                         /\ Len(s.pending) = Len(d) - i
                         /\ \A j \in 1..Len(d) - i : s.pending[j] = d[i + j]
           S == [i \in 0..n |-> {s \in States : Good(s, i)}]
           f == [s \in States |-> MoveHead(s)]
           Loop(h) == h = [i \in 0..n |-> IF i = 0 THEN k ELSE MoveHead(h[i - 1])]
           after == CHOOSE h : Loop(h)
<1>1. d \in TaskList /\ Len(d) \in Nat
  BY ListIs DEF Sound, Typed
<1>2. k \in S[0]
  <2>1. k \in States
    BY TypedState DEF Sound
  <2>2. Woken(k, k, {})
    BY DEF Woken
  <2>3. Done(0) = {}
    OBVIOUS
  <2>4. Still(k, k)
    BY DEF Still
  <2>5. Len(d) = Len(d) - 0 /\ \A j \in 1..Len(d) - 0 : d[j] = d[0 + j]
    BY <1>1
  <2> HIDE DEF Done
  <2>6. Good(k, 0)
    BY <2>2, <2>3, <2>4, <2>5
  <2> HIDE DEF Good
  <2>7. 0 \in 0..n
    BY <1>1
  <2> QED BY <2>1, <2>6, <2>7
<1>3. ASSUME NEW i \in 1..n, NEW s \in S[i - 1] PROVE MoveHead(s) \in S[i]
  <2> DEFINE t == Head(s.pending)
             r == MoveHead(s)
  <2>1. i - 1 \in 0..n /\ i \in 0..n /\ i - 1 \in Nat
    BY <1>1
  <2>2. Good(s, i - 1)
    BY <2>1
  <2>3. Typed(s) /\ s.pending \in TaskList /\ IsInjective(s.pending)
    BY <2>2 DEF Sound, Typed, Events
  <2>4. Len(s.pending) = Len(d) - (i - 1) /\ s.pending # << >>
    <3>1. Len(s.pending) = Len(d) - (i - 1) /\ Len(s.pending) # 0
      BY <1>1, <2>2
    <3> QED BY <2>3, <3>1, ListIs
  <2>5. t = d[i] /\ t \in Blocked(s)
    <3>1. t = s.pending[1] /\ t \in ToSet(s.pending)
      BY <2>3, <2>4, TailList
    <3>2. s.pending[1] = d[(i - 1) + 1]
      BY <1>1, <2>2
    <3>3. (i - 1) + 1 = i
      OBVIOUS
    <3>4. ToSet(s.pending) \subseteq Blocked(s)
      BY <2>2 DEF Sound, Waiters
    <3> QED BY <3>1, <3>2, <3>3, <3>4
  <2>6. Wakes(s, r, t)
    BY <2>3, <2>4, MoveHeadWakes
  <2> HIDE DEF t, r, S, f, Loop, after
  <2>7. Sound(r, live) /\ Woken(s, r, {t})
    BY <2>2, <2>5, <2>6, WakesSound
  <2>15. Timed(k) => Timed(r)
    BY <2>2, <2>5, <2>6, WakesTimed
  <2>8. Woken(k, r, Done(i))
    <3>1. Done(i) = Done(i - 1) \cup {t}
      <4>1. \A x : (\E j \in 1..i : x = d[j]) <=> (\E j \in 1..i - 1 : x = d[j]) \/ x = d[i]
        BY <2>1
      <4> QED BY <2>5, <4>1
    <3>2. Woken(k, s, Done(i - 1))
      BY <2>2
    <3> HIDE DEF Done
    <3> QED BY <2>7, <3>1, <3>2, WokenTwice
  <2>9. Still(s, r) /\ r.pending = Unlink(s.pending, t)
    BY <2>6 DEF Wakes, Still
  <2>10. Still(k, r)
    BY <2>2, <2>9 DEF Still
  <2>11. r.pending = Tail(s.pending)
    BY <2>3, <2>4, <2>9, UnlinkHead DEF t
  <2>12. Len(r.pending) = Len(d) - i /\ \A j \in 1..Len(d) - i : r.pending[j] = d[i + j]
    <3>1. /\ Len(r.pending) = Len(s.pending) - 1
          /\ \A j \in 1..Len(s.pending) - 1 : r.pending[j] = s.pending[j + 1]
      BY <2>3, <2>4, <2>11, TailList
    <3>2. \A j \in 1..Len(d) - (i - 1) : s.pending[j] = d[(i - 1) + j]
      BY <2>2
    <3>3. ASSUME NEW j \in 1..Len(d) - i PROVE r.pending[j] = d[i + j]
      <4>1. /\ j + 1 \in 1..Len(d) - (i - 1) /\ (i - 1) + (j + 1) = i + j
            /\ j \in 1..Len(s.pending) - 1
        BY <1>1, <2>4
      <4> QED BY <3>1, <3>2, <4>1
    <3> QED BY <1>1, <2>4, <3>1, <3>3
  <2>13. r \in States
    BY <2>7, TypedState DEF Sound
  <2>14. Good(r, i)
    BY <2>7, <2>8, <2>10, <2>12, <2>15
  <2> HIDE DEF Good
  <2> QED BY <2>1, <2>13, <2>14 DEF S, r
<1>4. n \in Nat /\ S \in [0..n -> SUBSET States]
  BY <1>1
<1>13. MovePending(k) = Times(n, MoveHead, k)
  BY DEF MovePending
<1> HIDE DEF Good, S
<1>14. \A s \in S[n] : Good(s, n)
  BY <1>1 DEF S
<1> HIDE DEF n
<1>5. \A i \in 1..n : \A s \in S[i - 1] : f[s] \in S[i]
  BY <1>3, <1>4
<1>6. PICK g \in [0..n -> States] : Chained(g, f, n, S, k)
  <2> HIDE DEF f, Loop, after
  <2>1. Leads(f, n, S)
    BY <1>5 DEF Leads
  <2> QED BY <1>2, <1>4, <2>1, Passes, Zenon
<1>7. Loop(g)
  <2>1. \A i \in 1..n : g[i] = MoveHead(g[i - 1])
    <3> SUFFICES ASSUME NEW i \in 1..n PROVE g[i] = MoveHead(g[i - 1])
      OBVIOUS
    <3>1. g[i] = f[g[i - 1]] /\ i - 1 \in 0..n
      BY <1>4, <1>6 DEF Chained
    <3>2. g[i - 1] \in States
      BY <3>1
    <3> HIDE DEF Loop, after
    <3> QED BY <3>1, <3>2, Zenon
  <2> HIDE DEF f
  <2> QED BY <1>4, <1>6, <2>1 DEF Chained
<1>8. Loop(after)
  <2> HIDE DEF Loop
  <2> QED BY <1>7, Zenon
<1>9. MovePending(k) = after[n]
  BY <1>13 DEF Times
<1> HIDE DEF after
<1>10. after[0] = k /\ \A i \in 1..n : after[i] = MoveHead(after[i - 1])
  <2>1. \A i \in 0..n : after[i] = IF i = 0 THEN k ELSE MoveHead(after[i - 1])
    BY <1>8, Zenon
  <2> QED BY <1>4, <2>1
<1> HIDE DEF Loop, f
<1>11. after[n] \in S[n]
  <2>1. \A i \in 1..n : after[i - 1] \in S[i - 1] => after[i] \in S[i]
    BY <1>3, <1>10
  <2> QED BY <1>2, <1>4, <1>10, <2>1, Climbs
<1>12. Good(after[n], n)
  BY <1>11, <1>14
<1> DEFINE r == MovePending(k)
<1>15. /\ Sound(r, live) /\ (Timed(k) => Timed(r)) /\ Still(k, r) /\ Woken(k, r, Done(n))
       /\ Len(r.pending) = Len(d) - n
  BY <1>9, <1>12 DEF Good
<1>16. Done(n) = ToSet(d) /\ Len(d) - n = 0
  BY <1>1, ListIs DEF n
<1> HIDE DEF r
<1>17. r.pending = << >>
  <2>1. r.pending \in TaskList
    BY <1>15 DEF Sound, Typed
  <2> QED BY <1>15, <1>16, <2>1, ListIs
<1> HIDE DEF Done
<1> QED BY <1>15, <1>16, <1>17 DEF Moves, r


(* Every tick that was missed is counted, with all that follows from it.   *)
Replays(k, r, live) ==
  /\ Sound(r, live) /\ Timed(r) /\ r.missedTicks = 0 /\ r.suspended = k.suspended
  /\ r.current = k.current /\ r.missedYield = k.missedYield
  /\ \E D \in SUBSET Blocked(k) : Woken(k, r, D) /\ (k.missedTicks = 0 => D = {})
  /\ Later(k, r, k.missedTicks)

(* xTaskResumeAll, one pass of its second loop: a tick that was put off.   *)
LEMMA ReplayTickSound ==
  ASSUME TaskAssumption, TickAssumption,
         NEW k, NEW live \in SUBSET Task, Sound(k, live), Timed(k), k.suspended = 0,
         k.missedTicks > 0
  PROVE  LET r == ReplayTick(k)
         IN  /\ Sound(r, live) /\ Timed(r) /\ r.missedTicks = k.missedTicks - 1
             /\ r.current = k.current /\ r.suspended = k.suspended
             /\ r.missedYield = k.missedYield
             /\ \E D \in SUBSET Blocked(k) : Woken(k, r, D)
             /\ Later(k, r, 1)
<1> DEFINE a == IncrementTick(k)
           r == ReplayTick(k)
<1>1. Ticks(k, a, live)
  BY IncrementTickSound
<1>2. Sound(a, live) /\ Timed(a) /\ a.current = k.current /\ a.missedTicks = k.missedTicks
      /\ a.missedYield = k.missedYield /\ a.suspended = k.suspended
  BY <1>1 DEF Ticks
<1>3. PICK D \in SUBSET Blocked(k) : Woken(k, a, D)
  BY <1>1 DEF Ticks
<1>4. r = [a EXCEPT !.missedTicks = @ - 1]
  BY DEF ReplayTick
<1>5. a = [f \in Parts |-> a[f]] /\ Typed(a)
  BY <1>2 DEF Sound, Typed, IsRecord
<1>6. k.missedTicks - 1 \in Nat
  BY DEF Sound, Typed
<1> HIDE DEF a, r
<1>7. /\ IsRecord(r) /\ SameLists(a, r) /\ r.missedTicks = k.missedTicks - 1
      /\ r.current = a.current /\ r.suspended = a.suspended /\ r.missedYield = a.missedYield
      /\ r.tick = a.tick /\ r.overflows = a.overflows /\ r.nextUnblock = a.nextUnblock
      /\ r.swapFailed = a.swapFailed
  BY <1>2, <1>4, <1>5 DEF Parts, IsRecord, SameLists
<1>8. Typed(r)
  BY <1>5, <1>6, <1>7 DEF Typed, SameLists
<1>9. Sound(r, live) /\ Woken(a, r, {})
  BY <1>2, <1>7, <1>8, SameListsSound
<1>10. Timed(r)
  BY <1>2, <1>7 DEF Timed, InOrder, NotOverdue, NextTurn, SameLists
<1>11. Woken(k, r, D)
  <2>1. Woken(k, r, D \cup {})
    BY <1>3, <1>9, WokenTwice
  <2> QED BY <2>1
<1>12. Later(k, r, 1)
  <2>1. Later(k, a, 1) /\ Typed(k)
    BY <1>1 DEF Ticks, Sound
  <2>2. Later(a, r, 0)
    BY <1>2, <1>5, <1>7, <1>9, LaterNot
  <2>3. Later(k, r, 1 + 0)
    BY <2>1, <2>2, LaterTwice
  <2> QED BY <2>3
<1> QED BY <1>2, <1>7, <1>9, <1>10, <1>11, <1>12 DEF r

(* xTaskResumeAll, its second loop: as many ticks as were put off.         *)
LEMMA ReplayTicksSound ==
  ASSUME TaskAssumption, TickAssumption,
         NEW k, NEW live \in SUBSET Task, Sound(k, live), Timed(k), k.suspended = 0
  PROVE  Replays(k, ReplayTicks(k), live)
<1> DEFINE n == k.missedTicks
           Good(s, i) ==
             /\ Sound(s, live) /\ Timed(s) /\ s.missedTicks = n - i
             /\ s.current = k.current /\ s.suspended = k.suspended
             /\ s.missedYield = k.missedYield
             /\ \E D \in SUBSET Blocked(k) : Woken(k, s, D) /\ (i = 0 => D = {})
             /\ Later(k, s, i)
           S == [i \in 0..n |-> {s \in States : Good(s, i)}]
           f == [s \in States |-> ReplayTick(s)]
           Loop(h) == h = [i \in 0..n |-> IF i = 0 THEN k ELSE ReplayTick(h[i - 1])]
           after == CHOOSE h : Loop(h)
<1>1. n \in Nat
  BY DEF Sound, Typed
<1>2. k \in S[0]
  <2>1. k \in States
    BY TypedState DEF Sound
  <2>2. Woken(k, k, {})
    BY DEF Woken
  <2>5. Later(k, k, 0)
    BY <2>2, LaterNot DEF Sound
  <2>3. Good(k, 0)
    BY <1>1, <2>2, <2>5
  <2> HIDE DEF Good
  <2>4. 0 \in 0..n
    BY <1>1
  <2> QED BY <2>1, <2>3, <2>4
<1>3. ASSUME NEW i \in 1..n, NEW s \in S[i - 1] PROVE ReplayTick(s) \in S[i]
  <2> DEFINE r == ReplayTick(s)
  <2>1. i - 1 \in 0..n /\ i \in 0..n /\ i - 1 \in Nat /\ i # 0
    BY <1>1
  <2>2. Good(s, i - 1)
    BY <2>1
  <2>3. PICK D \in SUBSET Blocked(k) : Woken(k, s, D)
    BY <2>2
  <2>4. s.suspended = 0 /\ s.missedTicks > 0
    BY <1>1, <2>1, <2>2
  <2>5. /\ Sound(r, live) /\ Timed(r) /\ r.missedTicks = s.missedTicks - 1
        /\ r.current = s.current /\ r.suspended = s.suspended
        /\ r.missedYield = s.missedYield
        /\ \E E \in SUBSET Blocked(s) : Woken(s, r, E)
        /\ Later(s, r, 1)
    BY <2>2, <2>4, ReplayTickSound
  <2> HIDE DEF r, S, f, Loop, after
  <2>6. PICK E \in SUBSET Blocked(s) : Woken(s, r, E)
    BY <2>5
  <2>7. Blocked(s) \subseteq Blocked(k)
    BY <2>3 DEF Woken
  <2>8. D \cup E \in SUBSET Blocked(k) /\ Woken(k, r, D \cup E)
    BY <2>3, <2>6, <2>7, WokenTwice
  <2>9. r \in States
    BY <2>5, TypedState DEF Sound
  <2>10. r.missedTicks = n - i
    BY <1>1, <2>1, <2>2, <2>5
  <2>12. Later(k, r, i)
    <3>1. Later(k, s, i - 1)
      BY <2>2
    <3>2. Later(k, r, (i - 1) + 1)
      BY <2>1, <2>5, <3>1, LaterTwice DEF Sound
    <3>3. (i - 1) + 1 = i
      BY <2>1
    <3> QED BY <3>2, <3>3
  <2>11. Good(r, i)
    BY <2>1, <2>2, <2>5, <2>8, <2>10, <2>12
  <2> HIDE DEF Good
  <2> QED BY <2>1, <2>9, <2>11 DEF S, r
<1>4. n \in Nat /\ S \in [0..n -> SUBSET States]
  BY <1>1
<1>13. ReplayTicks(k) = Times(n, ReplayTick, k)
  BY DEF ReplayTicks
<1> HIDE DEF Good, S
<1>14. \A s \in S[n] : Good(s, n)
  BY <1>1 DEF S
<1> HIDE DEF n
<1>5. \A i \in 1..n : \A s \in S[i - 1] : f[s] \in S[i]
  BY <1>3, <1>4
<1>6. PICK g \in [0..n -> States] : Chained(g, f, n, S, k)
  <2> HIDE DEF f, Loop, after
  <2>1. Leads(f, n, S)
    BY <1>5 DEF Leads
  <2> QED BY <1>2, <1>4, <2>1, Passes, Zenon
<1>7. Loop(g)
  <2>1. \A i \in 1..n : g[i] = ReplayTick(g[i - 1])
    <3> SUFFICES ASSUME NEW i \in 1..n PROVE g[i] = ReplayTick(g[i - 1])
      OBVIOUS
    <3>1. g[i] = f[g[i - 1]] /\ i - 1 \in 0..n
      BY <1>4, <1>6 DEF Chained
    <3>2. g[i - 1] \in States
      BY <3>1
    <3> HIDE DEF Loop, after
    <3> QED BY <3>1, <3>2, Zenon
  <2> HIDE DEF f
  <2> QED BY <1>4, <1>6, <2>1 DEF Chained
<1>8. Loop(after)
  <2> HIDE DEF Loop
  <2> QED BY <1>7, Zenon
<1>9. ReplayTicks(k) = after[n]
  BY <1>13 DEF Times
<1> HIDE DEF after
<1>10. after[0] = k /\ \A i \in 1..n : after[i] = ReplayTick(after[i - 1])
  <2>1. \A i \in 0..n : after[i] = IF i = 0 THEN k ELSE ReplayTick(after[i - 1])
    BY <1>8, Zenon
  <2> QED BY <1>4, <2>1
<1> HIDE DEF Loop, f
<1>11. after[n] \in S[n]
  <2>1. \A i \in 1..n : after[i - 1] \in S[i - 1] => after[i] \in S[i]
    BY <1>3, <1>10
  <2> QED BY <1>2, <1>4, <1>10, <2>1, Climbs
<1>12. Good(after[n], n)
  BY <1>11, <1>14
<1>15. n - n = 0 /\ n = k.missedTicks
  BY <1>1 DEF n
<1> QED BY <1>9, <1>12, <1>15 DEF Good, Replays


-----------------------------------------------------------------------------
(* What holds of the scheduler between two steps of its callers, and what  *)
(* each kernel function makes of it.  Only a task that lowers its own      *)
(* priority, as the holder of a mutex does when it gives it back, may run  *)
(* for a while although a more important one is ready: the lists are       *)
(* settled all the same, and steady when the most important task runs.     *)
Settled(k, live) ==
  /\ Sound(k, live) /\ Timed(k) /\ IdleReady(k)
  /\ k.suspended = 0 => k.pending = << >> /\ k.missedTicks = 0

Steady(k, live) == Settled(k, live) /\ Highest(k)

Keeps(k, r, live) == Settled(r, live) /\ (Highest(k) => Highest(r))

(* The next task is chosen.                                                *)
LEMMA SwitchSteady ==
  ASSUME TaskAssumption, NEW k, NEW live \in SUBSET Task,
         Sound(k, live), Timed(k), IdleReady(k), k.suspended = 0,
         k.pending = << >>, k.missedTicks = 0
  PROVE  LET r == SwitchContext(k)
         IN  /\ Steady(r, live) /\ Woken(k, r, {}) /\ r.suspended = 0
             /\ r.tick = k.tick /\ r.overflows = k.overflows
             /\ r.current \in live /\ IsRunnable(r, r.current)
<1> DEFINE r == SwitchContext(k)
<1>1. Switches(k, r, live)
  BY SwitchContextSound
<1> HIDE DEF r
<1>2. IdleReady(r)
  BY <1>1, IdleStays DEF Switches
<1> QED BY <1>1, <1>2 DEF Switches, Steady, Settled, r

(* The timer interrupt: the tasks that are due are woken and the next task *)
(* is chosen, or the tick is put off to the end of the suspension.         *)
Strikes(k, r, live) ==
  /\ Keeps(k, r, live) /\ r.suspended = k.suspended
  /\ \/ /\ k.suspended = 0 /\ r.tick = (k.tick + 1) % TickRange
        /\ Highest(r) /\ r.current \in live /\ IsRunnable(r, r.current)
        /\ \E D \in SUBSET Blocked(k) : Woken(k, r, D)
        /\ Later(k, r, 1)
     \/ /\ k.suspended # 0 /\ r.tick = k.tick /\ r.overflows = k.overflows
        /\ r.missedTicks = k.missedTicks + 1
        /\ r.current = k.current /\ SameLists(k, r)

(* timerISR keeps the lists settled.                                       *)
LEMMA TimerIsrSettled ==
  ASSUME TaskAssumption, TickAssumption, NEW k, NEW live \in SUBSET Task, Settled(k, live)
  PROVE  Strikes(k, TimerIsr(k), live)
<1> DEFINE a == IncrementTick(k)
           r == SwitchContext(a)
<1>1. Typed(k) /\ Sound(k, live) /\ Timed(k) /\ IdleReady(k) /\ k.suspended \in Nat
  BY DEF Settled, Sound, Typed
<1>2. TimerIsr(k) = r
  BY DEF TimerIsr
<1>3. CASE k.suspended = 0
  <2>1. Ticks(k, a, live)
    BY <1>1, <1>3, IncrementTickSound
  <2> HIDE DEF a
  <2>2. /\ Sound(a, live) /\ Timed(a) /\ a.tick = (k.tick + 1) % TickRange
        /\ a.suspended = 0 /\ a.missedTicks = 0
    BY <1>3, <2>1 DEF Ticks, Settled
  <2>3. PICK D \in SUBSET Blocked(k) : Woken(k, a, D)
    BY <2>1 DEF Ticks
  <2>4. IdleReady(a)
    BY <1>1, <2>3, IdleStays
  <2>5. a.pending = << >>
    <3>1. k.pending = << >> /\ k.pending \in TaskList /\ a.pending \in TaskList
      BY <1>1, <1>3, <2>2 DEF Settled, Sound, Typed
    <3>2. ToSet(a.pending) = {}
      BY <2>3, <3>1, ListIs DEF Woken
    <3> QED BY <3>1, <3>2, ListIs
  <2>6. /\ Steady(r, live) /\ Woken(a, r, {}) /\ r.suspended = 0
        /\ r.tick = a.tick /\ r.overflows = a.overflows
        /\ r.current \in live /\ IsRunnable(r, r.current)
    BY <2>2, <2>4, <2>5, SwitchSteady
  <2> HIDE DEF r
  <2>7. Woken(k, r, D)
    <3>1. Woken(k, r, D \cup {})
      BY <2>3, <2>6, WokenTwice
    <3> QED BY <3>1
  <2>8. Later(k, r, 1)
    <3>1. Later(k, a, 1) /\ Typed(a)
      BY <2>1, <2>2 DEF Ticks, Sound
    <3>2. Later(a, r, 0)
      BY <2>2, <2>6, <3>1, LaterNot
    <3>3. Later(k, r, 1 + 0)
      BY <1>1, <3>1, <3>2, LaterTwice
    <3> QED BY <3>3
  <2> QED BY <1>2, <1>3, <2>2, <2>6, <2>7, <2>8 DEF Strikes, Steady, Keeps
<1>4. CASE k.suspended # 0
  <2>1. a = [k EXCEPT !.missedTicks = @ + 1]
    BY <1>1, <1>4 DEF IncrementTick
  <2>2. k = [f \in Parts |-> k[f]]
    BY <1>1 DEF Typed, IsRecord
  <2> HIDE DEF a
  <2>3. /\ IsRecord(a) /\ SameLists(k, a) /\ a.missedTicks = k.missedTicks + 1
        /\ a.current = k.current /\ a.suspended = k.suspended
        /\ a.missedYield = k.missedYield /\ a.tick = k.tick
        /\ a.overflows = k.overflows /\ a.nextUnblock = k.nextUnblock
        /\ a.swapFailed = k.swapFailed
    BY <2>1, <2>2 DEF Parts, IsRecord, SameLists
  <2>4. Typed(a)
    <3>1. k.missedTicks + 1 \in Nat
      BY <1>1 DEF Typed
    <3> QED BY <1>1, <2>3, <3>1 DEF Typed, SameLists
  <2>5. /\ SameLists(a, r) /\ Typed(r) /\ r.current = a.current /\ r.suspended = a.suspended
        /\ r.tick = a.tick /\ r.overflows = a.overflows /\ r.nextUnblock = a.nextUnblock
        /\ r.swapFailed = a.swapFailed /\ r.missedTicks = a.missedTicks
    BY <1>4, <2>3, <2>4, SwitchContextLater
  <2> HIDE DEF r
  <2>6. SameLists(k, r)
    BY <2>3, <2>5 DEF SameLists
  <2>7. Sound(r, live) /\ IdleReady(r)
    BY <1>1, <2>5, <2>6, SameListsSound
  <2>8. /\ r.current = k.current /\ r.suspended = k.suspended /\ r.tick = k.tick
        /\ r.overflows = k.overflows /\ r.nextUnblock = k.nextUnblock
        /\ r.swapFailed = k.swapFailed /\ r.missedTicks = k.missedTicks + 1
    BY <2>3, <2>5
  <2>9. Timed(r)
    BY <1>1, <2>6, <2>8 DEF Timed, InOrder, NotOverdue, NextTurn, SameLists
  <2>10. Highest(k) => Highest(r)
    BY <2>6, <2>8 DEF Highest, SameLists
  <2> QED BY <1>2, <1>4, <2>6, <2>7, <2>8, <2>9, <2>10 DEF Strikes, Settled, Keeps
<1> QED BY <1>3, <1>4

(* And it keeps the scheduler steady.                                      *)
LEMMA TimerIsrSteady ==
  ASSUME TaskAssumption, TickAssumption, NEW k, NEW live \in SUBSET Task, Steady(k, live)
  PROVE  Strikes(k, TimerIsr(k), live) /\ Steady(TimerIsr(k), live)
<1>1. Strikes(k, TimerIsr(k), live)
  BY TimerIsrSettled DEF Steady
<1> QED BY <1>1 DEF Strikes, Keeps, Steady

(* An event wakes the first of its waiters; the caller goes on if it is    *)
(* more important, or yields.                                              *)
LEMMA EventSettled ==
  ASSUME TaskAssumption, TickAssumption, NEW k, NEW live \in SUBSET Task, Settled(k, live),
         k.suspended = 0, NEW e \in EventLists, k.waiting[e] # << >>
  PROVE  LET r == RemoveFromEventList(k, e)
             s == SwitchContext(r)
         IN  /\ Woken(k, r, {Head(k.waiting[e])}) /\ Still(k, r)
             /\ Settled(r, live) /\ (Highest(k) /\ ~UnblocksHigher(k, e) => Highest(r))
             /\ Steady(s, live) /\ s.suspended = 0 /\ s.tick = k.tick
             /\ s.overflows = k.overflows /\ Woken(k, s, {Head(k.waiting[e])})
             /\ s.current \in live /\ IsRunnable(s, s.current)
<1> DEFINE t == Head(k.waiting[e])
           r == RemoveFromEventList(k, e)
           s == SwitchContext(r)
<1>1. /\ Sound(k, live) /\ Timed(k) /\ IdleReady(k)
      /\ k.pending = << >> /\ k.missedTicks = 0
  BY DEF Settled
<1>2. /\ Typed(k) /\ Events(k) /\ k.waiting[e] \in TaskList
      /\ k.pending \in TaskList /\ k.priority \in [Task -> Priorities]
  BY <1>1 DEF Sound, Typed
<1>3. Wakes(k, r, t)
  BY <1>2, EventWakes
<1>4. t \in ToSet(k.waiting[e]) /\ t \in Task
  BY <1>2, TailList
<1>5. t \in Blocked(k)
  BY <1>1, <1>4 DEF Sound, Waiters
<1>12. UnblocksHigher(k, e) <=> k.priority[t] >= k.priority[k.current]
  BY DEF UnblocksHigher
<1> HIDE DEF t, r
<1>6. /\ Sound(r, live) /\ Woken(k, r, {t}) /\ Timed(r)
  BY <1>1, <1>3, <1>5, WakesSound, WakesTimed
<1>7. Still(k, r)
  BY <1>3 DEF Wakes, Still
<1>8. IdleReady(r)
  BY <1>1, <1>6, IdleStays
<1>9. r.pending = << >> /\ r.missedTicks = 0 /\ r.suspended = 0
  <2>1. r.pending \in TaskList /\ ToSet(r.pending) = ToSet(k.pending) \ {t}
    BY <1>6 DEF Sound, Typed, Woken
  <2>2. ToSet(r.pending) = {}
    BY <1>1, <1>2, <2>1, ListIs
  <2> QED BY <1>1, <1>7, <2>1, <2>2, ListIs DEF Still
<1>10. /\ Steady(s, live) /\ Woken(r, s, {}) /\ s.suspended = 0
       /\ s.tick = r.tick /\ s.overflows = r.overflows
       /\ s.current \in live /\ IsRunnable(s, s.current)
  BY <1>6, <1>8, <1>9, SwitchSteady
<1> HIDE DEF s
<1>11. Woken(k, s, {t})
  <2>1. Woken(k, s, {t} \cup {})
    BY <1>6, <1>10, WokenTwice
  <2> QED BY <2>1
<1>13. ASSUME Highest(k), ~UnblocksHigher(k, e) PROVE Highest(r)
  <2>1. /\ k.priority[t] \in Int /\ k.priority[k.current] \in Int
        /\ k.priority[t] < k.priority[k.current]
    BY <1>2, <1>4, <1>12, <1>13 DEF Typed, Priorities
  <2> SUFFICES ASSUME NEW p \in Priorities, r.ready[p] # << >>
               PROVE  p <= k.priority[k.current]
    BY <1>6, <1>7 DEF Highest, Still, Woken
  <2>2. r.ready[p] \in TaskList /\ k.ready[p] \in TaskList
    BY <1>2, <1>6 DEF Sound, Typed
  <2>3. ToSet(r.ready[p]) = ToSet(k.ready[p]) \cup {u \in {t} : k.priority[u] = p}
    BY <1>6 DEF Woken
  <2>4. CASE p = k.priority[t]
    BY <2>1, <2>4
  <2>5. CASE p # k.priority[t]
    <3>1. k.ready[p] # << >>
      BY <2>2, <2>3, <2>5, ListIs
    <3> QED BY <1>13, <3>1 DEF Highest
  <2> QED BY <2>4, <2>5
<1>14. s.tick = k.tick /\ s.overflows = k.overflows
  BY <1>7, <1>10 DEF Still
<1>15. Settled(r, live)
  BY <1>6, <1>8, <1>9 DEF Settled
<1> QED BY <1>6, <1>7, <1>10, <1>11, <1>13, <1>14, <1>15 DEF t, r, s


-----------------------------------------------------------------------------
(* The running task goes to sleep: it leaves its ready list for the        *)
(* delayed list of this turn of the count or of the next.                  *)
Sleeps(k, r, ticks) ==
  /\ Still(k, r) /\ r.waiting = k.waiting /\ r.pending = k.pending
  /\ r.priority = k.priority /\ r.eventKey = k.eventKey
  /\ r.wake = [k.wake EXCEPT ![k.current] = (k.tick + ticks) % TickRange]
  /\ Blocked(r) = Blocked(k) \cup {k.current}
  /\ \A p \in Priorities : ToSet(r.ready[p]) = ToSet(k.ready[p]) \ {k.current}

(* A wake time is less than one turn of the count ahead: it is beyond the  *)
(* wrap exactly when it is below the count.                                *)
LEMMA WakeTime ==
  ASSUME TickAssumption, NEW tick \in 0..MaxDelay, NEW ticks \in 1..MaxDelay
  PROVE  /\ (tick + ticks) % TickRange \in 0..MaxDelay
         /\ (tick + ticks) % TickRange < tick \/ tick < (tick + ticks) % TickRange
<1> DEFINE R == TickRange
<1>1. R \in Nat /\ R > 1 /\ MaxDelay = R - 1
  BY DEF TickAssumption, MaxDelay
<1> HIDE DEF R
<1>2. CASE tick + ticks < R
  <2>1. (tick + ticks) % R = tick + ticks
    BY <1>1, <1>2
  <2> QED BY <1>1, <1>2, <2>1 DEF R
<1>3. CASE ~(tick + ticks < R)
  <2>1. (tick + ticks) % R = tick + ticks - R
    BY <1>1, <1>3
  <2> QED BY <1>1, <1>3, <2>1 DEF R
<1> QED BY <1>2, <1>3

(* The caller goes from its ready list to the delayed list its wake time   *)
(* belongs to.                                                             *)
LEMMA DelayCurrentSound ==
  ASSUME TaskAssumption, TickAssumption, NEW k, NEW live \in SUBSET Task,
         Typed(k), Homed(k, live), Events(k), Timed(k), IdleReady(k),
         k.current \in live, k.current # Idle, IsRunnable(k, k.current),
         \A e \in EventLists : ToSet(k.waiting[e]) \subseteq Blocked(k) \cup {k.current},
         ToSet(k.pending) \subseteq Blocked(k) \cup {k.current},
         NEW ticks \in 1..MaxDelay
  PROVE  LET r == DelayCurrent(k, ticks)
         IN  /\ Sound(r, live) /\ Timed(r) /\ IdleReady(r) /\ (Highest(k) => Highest(r))
             /\ Sleeps(k, r, ticks)
<1> DEFINE c == k.current
           time == (k.tick + ticks) % TickRange
           wake == [k.wake EXCEPT ![c] = time]
           a == RemoveGenericItem(k, c)
           later == time < k.tick
           r == DelayCurrent(k, ticks)
<1>1. /\ k = [f \in Parts |-> k[f]] /\ k.ready \in [Priorities -> TaskList] /\ c \in Task
      /\ k.delayed \in TaskList /\ k.overflowed \in TaskList /\ k.tick \in 0..MaxDelay
      /\ k.wake \in [Task -> 0..MaxDelay] /\ k.nextUnblock \in 0..MaxDelay
      /\ k.priority \in [Task -> Priorities]
  BY DEF Typed, IsRecord
<1>2. time \in 0..MaxDelay /\ (later \/ k.tick < time)
  BY <1>1, WakeTime
<1>3. MaxDelay \in Nat
  BY DEF TickAssumption, MaxDelay
<1>4. k.priority[c] \in Priorities /\ c \in ToSet(k.ready[k.priority[c]])
  BY <1>1 DEF IsRunnable
<1>5. c \notin Blocked(k) /\ c \notin ToSet(k.delayed) /\ c \notin ToSet(k.overflowed)
  BY <1>4 DEF Homed, Blocked
<1>6. Unlink(k.delayed, c) = k.delayed /\ Unlink(k.overflowed, c) = k.overflowed
  BY <1>1, <1>5, UnlinkList
<1> HIDE DEF c
<1>7. /\ a = [f \in Parts |-> a[f]]
      /\ a.ready = [p \in Priorities |-> Unlink(k.ready[p], c)]
      /\ a.wake = [k.wake EXCEPT ![c] = 0]
      /\ a.delayed = Unlink(k.delayed, c) /\ a.overflowed = Unlink(k.overflowed, c)
      /\ a.top = k.top /\ a.current = k.current /\ a.suspended = k.suspended
      /\ a.pending = k.pending /\ a.missedTicks = k.missedTicks /\ a.missedYield = k.missedYield
      /\ a.waiting = k.waiting /\ a.eventKey = k.eventKey /\ a.priority = k.priority
      /\ a.tick = k.tick /\ a.overflows = k.overflows /\ a.nextUnblock = k.nextUnblock
      /\ a.swapFailed = k.swapFailed
  BY <1>1 DEF RemoveGenericItem, Parts
<1>8. r = AddCurrentTaskToDelayedList(a, time)
  BY DEF DelayCurrent, c
<1>9. [a.wake EXCEPT ![c] = time] = wake
  <2>1. a.wake = [k.wake EXCEPT ![c] = 0]
    BY <1>7
  <2> HIDE DEF a
  <2> QED BY <1>1, <2>1
<1> HIDE DEF a, time
<1> DEFINE b == [a EXCEPT !.wake[c] = time]
<1>10. /\ b = [f \in Parts |-> b[f]] /\ b.wake = wake /\ b.ready = a.ready
       /\ b.delayed = k.delayed /\ b.overflowed = k.overflowed
       /\ b.top = k.top /\ b.current = k.current /\ b.suspended = k.suspended
       /\ b.pending = k.pending /\ b.missedTicks = k.missedTicks /\ b.missedYield = k.missedYield
       /\ b.waiting = k.waiting /\ b.eventKey = k.eventKey /\ b.priority = k.priority
       /\ b.tick = k.tick /\ b.overflows = k.overflows /\ b.nextUnblock = k.nextUnblock
       /\ b.swapFailed = k.swapFailed
  <2> HIDE DEF wake
  <2> QED BY <1>6, <1>7, <1>9 DEF Parts
<1>11. r = IF time < k.tick
           THEN [b EXCEPT !.overflowed = InsertSorted(@, b.wake, c)]
           ELSE [b EXCEPT !.delayed = InsertSorted(@, b.wake, c),
                          !.nextUnblock = IF time < @ THEN time ELSE @]
  BY <1>7, <1>8 DEF AddCurrentTaskToDelayedList, c
<1> HIDE DEF b, r, wake
<1>12. /\ IsRecord(r) /\ r.wake = wake /\ r.ready = a.ready
       /\ r.delayed = IF later THEN k.delayed ELSE InsertSorted(k.delayed, wake, c)
       /\ r.overflowed = IF later THEN InsertSorted(k.overflowed, wake, c) ELSE k.overflowed
       /\ r.nextUnblock = IF ~later /\ time < k.nextUnblock THEN time ELSE k.nextUnblock
       /\ r.top = k.top /\ r.current = k.current /\ r.suspended = k.suspended
       /\ r.pending = k.pending /\ r.missedTicks = k.missedTicks /\ r.missedYield = k.missedYield
       /\ r.waiting = k.waiting /\ r.eventKey = k.eventKey /\ r.priority = k.priority
       /\ r.tick = k.tick /\ r.overflows = k.overflows /\ r.swapFailed = k.swapFailed
  <2>1. CASE later
    BY <1>10, <1>11, <2>1 DEF Parts, IsRecord
  <2>2. CASE ~later
    BY <1>10, <1>11, <2>2 DEF Parts, IsRecord
  <2> QED BY <2>1, <2>2
<1>13. /\ wake \in [Task -> Int] /\ wake \in [Task -> 0..MaxDelay] /\ wake[c] = time
       /\ \A t \in Task : t # c => wake[t] = k.wake[t]
  BY <1>1, <1>2, <1>3 DEF wake
<1>14. /\ \A t \in ToSet(k.delayed) : wake[t] = k.wake[t] /\ t \in Task
       /\ \A t \in ToSet(k.overflowed) : wake[t] = k.wake[t] /\ t \in Task
  BY <1>1, <1>5, <1>13, ListIs
<1>15. Sorted(k.delayed, wake) /\ Sorted(k.overflowed, wake)
  <2>1. /\ \A i \in 1..Len(k.delayed) : k.delayed[i] \in ToSet(k.delayed)
        /\ \A i \in 1..Len(k.overflowed) : k.overflowed[i] \in ToSet(k.overflowed)
    BY <1>1, ListIs
  <2>2. Sorted(k.delayed, k.wake) /\ Sorted(k.overflowed, k.wake)
    BY DEF Timed, InOrder
  <2> QED BY <1>14, <2>1, <2>2 DEF Sorted
<1>16. IsInjective(k.delayed) /\ IsInjective(k.overflowed)
  BY DEF Homed
<1>17. /\ r.delayed \in TaskList /\ IsInjective(r.delayed) /\ Sorted(r.delayed, wake)
       /\ ToSet(r.delayed) = IF later THEN ToSet(k.delayed) ELSE ToSet(k.delayed) \cup {c}
       /\ r.overflowed \in TaskList /\ IsInjective(r.overflowed) /\ Sorted(r.overflowed, wake)
       /\ ToSet(r.overflowed) = IF later THEN ToSet(k.overflowed) \cup {c}
                                ELSE ToSet(k.overflowed)
  <2>1. /\ InsertSorted(k.delayed, wake, c) \in TaskList
        /\ ToSet(InsertSorted(k.delayed, wake, c)) = ToSet(k.delayed) \cup {c}
        /\ IsInjective(InsertSorted(k.delayed, wake, c))
        /\ Sorted(InsertSorted(k.delayed, wake, c), wake)
    BY <1>1, <1>5, <1>13, <1>15, <1>16, InsertSortedList
  <2>2. /\ InsertSorted(k.overflowed, wake, c) \in TaskList
        /\ ToSet(InsertSorted(k.overflowed, wake, c)) = ToSet(k.overflowed) \cup {c}
        /\ IsInjective(InsertSorted(k.overflowed, wake, c))
        /\ Sorted(InsertSorted(k.overflowed, wake, c), wake)
    BY <1>1, <1>5, <1>13, <1>15, <1>16, InsertSortedList
  <2>3. CASE later
    BY <1>1, <1>12, <1>15, <1>16, <2>2, <2>3
  <2>4. CASE ~later
    BY <1>1, <1>12, <1>15, <1>16, <2>1, <2>4
  <2> QED BY <2>3, <2>4
<1> HIDE DEF later
<1>18. Blocked(r) = Blocked(k) \cup {c}
  BY <1>17 DEF Blocked
<1>19. ASSUME NEW p \in Priorities
       PROVE  /\ r.ready[p] \in TaskList /\ IsInjective(r.ready[p])
              /\ ToSet(r.ready[p]) = ToSet(k.ready[p]) \ {c}
  <2>1. k.ready[p] \in TaskList /\ IsInjective(k.ready[p])
    BY <1>1 DEF Homed
  <2>2. r.ready[p] = Unlink(k.ready[p], c)
    BY <1>7, <1>12
  <2> QED BY <2>1, <2>2, UnlinkList
<1>20. Typed(r)
  <2>1. r.ready \in [Priorities -> TaskList]
    <3>1. r.ready = [p \in Priorities |-> r.ready[p]]
      BY <1>7, <1>12
    <3> QED BY <1>19, <3>1
  <2>2. r.nextUnblock \in 0..MaxDelay
    BY <1>1, <1>2, <1>12
  <2>3. /\ k.top \in Priorities /\ k.current \in Task
        /\ k.suspended \in Nat /\ k.missedTicks \in Nat /\ k.missedYield \in BOOLEAN
        /\ k.pending \in TaskList /\ k.waiting \in [EventLists -> TaskList]
        /\ k.eventKey \in [Task -> Int] /\ k.priority \in [Task -> Priorities]
        /\ k.tick \in 0..MaxDelay /\ k.overflows \in 0..OverflowRange - 1
        /\ k.swapFailed \in BOOLEAN
    BY DEF Typed
  <2> QED BY <1>12, <1>13, <1>17, <2>1, <2>2, <2>3 DEF Typed
<1>21. Homed(r, live)
  <2>1. \A p \in Priorities : \A t \in ToSet(r.ready[p]) :
          t \in live /\ t \notin Blocked(r) /\ r.priority[t] = p /\ p <= r.top
    BY <1>12, <1>18, <1>19 DEF Homed
  <2>2. \A t \in ToSet(r.delayed) : t \in live /\ t \notin ToSet(r.overflowed)
    BY <1>5, <1>17 DEF Homed, c
  <2>3. \A t \in ToSet(r.overflowed) : t \in live
    BY <1>17 DEF Homed, c
  <2>4. \A t \in live : t \in Blocked(r) \/ t \in ToSet(r.ready[r.priority[t]])
    <3> SUFFICES ASSUME NEW t \in live, t \notin Blocked(r)
                 PROVE  t \in ToSet(r.ready[k.priority[t]])
      BY <1>12
    <3>1. t \in ToSet(k.ready[k.priority[t]]) /\ t # c /\ k.priority[t] \in Priorities
      BY <1>1, <1>18 DEF Homed
    <3> QED BY <1>19, <3>1
  <2> QED BY <1>17, <1>19, <2>1, <2>2, <2>3, <2>4 DEF Homed
<1>22. Events(r) /\ Waiters(r)
  <2>1. Events(r)
    BY <1>12 DEF Events, ByRank
  <2>2. Waiters(r)
    BY <1>12, <1>18 DEF Waiters, c
  <2> QED BY <2>1, <2>2
<1>23. Timed(r)
  <2>1. NotOverdue(r)
    <3> SUFFICES ASSUME NEW t \in ToSet(r.delayed)
                 PROVE  k.tick < wake[t] /\ r.nextUnblock <= wake[t]
      BY <1>12 DEF NotOverdue
    <3>1. CASE t \in ToSet(k.delayed)
      <4>1. k.tick < wake[t] /\ k.nextUnblock <= wake[t] /\ wake[t] \in 0..MaxDelay
        BY <1>13, <1>14, <3>1 DEF Timed, NotOverdue
      <4> QED BY <1>1, <1>2, <1>3, <1>12, <4>1
    <3>2. CASE t = c /\ ~later
      <4>1. wake[t] = time /\ k.tick < time
        BY <1>2, <1>13, <3>2 DEF later
      <4> QED BY <1>1, <1>2, <1>3, <1>12, <3>2, <4>1
    <3> QED BY <1>17, <3>1, <3>2
  <2>2. NextTurn(r)
    <3> SUFFICES ASSUME NEW t \in ToSet(r.overflowed) PROVE wake[t] < k.tick
      BY <1>12 DEF NextTurn
    <3>1. CASE t \in ToSet(k.overflowed)
      BY <1>14, <3>1 DEF Timed, NextTurn
    <3>2. CASE t = c /\ later
      BY <1>13, <3>2 DEF later
    <3> QED BY <1>17, <3>1, <3>2
  <2> QED BY <1>12, <1>17, <2>1, <2>2 DEF Timed, InOrder
<1>24. IdleReady(r)
  <2>1. 0 \in Priorities
    BY DEF TaskAssumption, Priorities
  <2> QED BY <1>12, <1>19, <2>1 DEF IdleReady, c
<1>25. ASSUME Highest(k) PROVE Highest(r)
  <2> SUFFICES ASSUME NEW p \in Priorities, r.ready[p] # << >> PROVE p <= k.priority[c]
    BY <1>12 DEF Highest, c
  <2>1. k.ready[p] # << >>
    <3>1. k.ready[p] \in TaskList
      BY <1>1
    <3>2. ToSet(r.ready[p]) # {}
      BY <1>19, ListIs
    <3>3. ToSet(k.ready[p]) # {}
      BY <1>19, <3>2
    <3> QED BY <3>1, <3>3, ListIs
  <2> QED BY <1>25, <2>1 DEF Highest, c
<1>26. Sleeps(k, r, ticks)
  BY <1>12, <1>18, <1>19 DEF Sleeps, Still, c, wake, time
<1> QED BY <1>20, <1>21, <1>22, <1>23, <1>24, <1>25, <1>26 DEF Sound, r

(* Waiting for an event: the running task goes into the event list, by its *)
(* priority, and to sleep.                                                 *)
Places(k, r, e, ticks) ==
  /\ Still(k, r) /\ r.pending = k.pending /\ r.priority = k.priority /\ r.eventKey = k.eventKey
  /\ r.wake = [k.wake EXCEPT ![k.current] = (k.tick + ticks) % TickRange]
  /\ Blocked(r) = Blocked(k) \cup {k.current}
  /\ \A p \in Priorities : ToSet(r.ready[p]) = ToSet(k.ready[p]) \ {k.current}
  /\ ToSet(r.waiting[e]) = ToSet(k.waiting[e]) \cup {k.current}
  /\ \A f \in EventLists : f # e => r.waiting[f] = k.waiting[f]

(* vTaskPlaceOnEventList while the scheduler is suspended.                 *)
LEMMA PlaceOnEventListSettled ==
  ASSUME TaskAssumption, TickAssumption, NEW k, NEW live \in SUBSET Task, Settled(k, live),
         k.current \in live, k.current # Idle, IsRunnable(k, k.current),
         NEW e \in EventLists, NEW ticks \in 1..MaxDelay
  PROVE  /\ Keeps(k, PlaceOnEventList(k, e, ticks), live)
         /\ Places(k, PlaceOnEventList(k, e, ticks), e, ticks)
<1> DEFINE c == k.current
           new == InsertSorted(k.waiting[e], k.eventKey, c)
           a == [k EXCEPT !.waiting[e] = new]
           r == DelayCurrent(a, ticks)
<1>1. /\ Typed(k) /\ Homed(k, live) /\ Events(k) /\ Waiters(k)
      /\ Timed(k) /\ IdleReady(k)
  BY DEF Settled, Sound
<1>2. /\ k = [f \in Parts |-> k[f]] /\ k.waiting \in [EventLists -> TaskList] /\ c \in Task
      /\ k.eventKey \in [Task -> Int] /\ k.priority \in [Task -> Priorities]
      /\ k.pending \in TaskList
  BY <1>1 DEF Typed, IsRecord
<1>3. c \notin Blocked(k)
  <2>1. k.priority[c] \in Priorities /\ c \in ToSet(k.ready[k.priority[c]])
    BY <1>2 DEF IsRunnable
  <2> QED BY <1>1, <2>1 DEF Homed
<1>4. (\A f \in EventLists : c \notin ToSet(k.waiting[f])) /\ c \notin ToSet(k.pending)
  BY <1>1, <1>3 DEF Waiters
<1>5. /\ new \in TaskList /\ ToSet(new) = ToSet(k.waiting[e]) \cup {c} /\ IsInjective(new)
      /\ Sorted(new, k.eventKey)
  <2>1. /\ k.waiting[e] \in TaskList /\ IsInjective(k.waiting[e]) /\ c \notin ToSet(k.waiting[e])
        /\ Sorted(k.waiting[e], k.eventKey)
    BY <1>1, <1>2, <1>4 DEF Events, ByRank
  <2> QED BY <1>2, <2>1, InsertSortedList
<1>6. PlaceOnEventList(k, e, ticks) = r
  <2>1. a.current = k.current /\ a.tick = k.tick
    BY <1>2 DEF Parts
  <2>2. a = [k EXCEPT !.waiting[e] = InsertSorted(@, k.eventKey, k.current)]
    OBVIOUS
  <2> HIDE DEF a
  <2> QED BY <2>1, <2>2 DEF PlaceOnEventList, DelayCurrent
<1> HIDE DEF new
<1>7. /\ IsRecord(a) /\ a.waiting = [k.waiting EXCEPT ![e] = new]
      /\ a.ready = k.ready /\ a.top = k.top /\ a.pending = k.pending
      /\ a.delayed = k.delayed /\ a.overflowed = k.overflowed /\ a.wake = k.wake
      /\ a.eventKey = k.eventKey /\ a.priority = k.priority
      /\ a.current = k.current /\ a.suspended = k.suspended
      /\ a.missedTicks = k.missedTicks /\ a.missedYield = k.missedYield
      /\ a.tick = k.tick /\ a.overflows = k.overflows /\ a.nextUnblock = k.nextUnblock
      /\ a.swapFailed = k.swapFailed
  BY <1>2 DEF Parts, IsRecord
<1> HIDE DEF a, c
<1>8. \A f \in EventLists : a.waiting[f] = IF f = e THEN new ELSE k.waiting[f]
  BY <1>2, <1>7
<1>9. Typed(a)
  <2>1. a.waiting \in [EventLists -> TaskList]
    BY <1>2, <1>5, <1>7
  <2>2. /\ k.ready \in [Priorities -> TaskList] /\ k.top \in Priorities /\ k.current \in Task
        /\ k.suspended \in Nat /\ k.missedTicks \in Nat /\ k.missedYield \in BOOLEAN
        /\ k.pending \in TaskList /\ k.delayed \in TaskList /\ k.overflowed \in TaskList
        /\ k.wake \in [Task -> 0..MaxDelay]
        /\ k.eventKey \in [Task -> Int] /\ k.priority \in [Task -> Priorities]
        /\ k.tick \in 0..MaxDelay /\ k.overflows \in 0..OverflowRange - 1
        /\ k.nextUnblock \in 0..MaxDelay /\ k.swapFailed \in BOOLEAN
    BY <1>1 DEF Typed
  <2> QED BY <1>7, <2>1, <2>2 DEF Typed
<1>10. Blocked(a) = Blocked(k)
  BY <1>7 DEF Blocked
<1>11. Homed(a, live)
  BY <1>1, <1>7, <1>10 DEF Homed
<1>12. Events(a)
  <2>1. /\ IsInjective(k.pending) /\ \A f \in EventLists : IsInjective(k.waiting[f])
        /\ \A f, g \in EventLists : f # g => ToSet(k.waiting[f]) \cap ToSet(k.waiting[g]) = {}
        /\ \A f \in EventLists : ToSet(k.waiting[f]) \cap ToSet(k.pending) = {}
    BY <1>1 DEF Events
  <2>2. \A f \in EventLists : ToSet(a.waiting[f]) \subseteq ToSet(k.waiting[f]) \cup {c}
    BY <1>5, <1>8
  <2>3. \A f \in EventLists : f # e => a.waiting[f] = k.waiting[f]
    BY <1>8
  <2>4. \A f, g \in EventLists : f # g => ToSet(a.waiting[f]) \cap ToSet(a.waiting[g]) = {}
    <3> SUFFICES ASSUME NEW f \in EventLists, NEW g \in EventLists, f # g
                 PROVE  ToSet(a.waiting[f]) \cap ToSet(a.waiting[g]) = {}
      OBVIOUS
    <3>1. ToSet(k.waiting[f]) \cap ToSet(k.waiting[g]) = {}
      BY <2>1
    <3> QED BY <1>4, <2>2, <2>3, <3>1
  <2>5. \A f \in EventLists : ToSet(a.waiting[f]) \cap ToSet(a.pending) = {}
    <3> SUFFICES ASSUME NEW f \in EventLists
                 PROVE  ToSet(a.waiting[f]) \cap ToSet(k.pending) = {}
      BY <1>7
    <3> QED BY <1>4, <2>1, <2>2
  <2>6. \A f \in EventLists : IsInjective(a.waiting[f])
    BY <1>5, <1>8, <2>1
  <2>7. ByRank(a)
    BY <1>1, <1>5, <1>7, <1>8 DEF Events, ByRank
  <2> QED BY <1>7, <2>1, <2>4, <2>5, <2>6, <2>7 DEF Events
<1>13. /\ Timed(a) /\ IdleReady(a) /\ (Highest(k) => Highest(a))
       /\ a.current \in live /\ a.current # Idle /\ IsRunnable(a, a.current)
  BY <1>1, <1>7 DEF Timed, InOrder, NotOverdue, NextTurn, IdleReady, Highest, IsRunnable
<1>14. /\ \A f \in EventLists : ToSet(a.waiting[f]) \subseteq Blocked(a) \cup {a.current}
       /\ ToSet(a.pending) \subseteq Blocked(a) \cup {a.current}
  <2>1. ToSet(k.pending) \subseteq Blocked(k) \cup {c}
    BY <1>1 DEF Waiters
  <2>2. \A f \in EventLists : ToSet(a.waiting[f]) \subseteq Blocked(k) \cup {c}
    BY <1>1, <1>5, <1>8 DEF Waiters
  <2> QED BY <1>7, <1>10, <2>1, <2>2 DEF c
<1>15. /\ Sound(r, live) /\ Timed(r) /\ IdleReady(r) /\ (Highest(a) => Highest(r)) /\ Sleeps(a, r, ticks)
  BY <1>9, <1>11, <1>12, <1>13, <1>14, DelayCurrentSound
<1> HIDE DEF r
<1>16. Keeps(k, r, live)
  BY <1>7, <1>13, <1>15 DEF Settled, Keeps, Sleeps, Still
<1>17. Places(k, r, e, ticks)
  <2>1. /\ Still(k, r) /\ r.pending = k.pending /\ r.priority = k.priority
        /\ r.eventKey = k.eventKey
        /\ r.wake = [k.wake EXCEPT ![k.current] = (k.tick + ticks) % TickRange]
        /\ Blocked(r) = Blocked(k) \cup {k.current}
        /\ \A p \in Priorities : ToSet(r.ready[p]) = ToSet(k.ready[p]) \ {k.current}
        /\ r.waiting = a.waiting
    BY <1>7, <1>10, <1>15 DEF Sleeps, Still
  <2>2. /\ ToSet(a.waiting[e]) = ToSet(k.waiting[e]) \cup {k.current}
        /\ \A f \in EventLists : f # e => a.waiting[f] = k.waiting[f]
    BY <1>5, <1>8 DEF c
  <2> QED BY <2>1, <2>2 DEF Places
<1> QED BY <1>6, <1>16, <1>17

(* A steady scheduler stays so: the caller is still the one that runs.     *)
LEMMA PlaceOnEventListSteady ==
  ASSUME TaskAssumption, TickAssumption, NEW k, NEW live \in SUBSET Task, Steady(k, live),
         k.current \in live, k.current # Idle, IsRunnable(k, k.current),
         NEW e \in EventLists, NEW ticks \in 1..MaxDelay
  PROVE  /\ Steady(PlaceOnEventList(k, e, ticks), live)
         /\ Places(k, PlaceOnEventList(k, e, ticks), e, ticks)
  BY PlaceOnEventListSettled DEF Steady, Keeps

(* An event while the scheduler is suspended: the first waiter is          *)
(* remembered as pending.                                                  *)
SameHomes(k, r) ==
  /\ r.ready = k.ready /\ r.top = k.top
  /\ r.delayed = k.delayed /\ r.overflowed = k.overflowed /\ r.wake = k.wake
  /\ r.eventKey = k.eventKey /\ r.priority = k.priority

Pends(k, r, e) ==
  /\ Still(k, r) /\ SameHomes(k, r) /\ r.nextUnblock = k.nextUnblock
  /\ r.waiting = [k.waiting EXCEPT ![e] = Tail(k.waiting[e])]
  /\ r.pending = Append(k.pending, Head(k.waiting[e]))

(* An event during suspension puts the first waiter into the pending list. *)
LEMMA EventPends ==
  ASSUME NEW k, NEW live \in SUBSET Task, Sound(k, live),
         k.suspended # 0, NEW e \in EventLists, k.waiting[e] # << >>
  PROVE  /\ Sound(RemoveFromEventList(k, e), live)
         /\ Pends(k, RemoveFromEventList(k, e), e)
<1> DEFINE t == Head(k.waiting[e])
           rest == Tail(k.waiting[e])
           r == RemoveFromEventList(k, e)
<1>1. /\ k = [f \in Parts |-> k[f]] /\ k.waiting \in [EventLists -> TaskList]
      /\ k.pending \in TaskList /\ k.suspended \in Nat /\ k.waiting[e] \in TaskList
  <2>1. k = [f \in Parts |-> k[f]]
    BY Zenon DEF Sound, Typed, IsRecord
  <2>2. k.waiting \in [EventLists -> TaskList] /\ k.pending \in TaskList /\ k.suspended \in Nat
    BY DEF Sound, Typed
  <2> QED BY <2>1, <2>2
<1>2. /\ IsInjective(k.pending) /\ \A f \in EventLists : IsInjective(k.waiting[f])
      /\ \A f, g \in EventLists : f # g => ToSet(k.waiting[f]) \cap ToSet(k.waiting[g]) = {}
      /\ \A f \in EventLists : ToSet(k.waiting[f]) \cap ToSet(k.pending) = {}
  BY DEF Sound, Events
<1>3. /\ t \in Task /\ t \in ToSet(k.waiting[e]) /\ rest \in TaskList /\ IsInjective(rest)
      /\ ToSet(rest) = ToSet(k.waiting[e]) \ {t}
  BY <1>1, <1>2, TailList
<1>4. r = [k EXCEPT !.waiting[e] = rest, !.pending = Append(@, t)]
  <2>1. k.suspended > 0
    BY <1>1
  <2>2. [[k EXCEPT !.waiting[e] = Tail(@)] EXCEPT !.pending = Append(@, t)]
          = [k EXCEPT !.waiting[e] = rest, !.pending = Append(@, t)]
    <3> HIDE DEF t
    <3> QED BY <1>1 DEF Parts
  <2> HIDE DEF rest
  <2> QED BY <2>1, <2>2 DEF RemoveFromEventList
<1> HIDE DEF t, rest, r
<1>5. /\ IsRecord(r) /\ Still(k, r) /\ SameHomes(k, r) /\ r.nextUnblock = k.nextUnblock
      /\ r.waiting = [k.waiting EXCEPT ![e] = rest] /\ r.pending = Append(k.pending, t)
  BY <1>1, <1>4 DEF Parts, IsRecord, Still, SameHomes
<1>6. /\ r.pending \in TaskList /\ ToSet(r.pending) = ToSet(k.pending) \cup {t}
      /\ IsInjective(r.pending)
  <2>1. t \notin ToSet(k.pending)
    BY <1>2, <1>3
  <2> QED BY <1>1, <1>2, <1>3, <1>5, <2>1, AppendList
<1>7. \A f \in EventLists : r.waiting[f] = IF f = e THEN rest ELSE k.waiting[f]
  BY <1>1, <1>5
<1>8. Typed(r)
  <2>1. r.waiting \in [EventLists -> TaskList]
    BY <1>1, <1>3, <1>5
  <2>2. /\ k.ready \in [Priorities -> TaskList] /\ k.top \in Priorities /\ k.current \in Task
        /\ k.suspended \in Nat /\ k.missedTicks \in Nat /\ k.missedYield \in BOOLEAN
        /\ k.delayed \in TaskList /\ k.overflowed \in TaskList
        /\ k.wake \in [Task -> 0..MaxDelay]
        /\ k.eventKey \in [Task -> Int] /\ k.priority \in [Task -> Priorities]
        /\ k.tick \in 0..MaxDelay /\ k.overflows \in 0..OverflowRange - 1
        /\ k.nextUnblock \in 0..MaxDelay /\ k.swapFailed \in BOOLEAN
    BY DEF Sound, Typed
  <2> QED BY <1>5, <1>6, <2>1, <2>2 DEF Typed, Still, SameHomes
<1>9. Blocked(r) = Blocked(k)
  BY <1>5 DEF Blocked, SameHomes
<1>10. Homed(r, live)
  <2>1. Homed(k, live)
    BY DEF Sound
  <2>2. /\ r.ready = k.ready /\ r.top = k.top /\ r.delayed = k.delayed
        /\ r.overflowed = k.overflowed /\ r.priority = k.priority
    BY <1>5 DEF SameHomes
  <2> QED BY <1>9, <2>1, <2>2 DEF Homed
<1>11. \A f \in EventLists : /\ ToSet(r.waiting[f]) = ToSet(k.waiting[f]) \ {t}
                             /\ IsInjective(r.waiting[f])
  BY <1>2, <1>3, <1>7
<1>12. Events(r)
  <2>1. \A f, g \in EventLists : f # g => ToSet(r.waiting[f]) \cap ToSet(r.waiting[g]) = {}
    BY <1>2, <1>11
  <2>2. \A f \in EventLists : ToSet(r.waiting[f]) \cap ToSet(r.pending) = {}
    BY <1>2, <1>6, <1>11
  <2>3. ByRank(r)
    <3>1. ByRank(k) /\ rest = Unlink(k.waiting[e], t)
      BY <1>1, <1>2, UnlinkHead DEF Sound, Events, rest, t
    <3>2. Sorted(rest, k.eventKey)
      BY <1>1, <3>1, UnlinkList DEF ByRank
    <3>3. r.eventKey = k.eventKey /\ r.priority = k.priority
      BY <1>5 DEF SameHomes
    <3> QED BY <1>7, <3>1, <3>2, <3>3 DEF ByRank
  <2> QED BY <1>6, <1>11, <2>1, <2>2, <2>3 DEF Events
<1>13. Waiters(r)
  <2>1. (\A f \in EventLists : ToSet(k.waiting[f]) \subseteq Blocked(k))
        /\ ToSet(k.pending) \subseteq Blocked(k)
    BY DEF Sound, Waiters
  <2> QED BY <1>3, <1>6, <1>9, <1>11, <2>1 DEF Waiters
<1> QED BY <1>5, <1>8, <1>10, <1>12, <1>13 DEF Sound, Pends, r, t, rest


(* The scheduler is suspended by a task, and by no handler.                *)
LEMMA SuspendAllSettled ==
  ASSUME NEW k, NEW live \in SUBSET Task, Settled(k, live)
  PROVE  LET r == SuspendAll(k)
         IN  /\ Keeps(k, r, live) /\ SameLists(k, r) /\ r.suspended = k.suspended + 1
             /\ r.current = k.current /\ r.tick = k.tick /\ r.overflows = k.overflows
             /\ r.missedTicks = k.missedTicks
<1> DEFINE r == SuspendAll(k)
<1>1. Typed(k) /\ k.suspended \in Nat /\ k = [f \in Parts |-> k[f]] /\ Sound(k, live)
  BY DEF Settled, Sound, Typed, IsRecord
<1>2. /\ IsRecord(r) /\ SameLists(k, r) /\ r.suspended = k.suspended + 1
      /\ r.missedTicks = k.missedTicks /\ r.missedYield = k.missedYield
      /\ r.current = k.current /\ r.tick = k.tick /\ r.overflows = k.overflows
      /\ r.nextUnblock = k.nextUnblock /\ r.swapFailed = k.swapFailed
  BY <1>1 DEF SuspendAll, Parts, IsRecord, SameLists
<1> HIDE DEF r
<1>3. Typed(r)
  BY <1>1, <1>2 DEF Typed, SameLists
<1>4. Sound(r, live) /\ (IdleReady(k) => IdleReady(r))
  BY <1>1, <1>2, <1>3, SameListsSound
<1>5. Timed(k) => Timed(r)
  BY <1>2 DEF Timed, InOrder, NotOverdue, NextTurn, SameLists
<1>6. Highest(k) => Highest(r)
  BY <1>2 DEF Highest, SameLists
<1>7. r.suspended # 0
  BY <1>1, <1>2
<1> QED BY <1>2, <1>4, <1>5, <1>6, <1>7 DEF Settled, Keeps, r

(* A steady scheduler is steady while it is suspended.                     *)
LEMMA SuspendAllSteady ==
  ASSUME NEW k, NEW live \in SUBSET Task, Steady(k, live)
  PROVE  LET r == SuspendAll(k)
         IN  /\ Steady(r, live) /\ SameLists(k, r) /\ r.suspended = k.suspended + 1
             /\ r.current = k.current /\ r.tick = k.tick /\ r.overflows = k.overflows
  BY SuspendAllSettled DEF Steady, Keeps

(* The end of the suspension: every task whose event came is woken, the    *)
(* missed ticks are counted, and the next task is chosen if a more         *)
(* important one became ready.                                             *)
Resumes(k, r, live) ==
  /\ Keeps(k, r, live) /\ r.suspended = 0
  /\ \E D \in SUBSET Blocked(k) : Woken(k, r, D) /\ ToSet(k.pending) \subseteq D
  /\ AlreadyYielded(k) => Highest(r) /\ r.current \in live /\ IsRunnable(r, r.current)
  /\ ~AlreadyYielded(k) => r.current = k.current
  /\ ToSet(k.pending) = {} => Later(k, r, k.missedTicks)
  /\ Goes(k, r, k.missedTicks) /\ r.missedTicks = 0

(* xTaskResumeAll by the task that suspended the scheduler.                *)
LEMMA ResumeAllSettled ==
  ASSUME TaskAssumption, TickAssumption, NEW k, NEW live \in SUBSET Task, Settled(k, live),
         k.suspended = 1
  PROVE  Resumes(k, ResumeAll(k), live)
<1> DEFINE a == [k EXCEPT !.suspended = @ - 1]
           m == MovePending(a)
           b == ReplayTicks(m)
           c == [b EXCEPT !.missedYield = FALSE]
           r == ResumeAll(k)
<1>1. /\ Typed(k) /\ k = [f \in Parts |-> k[f]] /\ Sound(k, live) /\ Timed(k)
      /\ IdleReady(k) /\ Waiters(k)
  BY DEF Settled, Sound, Typed, IsRecord
<1>2. /\ k.pending \in TaskList /\ k.priority \in [Task -> Priorities] /\ k.current \in Task
      /\ \A p \in Priorities : k.ready[p] \in TaskList
      /\ k.missedTicks \in Nat
  BY <1>1 DEF Typed
<1>3. /\ IsRecord(a) /\ SameLists(k, a) /\ a.suspended = 0
      /\ a.missedTicks = k.missedTicks /\ a.missedYield = k.missedYield
      /\ a.current = k.current /\ a.tick = k.tick /\ a.overflows = k.overflows
      /\ a.nextUnblock = k.nextUnblock /\ a.swapFailed = k.swapFailed
  BY <1>1 DEF Parts, IsRecord, SameLists
<1>4. r = IF AlreadyYielded(k) THEN SwitchContext(c) ELSE b
  BY <1>3 DEF ResumeAll
<1> HIDE DEF a
<1>5. Typed(a)
  BY <1>1, <1>3 DEF Typed, SameLists
<1>6. Sound(a, live) /\ IdleReady(a) /\ Woken(k, a, {})
  BY <1>1, <1>3, <1>5, SameListsSound
<1>7. Timed(a)
  BY <1>1, <1>3 DEF Timed, InOrder, NotOverdue, NextTurn, SameLists
<1>8. Moves(a, m, live)
  BY <1>6, MovePendingSound
<1> HIDE DEF m
<1>9. /\ Sound(m, live) /\ Timed(m) /\ Still(a, m) /\ m.pending = << >>
      /\ Woken(a, m, ToSet(k.pending))
  BY <1>3, <1>7, <1>8 DEF Moves, SameLists
<1>10. Replays(m, b, live)
  BY <1>3, <1>9, ReplayTicksSound DEF Still
<1> HIDE DEF b
<1>11. /\ Sound(b, live) /\ Timed(b) /\ b.missedTicks = 0 /\ b.suspended = 0
       /\ b.current = k.current
  BY <1>3, <1>9, <1>10 DEF Replays, Still
<1>12. PICK E \in SUBSET Blocked(m) : Woken(m, b, E) /\ (m.missedTicks = 0 => E = {})
  BY <1>10 DEF Replays
<1> DEFINE D == ToSet(k.pending) \cup E
<1>13. /\ Woken(k, b, D) /\ D \in SUBSET Blocked(k) /\ ToSet(k.pending) \subseteq D
  <2>1. Woken(k, m, {} \cup ToSet(k.pending))
    BY <1>6, <1>9, WokenTwice
  <2>2. Woken(k, m, ToSet(k.pending))
    <3>1. {} \cup ToSet(k.pending) = ToSet(k.pending)
      OBVIOUS
    <3> QED BY <2>1, <3>1
  <2>3. Woken(k, b, D)
    BY <1>12, <2>2, WokenTwice
  <2>4. ToSet(k.pending) \subseteq Blocked(k) /\ E \subseteq Blocked(k)
    BY <1>1, <1>12, <2>2 DEF Waiters, Woken
  <2> QED BY <2>3, <2>4
<1>18. ASSUME ToSet(k.pending) = {} PROVE Later(k, b, k.missedTicks)
  <2>1. Woken(k, m, {} \cup ToSet(k.pending))
    BY <1>6, <1>9, WokenTwice
  <2>2. Woken(k, m, {})
    BY <1>18, <2>1
  <2>3. m.tick = k.tick /\ m.overflows = k.overflows /\ m.missedTicks = k.missedTicks
    BY <1>3, <1>9 DEF Still
  <2>4. Later(k, m, 0)
    BY <1>1, <2>2, <2>3, LaterNot
  <2>5. Later(m, b, k.missedTicks)
    BY <1>10, <2>3 DEF Replays
  <2>6. Later(k, b, 0 + k.missedTicks)
    BY <1>1, <1>2, <2>4, <2>5, LaterTwice
  <2>7. 0 + k.missedTicks = k.missedTicks
    BY <1>2
  <2> QED BY <2>6, <2>7
<1>19. Goes(k, b, k.missedTicks)
  BY <1>3, <1>9, <1>10 DEF Replays, Later, Goes, Passed, Still
<1>14. IdleReady(b)
  BY <1>1, <1>13, IdleStays
<1>15. b.pending = << >>
  <2>1. b.pending \in TaskList /\ m.pending \in TaskList
    BY <1>9, <1>11 DEF Sound, Typed
  <2>2. ToSet(m.pending) = {}
    BY <1>9, <2>1, ListIs
  <2>3. ToSet(b.pending) = {}
    BY <1>12, <2>2 DEF Woken
  <2> QED BY <2>1, <2>3, ListIs
<1>16. CASE AlreadyYielded(k)
  <2>1. b = [f \in Parts |-> b[f]] /\ Typed(b)
    BY <1>11 DEF Sound, Typed, IsRecord
  <2>2. /\ IsRecord(c) /\ SameLists(b, c) /\ c.missedYield = FALSE /\ c.suspended = b.suspended
        /\ c.missedTicks = b.missedTicks /\ c.current = b.current /\ c.tick = b.tick
        /\ c.overflows = b.overflows /\ c.nextUnblock = b.nextUnblock
        /\ c.swapFailed = b.swapFailed
    BY <2>1 DEF Parts, IsRecord, SameLists
  <2> HIDE DEF c
  <2>3. Typed(c)
    BY <2>1, <2>2 DEF Typed, SameLists
  <2>4. Sound(c, live) /\ IdleReady(c) /\ Woken(b, c, {})
    BY <1>11, <1>14, <2>2, <2>3, SameListsSound
  <2>5. Timed(c)
    BY <1>11, <2>2 DEF Timed, InOrder, NotOverdue, NextTurn, SameLists
  <2>6. c.suspended = 0 /\ c.pending = << >> /\ c.missedTicks = 0
    BY <1>11, <1>15, <2>2 DEF SameLists
  <2> DEFINE s == SwitchContext(c)
  <2>7. /\ Steady(s, live) /\ Woken(c, s, {}) /\ s.suspended = 0
        /\ s.tick = c.tick /\ s.overflows = c.overflows
        /\ s.current \in live /\ IsRunnable(s, s.current)
    BY <2>4, <2>5, <2>6, SwitchSteady
  <2> HIDE DEF s
  <2>8. Woken(k, s, D)
    <3>1. Woken(k, c, D \cup {})
      BY <1>13, <2>4, WokenTwice
    <3>2. Woken(k, s, (D \cup {}) \cup {})
      BY <2>7, <3>1, WokenTwice
    <3>3. (D \cup {}) \cup {} = D
      OBVIOUS
    <3> QED BY <3>2, <3>3
  <2>9. r = s
    BY <1>4, <1>16 DEF s
  <2>10. ASSUME ToSet(k.pending) = {} PROVE Later(k, s, k.missedTicks)
    <3>1. Woken(b, s, {} \cup {})
      BY <2>4, <2>7, WokenTwice
    <3>2. {} \cup {} = {}
      OBVIOUS
    <3>3. s.tick = b.tick /\ s.overflows = b.overflows /\ Typed(b)
      BY <1>11, <2>2, <2>7 DEF Sound
    <3>4. Woken(b, s, {})
      BY <3>1, <3>2
    <3>5. Later(b, s, 0)
      BY <1>11, <3>3, <3>4, LaterNot
    <3>6. Later(k, s, k.missedTicks + 0)
      BY <1>1, <1>2, <1>18, <2>10, <3>5, LaterTwice
    <3>7. k.missedTicks + 0 = k.missedTicks
      BY <1>2
    <3> QED BY <3>6, <3>7
  <2>11. Goes(k, s, k.missedTicks)
    BY <1>19, <2>2, <2>7 DEF Goes, Passed
  <2>12. s.missedTicks = 0
    BY <2>7 DEF Steady, Settled
  <2> HIDE DEF r, D
  <2> QED BY <1>13, <1>16, <2>7, <2>8, <2>9, <2>10, <2>11, <2>12 DEF Resumes, Steady, Keeps, r
<1>17. CASE ~AlreadyYielded(k)
  <2>1. r = b
    BY <1>4, <1>17
  <2>2. /\ k.missedTicks = 0
        /\ \A i \in 1..Len(k.pending) : ~(k.priority[k.pending[i]] >= k.priority[k.current])
    BY <1>2, <1>17 DEF AlreadyYielded
  <2>3. E = {}
    BY <1>3, <1>9, <1>12, <2>2 DEF Still
  <2>4. \A t \in ToSet(k.pending) : /\ t \in Task
                                    /\ k.priority[t] < k.priority[k.current]
    <3> SUFFICES ASSUME NEW t \in ToSet(k.pending)
                 PROVE  t \in Task /\ k.priority[t] < k.priority[k.current]
      OBVIOUS
    <3>1. PICK i \in 1..Len(k.pending) : k.pending[i] = t
      BY <1>2, ListIs
    <3>2. t \in Task
      BY <1>2, <3>1, ListIs
    <3>3. k.priority[t] \in Int /\ k.priority[k.current] \in Int
      BY <1>2, <3>2 DEF Priorities
    <3> QED BY <2>2, <3>1, <3>2, <3>3
  <2>5. ASSUME Highest(k) PROVE Highest(b)
    <3> SUFFICES ASSUME NEW p \in Priorities, b.ready[p] # << >>
                 PROVE  p <= k.priority[k.current]
      BY <1>11, <1>13 DEF Highest, Woken
    <3>1. b.ready[p] \in TaskList
      BY <1>11 DEF Sound, Typed
    <3>2. PICK t : t \in ToSet(b.ready[p])
      BY <3>1, ListIs
    <3>3. ToSet(b.ready[p]) = ToSet(k.ready[p]) \cup {u \in D : k.priority[u] = p}
      BY <1>13 DEF Woken
    <3>4. CASE t \in ToSet(k.ready[p])
      <4>1. k.ready[p] # << >>
        BY <1>2, <3>4, ListIs
      <4> QED BY <2>5, <4>1 DEF Highest
    <3>5. CASE t \in ToSet(k.pending) /\ k.priority[t] = p
      <4>1. p \in Int /\ k.priority[k.current] \in Int
        BY <1>2 DEF Priorities
      <4> QED BY <2>4, <3>5, <4>1
    <3> QED BY <2>3, <3>2, <3>3, <3>4, <3>5
  <2>6. Keeps(k, b, live)
    BY <1>11, <1>14, <1>15, <2>5 DEF Settled, Keeps
  <2> HIDE DEF r, D
  <2> QED BY <1>11, <1>13, <1>17, <1>18, <1>19, <2>1, <2>6 DEF Resumes, r
<1> QED BY <1>16, <1>17

(* A scheduler that was steady is steady again.                            *)
LEMMA ResumeAllSteady ==
  ASSUME TaskAssumption, TickAssumption, NEW k, NEW live \in SUBSET Task, Steady(k, live),
         k.suspended = 1
  PROVE  Resumes(k, ResumeAll(k), live) /\ Steady(ResumeAll(k), live)
<1>1. Resumes(k, ResumeAll(k), live)
  BY ResumeAllSettled DEF Steady
<1> QED BY <1>1 DEF Resumes, Keeps, Steady

(* The comparison of two stamps is exact: what the counts say is what a    *)
(* clock that never wraps would say, up to a full turn.                    *)
LEMMA StampsExact ==
  ASSUME TickAssumption, NEW s, NEW time \in TimeOuts, NEW e \in 0..TickRange,
         NEW n \in 1..MaxDelay, s.tick \in 0..MaxDelay, s.overflows \in 0..OverflowRange - 1,
         Passed(s, time, e)
  PROVE  TimedOut(s, time, n) <=> e >= n
<1> DEFINE R == TickRange
           gone == s.tick - time.tick
<1>1. /\ R \in Nat /\ R > 1 /\ MaxDelay = R - 1 /\ OverflowRange \in Nat /\ OverflowRange > 1
      /\ time.tick \in 0..R - 1 /\ time.overflows \in 0..OverflowRange - 1
      /\ s.tick \in 0..R - 1 /\ e \in 0..R /\ n \in 1..R - 1
  BY DEF TickAssumption, MaxDelay, TimeOuts
<1>2. /\ \/ s.tick = time.tick + e /\ s.overflows = time.overflows
         \/ s.tick = time.tick + e - R /\ s.overflows = (time.overflows + 1) % OverflowRange
      /\ TimedOut(s, time, n) <=>
           (s.overflows # time.overflows /\ s.tick >= time.tick) \/ gone % R >= n
  BY DEF Passed, TimedOut, ElapsedSince
<1> HIDE DEF R
<1>3. CASE s.tick = time.tick + e /\ s.overflows = time.overflows
  <2>1. gone = e /\ e \in 0..R - 1
    BY <1>1, <1>3
  <2> HIDE DEF gone
  <2>2. gone % R = e
    BY <1>1, <2>1
  <2> QED BY <1>2, <1>3, <2>2
<1>4. CASE s.tick = time.tick + e - R /\ s.overflows = (time.overflows + 1) % OverflowRange
  <2>1. s.overflows # time.overflows
    <3> DEFINE O == OverflowRange
               old == time.overflows
    <3>1. O \in Nat /\ O > 1 /\ old \in 0..O - 1
      BY <1>1
    <3> HIDE DEF O, old
    <3>2. (old + 1) % O = IF old + 1 = O THEN 0 ELSE old + 1
      BY <3>1
    <3>3. (old + 1) % O # old
      BY <3>1, <3>2
    <3> QED BY <1>4, <3>3 DEF O, old
  <2>2. CASE e = R
    <3>1. s.tick >= time.tick /\ e >= n
      BY <1>1, <1>4, <2>2
    <3> QED BY <1>2, <2>1, <3>1
  <2>3. CASE e # R
    <3>1. gone = e - R /\ ~(s.tick >= time.tick) /\ e \in 1..R - 1
      BY <1>1, <1>4, <2>3
    <3> HIDE DEF gone
    <3>2. gone % R = e
      BY <1>1, <3>1
    <3> QED BY <1>2, <3>1, <3>2
  <2> QED BY <2>2, <2>3
<1> QED BY <1>2, <1>3, <1>4

-----------------------------------------------------------------------------
(* The start.  The created tasks of a priority are in its list, each once. *)
LEMMA SeqsOf ==
  ASSUME NEW S \in SUBSET Task, IsFiniteSet(S), NEW list \in SetToSeqs(S)
  PROVE  list \in TaskList /\ IsInjective(list) /\ ToSet(list) = S
<1> DEFINE n == Cardinality(S)
           D == 1..n
<1>1. n \in Nat
  BY FS_CardinalityType
<1>2. list \in [D -> S] /\ \A i, j \in D : i # j => list[i] # list[j]
  BY DEF SetToSeqs
<1> HIDE DEF n
<1>3. list \in Seq(S)
  BY <1>1, <1>2
<1>4. list \in TaskList /\ Len(list) = n /\ DOMAIN list = D
  BY <1>1, <1>2, <1>3 DEF TaskList
<1>5. list \in Injection(D, S) /\ IsInjective(list)
  BY <1>2, <1>4 DEF Injection, IsInjective
<1>6. IsFiniteSet(D) /\ Cardinality(D) = n
  BY <1>1, FS_Interval
<1>7. list \in Surjection(D, S)
  BY <1>5, <1>6, FS_Injection DEF n
<1>8. \A t \in S : \E i \in 1..Len(list) : list[i] = t
  BY <1>4, <1>7 DEF Surjection
<1>9. ToSet(list) = S
  <2>1. \A t : t \in ToSet(list) <=> \E i \in 1..Len(list) : list[i] = t
    BY <1>4, ListIs
  <2>2. \A i \in 1..Len(list) : list[i] \in S
    BY <1>2, <1>4
  <2> HIDE DEF D
  <2> QED BY <2>1, <2>2, <1>8
<1> QED BY <1>4, <1>5, <1>9

(* Nothing is in the empty list.                                           *)
LEMMA EmptyList == ToSet(<< >>) = {} /\ IsInjective(<< >>) /\ << >> \in TaskList
<1>1. << >> \in TaskList
  BY DEF TaskList
<1> DEFINE list == << >>
<1>2. list \in TaskList /\ list = << >>
  BY <1>1
<1>3. DOMAIN << >> = {}
  OBVIOUS
<1>4. IsInjective(<< >>)
  BY <1>3 DEF IsInjective
<1> HIDE DEF list
<1>5. ToSet(list) = {}
  BY <1>2, ListIs
<1> QED BY <1>1, <1>2, <1>4, <1>5

(* The state in which the scheduler starts, with its first task chosen.    *)
Starts(k) ==
  /\ Steady(k, Task) /\ k.suspended = 0 /\ IsRunnable(k, k.current)
  /\ k.priority = BasePriority /\ Blocked(k) = {} /\ k.tick = 0 /\ k.overflows = 0
  /\ \A e \in EventLists : k.waiting[e] = << >>

(* The lists before the scheduler starts.                                  *)
LEMMA CreatedSound ==
  ASSUME TaskAssumption, TickAssumption, NEW lists \in ReadyLists
  PROVE  /\ Sound(Created(lists), Task) /\ Timed(Created(lists)) /\ IdleReady(Created(lists))
         /\ Blocked(Created(lists)) = {}
<1> DEFINE k == Created(lists)
<1>1. \A p \in Priorities : /\ lists[p] \in TaskList /\ IsInjective(lists[p])
                            /\ ToSet(lists[p]) = AtPriority(p)
  <2> SUFFICES ASSUME NEW p \in Priorities
               PROVE  /\ lists[p] \in TaskList /\ IsInjective(lists[p])
                      /\ ToSet(lists[p]) = AtPriority(p)
    OBVIOUS
  <2>1. AtPriority(p) \in SUBSET Task /\ IsFiniteSet(AtPriority(p))
    BY FS_Subset DEF AtPriority, TaskAssumption
  <2>2. lists[p] \in SetToSeqs(AtPriority(p))
    BY DEF ReadyLists
  <2> QED BY <2>1, <2>2, SeqsOf
<1>2. lists \in [Priorities -> TaskList]
  BY <1>1 DEF ReadyLists
<1>3. ToSet(<< >>) = {} /\ IsInjective(<< >>) /\ << >> \in TaskList
  BY EmptyList
<1>4. /\ k.ready = lists /\ k.top = MaxPriorities - 1 /\ k.current = Idle
      /\ k.suspended = 0 /\ k.pending = << >> /\ k.missedTicks = 0 /\ k.missedYield = FALSE
      /\ k.delayed = << >> /\ k.overflowed = << >> /\ k.wake = [t \in Task |-> 0]
      /\ k.waiting = [e \in EventLists |-> << >>]
      /\ k.eventKey = [t \in Task |-> MaxPriorities - BasePriority[t]]
      /\ k.priority = BasePriority /\ k.tick = 0 /\ k.overflows = 0
      /\ k.nextUnblock = MaxDelay /\ k.swapFailed = FALSE
  BY DEF Created
<1>5. IsRecord(k)
  BY DEF IsRecord, Parts, Created
<1> HIDE DEF k
<1>6. BasePriority \in [Task -> Priorities] /\ MaxPriorities \in Nat \ {0} /\ Idle \in Task
  BY DEF TaskAssumption, Priorities
<1>7. k.eventKey \in [Task -> Int] /\ k.top \in Priorities
  BY <1>4, <1>6 DEF Priorities
<1>8. /\ MaxDelay \in Nat /\ k.nextUnblock \in 0..MaxDelay /\ k.tick \in 0..MaxDelay
      /\ k.overflows \in 0..OverflowRange - 1 /\ k.wake \in [Task -> 0..MaxDelay]
  BY <1>4 DEF TickAssumption, MaxDelay
<1>9. Typed(k)
  <2>1. /\ k.ready \in [Priorities -> TaskList] /\ k.current \in Task
        /\ k.suspended \in Nat /\ k.missedTicks \in Nat
    BY <1>2, <1>4, <1>6
  <2>4. k.missedYield = FALSE /\ k.swapFailed = FALSE
    BY <1>4
  <2>5. k.missedYield \in BOOLEAN /\ k.swapFailed \in BOOLEAN
    BY <2>4, Zenon
  <2>2. /\ k.pending \in TaskList /\ k.delayed \in TaskList /\ k.overflowed \in TaskList
        /\ k.waiting \in [EventLists -> TaskList]
    BY <1>3, <1>4
  <2>3. k.priority \in [Task -> Priorities]
    BY <1>4, <1>6
  <2> QED BY <1>5, <1>7, <1>8, <2>1, <2>2, <2>3, <2>5 DEF Typed
<1>10. Blocked(k) = {}
  BY <1>3, <1>4 DEF Blocked
<1>11. \A p \in Priorities : \A t \in ToSet(k.ready[p]) : BasePriority[t] = p /\ p <= k.top
  BY <1>1, <1>4, <1>6 DEF AtPriority, Priorities
<1>12. \A t \in Task : t \in ToSet(k.ready[k.priority[t]])
  BY <1>1, <1>4, <1>6 DEF AtPriority
<1>13. \A p \in Priorities : IsInjective(k.ready[p]) /\ ToSet(k.ready[p]) \subseteq Task
  BY <1>1, <1>4 DEF AtPriority
<1>14. Homed(k, Task)
  BY <1>3, <1>4, <1>10, <1>11, <1>12, <1>13 DEF Homed
<1>15. Events(k) /\ Waiters(k)
  BY <1>3, <1>4 DEF Events, ByRank, Sorted, Waiters
<1>16. Timed(k)
  <2>1. Sorted(<< >>, k.wake)
    BY DEF Sorted
  <2> QED BY <1>3, <1>4, <2>1 DEF Timed, InOrder, NotOverdue, NextTurn
<1>17. IdleReady(k)
  BY <1>4, <1>6, <1>12 DEF IdleReady, TaskAssumption
<1> QED BY <1>9, <1>10, <1>14, <1>15, <1>16, <1>17 DEF Sound, k

(* It starts steady, in whatever order its tasks were created.             *)
LEMMA StartedSteady ==
  ASSUME TaskAssumption, TickAssumption, NEW lists \in ReadyLists
  PROVE  Starts(Started(lists))
<1> DEFINE k == Created(lists)
           r == Started(lists)
<1>1. Sound(k, Task) /\ Timed(k) /\ IdleReady(k) /\ Blocked(k) = {}
  BY CreatedSound
<1>2. /\ k.suspended = 0 /\ k.pending = << >> /\ k.missedTicks = 0
      /\ k.priority = BasePriority /\ k.tick = 0 /\ k.overflows = 0
      /\ k.waiting = [e \in EventLists |-> << >>]
  BY DEF Created
<1>3. r = SwitchContext(k)
  BY DEF Started
<1> HIDE DEF k, r
<1>4. /\ Steady(r, Task) /\ Woken(k, r, {}) /\ r.suspended = 0
      /\ r.tick = k.tick /\ r.overflows = k.overflows
      /\ r.current \in Task /\ IsRunnable(r, r.current)
  BY <1>1, <1>2, <1>3, SwitchSteady
<1>5. /\ Blocked(r) = Blocked(k) /\ r.priority = k.priority
      /\ \A e \in EventLists : ToSet(r.waiting[e]) = ToSet(k.waiting[e])
  BY <1>4 DEF Woken
<1>6. \A e \in EventLists : r.waiting[e] = << >>
  <2> SUFFICES ASSUME NEW e \in EventLists PROVE r.waiting[e] = << >>
    OBVIOUS
  <2>1. r.waiting[e] \in TaskList /\ k.waiting[e] = << >> /\ << >> \in TaskList
    BY <1>2, <1>4 DEF Steady, Settled, Sound, Typed, TaskList
  <2>2. ToSet(r.waiting[e]) = {}
    BY <1>5, <2>1, ListIs
  <2> QED BY <2>1, <2>2, ListIs
<1> QED BY <1>1, <1>2, <1>4, <1>5, <1>6 DEF Starts, r


-----------------------------------------------------------------------------
(* The end of a call that gave or took an item, whether the scheduler is   *)
(* suspended or not: the first waiter is in no event list any more, and    *)
(* who could run still can.                                                *)
WakesFirst(k, r, e, live) ==
  /\ Keeps(k, r, live) /\ r.suspended = k.suspended
  /\ r.tick = k.tick /\ r.overflows = k.overflows /\ r.priority = k.priority
  /\ r.missedTicks = k.missedTicks /\ Blocked(r) \subseteq Blocked(k)
  /\ k.waiting[e] = << >> => r = k
  /\ k.waiting[e] # << >> => \A f \in EventLists : ToSet(r.waiting[f]) = ToSet(k.waiting[f]) \ {Head(k.waiting[e])}
  /\ k.waiting[e] # << >> /\ k.suspended = 0 => IsRunnable(r, Head(k.waiting[e]))
  /\ \A t \in Task : IsRunnable(k, t) => IsRunnable(r, t)
  /\ \/ r.current = k.current /\ (k.waiting[e] # << >> /\ k.suspended = 0 => ~UnblocksHigher(k, e))
     \/ Highest(r) /\ r.current \in live /\ IsRunnable(r, r.current) /\ k.suspended = 0

(* Waking others keeps a task ready.                                       *)
LEMMA RunnableStays ==
  ASSUME NEW k, NEW r, NEW D, Typed(k), Woken(k, r, D), NEW t \in Task, IsRunnable(k, t)
  PROVE  IsRunnable(r, t)
<1>1. r.priority = k.priority /\ k.priority[t] \in Priorities
  BY DEF Woken, Typed
<1>2. ToSet(k.ready[k.priority[t]]) \subseteq ToSet(r.ready[k.priority[t]])
  BY <1>1 DEF Woken
<1> QED BY <1>1, <1>2 DEF IsRunnable


(* While the scheduler is suspended, being steady is a matter of the       *)
(* ready and delayed lists.                                                *)
LEMMA SuspendedSettled ==
  ASSUME NEW k, NEW r, NEW live, Settled(k, live), Sound(r, live), SameHomes(k, r),
         r.suspended # 0, r.current = k.current, r.tick = k.tick,
         r.nextUnblock = k.nextUnblock, r.swapFailed = k.swapFailed
  PROVE  Keeps(k, r, live) /\ Blocked(r) = Blocked(k) /\ \A t : IsRunnable(k, t) <=> IsRunnable(r, t)
<1>1. Timed(r)
  BY DEF Settled, SameHomes, Timed, InOrder, NotOverdue, NextTurn
<1>2. IdleReady(r) /\ (Highest(k) => Highest(r)) /\ Blocked(r) = Blocked(k)
  BY DEF Settled, SameHomes, IdleReady, Highest, Blocked
<1>3. \A t : IsRunnable(k, t) <=> IsRunnable(r, t)
  BY DEF SameHomes, IsRunnable
<1> QED BY <1>1, <1>2, <1>3 DEF Settled, Keeps

(* The same of a steady scheduler.                                         *)
LEMMA SuspendedSteady ==
  ASSUME NEW k, NEW r, NEW live, Steady(k, live), Sound(r, live), SameHomes(k, r),
         r.suspended # 0, r.current = k.current, r.tick = k.tick,
         r.nextUnblock = k.nextUnblock, r.swapFailed = k.swapFailed
  PROVE  Steady(r, live) /\ Blocked(r) = Blocked(k) /\ \A t : IsRunnable(k, t) <=> IsRunnable(r, t)
  BY SuspendedSettled DEF Steady, Keeps

(* Waking the first waiter, whoever runs.                                  *)
LEMMA WakeOneSettled ==
  ASSUME TaskAssumption, TickAssumption, NEW k, NEW live \in SUBSET Task, Settled(k, live),
         NEW e \in EventLists
  PROVE  WakesFirst(k, WakeOne(k, e), e, live)
<1>1. CASE k.waiting[e] = << >>
  BY <1>1 DEF WakeOne, WakesFirst, Keeps
<1>2. CASE k.waiting[e] # << >> /\ k.suspended = 0
  <2> DEFINE q == RemoveFromEventList(k, e)
             s == SwitchContext(q)
             h == Head(k.waiting[e])
             r == WakeOne(k, e)
  <2>1. /\ Woken(k, q, {h}) /\ Still(k, q)
        /\ Settled(q, live) /\ (Highest(k) /\ ~UnblocksHigher(k, e) => Highest(q))
        /\ Steady(s, live) /\ s.suspended = 0 /\ s.tick = k.tick
        /\ s.overflows = k.overflows /\ Woken(k, s, {h})
        /\ s.current \in live /\ IsRunnable(s, s.current)
    BY <1>2, EventSettled
  <2>2. r = IF UnblocksHigher(k, e) THEN s ELSE q
    BY <1>2 DEF WakeOne
  <2>3. Typed(k)
    BY DEF Settled, Sound
  <2> HIDE DEF q, s, r, h
  <2>4. /\ Woken(k, r, {h}) /\ Keeps(k, r, live) /\ r.suspended = k.suspended
        /\ r.tick = k.tick /\ r.overflows = k.overflows
        /\ \/ r.current = k.current /\ ~UnblocksHigher(k, e)
           \/ Highest(r) /\ r.current \in live /\ IsRunnable(r, r.current)
    BY <1>2, <2>1, <2>2 DEF Still, Steady, Keeps
  <2>5. \A t \in Task : IsRunnable(k, t) => IsRunnable(r, t)
    BY <2>3, <2>4, RunnableStays
  <2>6. /\ r.priority = k.priority /\ Blocked(r) \subseteq Blocked(k)
        /\ \A f \in EventLists : ToSet(r.waiting[f]) = ToSet(k.waiting[f]) \ {h}
    BY <2>4 DEF Woken
  <2>7. IsRunnable(r, h)
    <3>1. h \in Task
      <4>1. k.waiting[e] \in TaskList
        BY <2>3 DEF Typed
      <4> QED BY <1>2, <4>1, TailList DEF h
    <3>2. k.priority[h] \in Priorities
      BY <2>3, <3>1 DEF Typed
    <3> QED BY <2>4, <3>2 DEF Woken, IsRunnable
  <2>8. r.missedTicks = k.missedTicks
    BY <1>2, <2>4 DEF Keeps, Settled
  <2> QED BY <1>2, <2>4, <2>5, <2>6, <2>7, <2>8 DEF WakesFirst, r, h
<1>3. CASE k.waiting[e] # << >> /\ k.suspended # 0
  <2> DEFINE q == RemoveFromEventList(k, e)
             s == SwitchContext(q)
             h == Head(k.waiting[e])
             r == WakeOne(k, e)
  <2>1. Sound(q, live) /\ Pends(k, q, e)
    BY <1>3, EventPends DEF Settled
  <2>2. q.suspended # 0 /\ Typed(q)
    BY <1>3, <2>1 DEF Pends, Still, Sound
  <2>3. /\ SameLists(q, s) /\ Typed(s) /\ s.current = q.current /\ s.suspended = q.suspended
        /\ s.tick = q.tick /\ s.overflows = q.overflows /\ s.missedTicks = q.missedTicks
        /\ s.nextUnblock = q.nextUnblock /\ s.swapFailed = q.swapFailed
    <3> HIDE DEF q
    <3> QED BY <2>2, SwitchContextLater
  <2>4. r = IF UnblocksHigher(k, e) THEN s ELSE q
    BY <1>3 DEF WakeOne
  <2> HIDE DEF q, s, r
  <2>5. Sound(s, live)
    BY <2>1, <2>3, SameListsSound
  <2>6. /\ q.current = k.current /\ q.suspended = k.suspended /\ q.tick = k.tick
        /\ q.overflows = k.overflows /\ q.swapFailed = k.swapFailed /\ SameHomes(k, q)
        /\ q.nextUnblock = k.nextUnblock /\ q.missedTicks = k.missedTicks
        /\ q.waiting = [k.waiting EXCEPT ![e] = Tail(k.waiting[e])]
    BY <2>1 DEF Pends, Still
  <2>7. SameHomes(k, s) /\ s.waiting = q.waiting
    BY <2>3, <2>6 DEF SameLists, SameHomes
  <2>8. /\ Sound(r, live) /\ SameHomes(k, r) /\ r.waiting = q.waiting
        /\ r.current = k.current /\ r.suspended = k.suspended /\ r.tick = k.tick
        /\ r.overflows = k.overflows /\ r.swapFailed = k.swapFailed
        /\ r.nextUnblock = k.nextUnblock /\ r.missedTicks = k.missedTicks
    BY <2>1, <2>3, <2>4, <2>5, <2>6, <2>7
  <2>9. Keeps(k, r, live) /\ Blocked(r) = Blocked(k) /\ \A t : IsRunnable(k, t) <=> IsRunnable(r, t)
    BY <1>3, <2>8, SuspendedSettled
  <2>10. \A f \in EventLists : ToSet(r.waiting[f]) = ToSet(k.waiting[f]) \ {h}
    <3> SUFFICES ASSUME NEW f \in EventLists
                 PROVE  ToSet(r.waiting[f]) = ToSet(k.waiting[f]) \ {h}
      OBVIOUS
    <3>1. /\ k.waiting \in [EventLists -> TaskList] /\ IsInjective(k.waiting[e])
          /\ f # e => ToSet(k.waiting[f]) \cap ToSet(k.waiting[e]) = {}
      BY DEF Settled, Sound, Typed, Events
    <3>2. k.waiting[e] \in TaskList
      BY <3>1
    <3>3. h \in ToSet(k.waiting[e]) /\ ToSet(Tail(k.waiting[e])) = ToSet(k.waiting[e]) \ {h}
      BY <1>3, <3>1, <3>2, TailList
    <3>4. r.waiting[f] = IF f = e THEN Tail(k.waiting[e]) ELSE k.waiting[f]
      BY <2>6, <2>8, <3>1
    <3> QED BY <3>1, <3>3, <3>4
  <2>11. r.priority = k.priority
    BY <2>8 DEF SameHomes
  <2> QED BY <1>3, <2>8, <2>9, <2>10, <2>11 DEF WakesFirst, r, h
<1> QED BY <1>1, <1>2, <1>3

(* Who wakes a more important task yields: the scheduler stays steady.     *)
LEMMA WakeOneSteady ==
  ASSUME TaskAssumption, TickAssumption, NEW k, NEW live \in SUBSET Task, Steady(k, live),
         NEW e \in EventLists
  PROVE  WakesFirst(k, WakeOne(k, e), e, live) /\ Steady(WakeOne(k, e), live)
<1>1. WakesFirst(k, WakeOne(k, e), e, live)
  BY WakeOneSettled DEF Steady
<1> QED BY <1>1 DEF WakesFirst, Keeps, Steady

-----------------------------------------------------------------------------
(* Priority inheritance: the holder of a mutex changes its priority, and   *)
(* its ready list with it.  It waits for nothing.                          *)
Reranks(k, r, h, p) ==
  /\ Still(k, r) /\ r.pending = k.pending /\ r.waiting = k.waiting
  /\ r.priority = [k.priority EXCEPT ![h] = p]
  /\ Blocked(r) = Blocked(k)
  /\ \A t \in Task : IsRunnable(k, t) <=> IsRunnable(r, t)

Reranked(k, h, p) == [k EXCEPT !.priority[h] = p, !.eventKey[h] = MaxPriorities - p]

(* Its new rank, while it is in no ready list that goes by the old one.    *)
LEMMA RerankedIs ==
  ASSUME TaskAssumption, NEW k, Typed(k), NEW h \in Task, NEW p \in Priorities
  PROVE  LET a == Reranked(k, h, p)
         IN  /\ Typed(a) /\ a = [f \in Parts |-> a[f]] /\ Still(k, a)
             /\ a.ready = k.ready /\ a.top = k.top /\ a.pending = k.pending
             /\ a.delayed = k.delayed /\ a.overflowed = k.overflowed /\ a.wake = k.wake
             /\ a.waiting = k.waiting /\ a.nextUnblock = k.nextUnblock
             /\ a.priority = [k.priority EXCEPT ![h] = p]
             /\ a.eventKey = [k.eventKey EXCEPT ![h] = MaxPriorities - p]
<1> DEFINE a == Reranked(k, h, p)
<1>1. k = [f \in Parts |-> k[f]]
  BY DEF Typed, IsRecord
<1>2. /\ a = [f \in Parts |-> a[f]] /\ Still(k, a)
      /\ a.ready = k.ready /\ a.top = k.top /\ a.pending = k.pending
      /\ a.delayed = k.delayed /\ a.overflowed = k.overflowed /\ a.wake = k.wake
      /\ a.waiting = k.waiting /\ a.nextUnblock = k.nextUnblock
      /\ a.priority = [k.priority EXCEPT ![h] = p]
      /\ a.eventKey = [k.eventKey EXCEPT ![h] = MaxPriorities - p]
  BY <1>1 DEF Reranked, Parts, Still
<1> HIDE DEF a
<1>3. a.priority \in [Task -> Priorities] /\ a.eventKey \in [Task -> Int]
  <2>1. MaxPriorities - p \in Int
    BY DEF TaskAssumption, Priorities
  <2>2. k.priority \in [Task -> Priorities] /\ k.eventKey \in [Task -> Int]
    BY DEF Typed
  <2> QED BY <1>2, <2>1, <2>2
<1>4. Typed(a)
  <2>1. /\ k.ready \in [Priorities -> TaskList] /\ k.top \in Priorities /\ k.current \in Task
        /\ k.suspended \in Nat /\ k.missedTicks \in Nat /\ k.missedYield \in BOOLEAN
        /\ k.pending \in TaskList /\ k.delayed \in TaskList /\ k.overflowed \in TaskList
        /\ k.wake \in [Task -> 0..MaxDelay] /\ k.waiting \in [EventLists -> TaskList]
        /\ k.tick \in 0..MaxDelay /\ k.overflows \in 0..OverflowRange - 1
        /\ k.nextUnblock \in 0..MaxDelay /\ k.swapFailed \in BOOLEAN
    BY DEF Typed
  <2> QED BY <1>2, <1>3, <2>1 DEF Typed, IsRecord, Still
<1> QED BY <1>2, <1>4 DEF a

(* The event lists keep their order: the holder is in none of them.        *)
LEMMA RerankedEvents ==
  ASSUME NEW k, Typed(k), Events(k), NEW h \in Task, NEW p \in Int,
         \A e \in EventLists : h \notin ToSet(k.waiting[e]),
         NEW r, r.waiting = k.waiting, r.pending = k.pending,
         r.priority = [k.priority EXCEPT ![h] = p],
         r.eventKey = [k.eventKey EXCEPT ![h] = MaxPriorities - p]
  PROVE  Events(r)
<1>1. ASSUME NEW e \in EventLists PROVE Sorted(r.waiting[e], r.eventKey)
  <2>1. k.waiting[e] \in TaskList /\ Sorted(k.waiting[e], k.eventKey)
    BY DEF Typed, Events, ByRank
  <2>2. \A i \in 1..Len(k.waiting[e]) : k.waiting[e][i] \in Task /\ k.waiting[e][i] # h
    BY <2>1, ListIs
  <2>3. k.eventKey \in [Task -> Int]
    BY DEF Typed
  <2>4. \A t \in Task : t # h => r.eventKey[t] = k.eventKey[t]
    BY <2>3
  <2> QED BY <2>1, <2>2, <2>4 DEF Sorted
<1>2. \A t \in Task : r.eventKey[t] = MaxPriorities - r.priority[t]
  BY DEF Typed, Events, ByRank
<1> QED BY <1>1, <1>2 DEF Events, ByRank

(* A ready task goes to the end of the ready list of its new priority.     *)
LEMMA RequeueSettled ==
  ASSUME TaskAssumption, TickAssumption, NEW k, NEW live \in SUBSET Task, Settled(k, live),
         NEW h \in live, h # Idle, IsRunnable(k, h), NEW p \in Priorities
  PROVE  LET r == AddTaskToReadyQueue(RemoveGenericItem(Reranked(k, h, p), h), h)
         IN  Settled(r, live) /\ Reranks(k, r, h, p)
<1> DEFINE a == Reranked(k, h, p)
           b == RemoveGenericItem(a, h)
           r == AddTaskToReadyQueue(b, h)
           Old(q) == Unlink(k.ready[q], h)
<1>1. /\ Typed(k) /\ Homed(k, live) /\ Events(k) /\ Waiters(k) /\ Timed(k) /\ IdleReady(k)
      /\ h \in Task
  BY DEF Settled, Sound
<1>2. /\ k.ready \in [Priorities -> TaskList] /\ k.top \in Priorities
      /\ k.delayed \in TaskList /\ k.overflowed \in TaskList
      /\ k.priority \in [Task -> Priorities] /\ k.wake \in [Task -> 0..MaxDelay]
      /\ 0 \in Priorities /\ 0 \in 0..MaxDelay
      /\ \A q \in Priorities : q \in Int
  <2>1. 0 \in Priorities /\ \A q \in Priorities : q \in Int
    BY DEF TaskAssumption, Priorities
  <2>2. 0 \in 0..MaxDelay
    BY DEF TickAssumption, MaxDelay
  <2>3. /\ k.ready \in [Priorities -> TaskList] /\ k.top \in Priorities
        /\ k.delayed \in TaskList /\ k.overflowed \in TaskList
        /\ k.priority \in [Task -> Priorities] /\ k.wake \in [Task -> 0..MaxDelay]
    BY <1>1 DEF Typed
  <2> QED BY <2>1, <2>2, <2>3
<1>3. h \notin Blocked(k) /\ h \notin ToSet(k.delayed) /\ h \notin ToSet(k.overflowed)
  BY <1>1, <1>2 DEF Homed, IsRunnable, Blocked
<1>4. /\ \A e \in EventLists : h \notin ToSet(k.waiting[e])
      /\ h \notin ToSet(k.pending)
  BY <1>1, <1>3 DEF Waiters
<1>5. /\ Typed(a) /\ a = [f \in Parts |-> a[f]] /\ Still(k, a)
      /\ a.ready = k.ready /\ a.top = k.top /\ a.pending = k.pending
      /\ a.delayed = k.delayed /\ a.overflowed = k.overflowed /\ a.wake = k.wake
      /\ a.waiting = k.waiting /\ a.nextUnblock = k.nextUnblock
      /\ a.priority = [k.priority EXCEPT ![h] = p]
      /\ a.eventKey = [k.eventKey EXCEPT ![h] = MaxPriorities - p]
  BY <1>1, RerankedIs
<1> HIDE DEF a
<1>6. Unlink(k.delayed, h) = k.delayed /\ Unlink(k.overflowed, h) = k.overflowed
  BY <1>2, <1>3, UnlinkList
<1>7. /\ b = [f \in Parts |-> b[f]] /\ Still(a, b)
      /\ b.ready = [q \in Priorities |-> Unlink(a.ready[q], h)]
      /\ b.wake = [a.wake EXCEPT ![h] = 0]
      /\ b.delayed = Unlink(a.delayed, h) /\ b.overflowed = Unlink(a.overflowed, h)
      /\ b.top = a.top /\ b.pending = a.pending /\ b.waiting = a.waiting
      /\ b.eventKey = a.eventKey /\ b.priority = a.priority /\ b.nextUnblock = a.nextUnblock
  BY <1>5 DEF RemoveGenericItem, Parts, Still
<1> HIDE DEF b
<1>8. b.priority[h] = p
  BY <1>1, <1>2, <1>5, <1>7
<1>9. /\ IsRecord(r) /\ Still(b, r)
      /\ r.ready = [b.ready EXCEPT ![p] = Append(@, h)]
      /\ r.top = IF p > b.top THEN p ELSE b.top
      /\ r.wake = b.wake /\ r.delayed = b.delayed /\ r.overflowed = b.overflowed
      /\ r.pending = b.pending /\ r.waiting = b.waiting
      /\ r.eventKey = b.eventKey /\ r.priority = b.priority /\ r.nextUnblock = b.nextUnblock
  <2>1. r = [b EXCEPT !.top = IF p > @ THEN p ELSE @, !.ready[p] = Append(@, h)]
    BY <1>8 DEF AddTaskToReadyQueue
  <2> HIDE DEF r
  <2> QED BY <1>7, <2>1 DEF Parts, IsRecord, Still
<1> HIDE DEF r
<1>10. /\ r.pending = k.pending /\ r.waiting = k.waiting /\ r.nextUnblock = k.nextUnblock
       /\ r.delayed = k.delayed /\ r.overflowed = k.overflowed /\ Still(k, r)
       /\ r.wake = [k.wake EXCEPT ![h] = 0]
       /\ r.priority = [k.priority EXCEPT ![h] = p]
       /\ r.eventKey = [k.eventKey EXCEPT ![h] = MaxPriorities - p]
       /\ r.top = IF p > k.top THEN p ELSE k.top
  BY <1>5, <1>6, <1>7, <1>9 DEF Still
<1>11. r.ready = [q \in Priorities |-> IF q = p THEN Append(Old(q), h) ELSE Old(q)]
  <2>1. b.ready = [q \in Priorities |-> Old(q)]
    BY <1>5, <1>7
  <2> HIDE DEF Old
  <2>2. r.ready = [b.ready EXCEPT ![p] = Append(@, h)]
    BY <1>9
  <2> QED BY <2>1, <2>2
<1>12. \A q \in Priorities :
         Old(q) \in TaskList /\ IsInjective(Old(q)) /\ ToSet(Old(q)) = ToSet(k.ready[q]) \ {h}
  BY <1>1, <1>2, UnlinkList DEF Homed
<1> HIDE DEF Old
<1>13. \A q \in Priorities :
         /\ r.ready[q] \in TaskList /\ IsInjective(r.ready[q])
         /\ ToSet(r.ready[q]) = (ToSet(k.ready[q]) \ {h}) \cup {t \in {h} : q = p}
  <2> SUFFICES ASSUME NEW q \in Priorities
               PROVE  /\ r.ready[q] \in TaskList /\ IsInjective(r.ready[q])
                      /\ ToSet(r.ready[q])
                           = (ToSet(k.ready[q]) \ {h}) \cup {t \in {h} : q = p}
    OBVIOUS
  <2>1. CASE q = p
    <3>1. r.ready[q] = Append(Old(q), h) /\ h \notin ToSet(Old(q))
      BY <1>11, <1>12, <2>1
    <3> QED BY <1>1, <1>12, <2>1, <3>1, AppendList
  <2>2. CASE q # p
    BY <1>11, <1>12, <2>2
  <2> QED BY <2>1, <2>2
<1>14. Blocked(r) = Blocked(k)
  BY <1>10 DEF Blocked
<1>15. \A t \in Task : r.priority[t] = IF t = h THEN p ELSE k.priority[t]
  BY <1>2, <1>10
<1>16. Typed(r)
  <2>1. r.ready \in [Priorities -> TaskList]
    <3>1. DOMAIN r.ready = Priorities /\ r.ready = [q \in Priorities |-> r.ready[q]]
      BY <1>11
    <3> QED BY <1>13, <3>1
  <2>2. r.top \in Priorities /\ r.wake \in [Task -> 0..MaxDelay]
    BY <1>1, <1>2, <1>10
  <2>3. r.priority = a.priority /\ r.eventKey = a.eventKey
    BY <1>5, <1>10
  <2>4. /\ a.current \in Task /\ a.suspended \in Nat /\ a.missedTicks \in Nat
        /\ a.missedYield \in BOOLEAN
        /\ a.pending \in TaskList /\ a.delayed \in TaskList /\ a.overflowed \in TaskList
        /\ a.waiting \in [EventLists -> TaskList]
        /\ a.eventKey \in [Task -> Int] /\ a.priority \in [Task -> Priorities]
        /\ a.tick \in 0..MaxDelay /\ a.overflows \in 0..OverflowRange - 1
        /\ a.nextUnblock \in 0..MaxDelay /\ a.swapFailed \in BOOLEAN
    BY <1>5 DEF Typed
  <2>5. /\ r.current = a.current /\ r.suspended = a.suspended /\ r.missedTicks = a.missedTicks
        /\ r.missedYield = a.missedYield /\ r.tick = a.tick /\ r.overflows = a.overflows
        /\ r.swapFailed = a.swapFailed /\ r.pending = a.pending /\ r.delayed = a.delayed
        /\ r.overflowed = a.overflowed /\ r.waiting = a.waiting /\ r.nextUnblock = a.nextUnblock
    BY <1>5, <1>10 DEF Still
  <2> QED BY <1>9, <2>1, <2>2, <2>3, <2>4, <2>5 DEF Typed
<1>17. Homed(r, live)
  <2>1. \A q \in Priorities : \A t \in ToSet(r.ready[q]) :
          t \in live /\ t \notin Blocked(r) /\ r.priority[t] = q /\ q <= r.top
    <3> SUFFICES ASSUME NEW q \in Priorities, NEW t \in ToSet(r.ready[q])
                 PROVE  t \in live /\ t \notin Blocked(r) /\ r.priority[t] = q /\ q <= r.top
      OBVIOUS
    <3>1. CASE t = h
      BY <1>1, <1>2, <1>3, <1>10, <1>13, <1>14, <1>15, <3>1
    <3>2. CASE t # h
      <4>1. t \in ToSet(k.ready[q])
        BY <1>13, <3>2
      <4>2. t \in live /\ t \notin Blocked(k) /\ k.priority[t] = q /\ q <= k.top
        BY <1>1, <4>1 DEF Homed
      <4> QED BY <1>2, <1>10, <1>14, <1>15, <3>2, <4>2
    <3> QED BY <3>1, <3>2
  <2>2. \A t \in live : t \in Blocked(r) \/ t \in ToSet(r.ready[r.priority[t]])
    <3> SUFFICES ASSUME NEW t \in live, t \notin Blocked(k)
                 PROVE  t \in ToSet(r.ready[r.priority[t]])
      BY <1>14
    <3>1. t \in ToSet(k.ready[k.priority[t]]) /\ k.priority[t] \in Priorities
      BY <1>1, <1>2 DEF Homed
    <3> QED BY <1>1, <1>13, <1>15, <3>1
  <2> QED BY <1>1, <1>10, <1>13, <2>1, <2>2 DEF Homed
<1>18. Events(r)
  <2>1. p \in Int
    BY <1>2
  <2> QED BY <1>1, <1>4, <1>10, <2>1, RerankedEvents
<1>19. Waiters(r)
  BY <1>1, <1>10, <1>14 DEF Waiters
<1>20. Timed(r)
  <2>6. k.delayed \in TaskList /\ k.overflowed \in TaskList /\ k.wake \in [Task -> 0..MaxDelay]
    BY <1>2
  <2>7. /\ ToSet(k.delayed) \subseteq Task
        /\ \A i \in 1..Len(k.delayed) : k.delayed[i] \in ToSet(k.delayed)
    BY <2>6, ListIs
  <2>8. /\ ToSet(k.overflowed) \subseteq Task
        /\ \A i \in 1..Len(k.overflowed) : k.overflowed[i] \in ToSet(k.overflowed)
    BY <2>6, ListIs
  <2>9. \A t \in Task : t # h => r.wake[t] = k.wake[t]
    BY <1>10, <2>6
  <2>1. \A t \in ToSet(k.delayed) \cup ToSet(k.overflowed) : r.wake[t] = k.wake[t]
    BY <1>3, <2>7, <2>8, <2>9
  <2>2. /\ \A i \in 1..Len(k.delayed) : k.delayed[i] \in ToSet(k.delayed)
        /\ \A i \in 1..Len(k.overflowed) : k.overflowed[i] \in ToSet(k.overflowed)
    BY <2>7, <2>8
  <2>3. /\ Sorted(k.delayed, k.wake) /\ Sorted(k.overflowed, k.wake)
        /\ NotOverdue(k) /\ NextTurn(k) /\ ~k.swapFailed
    BY <1>1 DEF Timed, InOrder
  <2>4. Sorted(r.delayed, r.wake) /\ Sorted(r.overflowed, r.wake)
    BY <1>10, <2>1, <2>2, <2>3 DEF Sorted
  <2>5. NotOverdue(r) /\ NextTurn(r) /\ ~r.swapFailed
    BY <1>10, <2>1, <2>3 DEF NotOverdue, NextTurn, Still
  <2> QED BY <2>4, <2>5 DEF Timed, InOrder
<1>21. IdleReady(r)
  <2>1. Idle \in Task
    BY DEF TaskAssumption
  <2> QED BY <1>1, <1>2, <1>13, <1>15, <2>1 DEF IdleReady
<1>22. \A t \in Task : IsRunnable(k, t) <=> IsRunnable(r, t)
  <2> SUFFICES ASSUME NEW t \in Task PROVE IsRunnable(k, t) <=> IsRunnable(r, t)
    OBVIOUS
  <2>1. k.priority[t] \in Priorities
    BY <1>2
  <2> QED BY <1>13, <1>15, <2>1 DEF IsRunnable
<1>23. r.suspended = 0 => r.pending = << >> /\ r.missedTicks = 0
  BY <1>10 DEF Settled, Still
<1> QED BY <1>10, <1>14, <1>16, <1>17, <1>18, <1>19, <1>20, <1>21, <1>22, <1>23
        DEF Settled, Sound, Reranks, r, b, a


(* vTaskPriorityInherit: the holder is at least as important as the task   *)
(* that runs, whether it is ready or not.                                  *)
LEMMA PriorityInheritSettled ==
  ASSUME TaskAssumption, TickAssumption, NEW k, NEW live \in SUBSET Task, Settled(k, live),
         NEW h \in live, h # Idle, \A e \in EventLists : h \notin ToSet(k.waiting[e])
  PROVE  /\ Settled(PriorityInherit(k, h), live)
         /\ \E p \in Priorities : /\ Reranks(k, PriorityInherit(k, h), h, p)
                                 /\ k.priority[k.current] <= p /\ k.priority[h] <= p
<1> DEFINE p == k.priority[k.current]
           a == Reranked(k, h, p)
           r == PriorityInherit(k, h)
<1>1. /\ Typed(k) /\ Homed(k, live) /\ Events(k) /\ Waiters(k) /\ Timed(k) /\ IdleReady(k)
      /\ h \in Task
  BY DEF Settled, Sound
<1>2. /\ k.priority \in [Task -> Priorities] /\ k.current \in Task
      /\ \A q \in Priorities : q \in Int
  <2>1. \A q \in Priorities : q \in Int
    BY DEF TaskAssumption, Priorities
  <2> QED BY <1>1, <2>1 DEF Typed
<1>3. p \in Priorities /\ k.priority[h] \in Priorities /\ k.ready[k.priority[h]] \in TaskList
  BY <1>1, <1>2 DEF Typed
<1> HIDE DEF p
<1>4. CASE k.priority[h] >= p
  <2>1. r = k
    BY <1>4 DEF PriorityInherit, p
  <2>2. Reranks(k, k, h, k.priority[h])
    BY <1>1, <1>2 DEF Reranks, Still
  <2> QED BY <1>2, <1>3, <1>4, <2>1, <2>2 DEF p
<1>5. CASE ~(k.priority[h] >= p) /\ IsRunnable(k, h)
  <2>1. Contains(k.ready[k.priority[h]], h)
    BY <1>3, <1>5, ListIs DEF IsRunnable
  <2>2. r = AddTaskToReadyQueue(RemoveGenericItem(a, h), h)
    BY <1>5, <2>1 DEF PriorityInherit, Reranked, p
  <2> HIDE DEF r
  <2>3. Settled(r, live) /\ Reranks(k, r, h, p)
    BY <1>3, <1>5, <2>2, RequeueSettled
  <2>4. p <= p /\ k.priority[h] <= p
    BY <1>2, <1>3, <1>5
  <2> QED BY <1>3, <2>3, <2>4 DEF r, p
<1>6. CASE ~(k.priority[h] >= p) /\ ~IsRunnable(k, h)
  <2>1. ~Contains(k.ready[k.priority[h]], h)
    BY <1>3, <1>6, ListIs DEF IsRunnable
  <2>2. r = a
    BY <1>6, <2>1 DEF PriorityInherit, Reranked, p
  <2>3. /\ Typed(a) /\ a = [f \in Parts |-> a[f]] /\ Still(k, a)
        /\ a.ready = k.ready /\ a.top = k.top /\ a.pending = k.pending
        /\ a.delayed = k.delayed /\ a.overflowed = k.overflowed /\ a.wake = k.wake
        /\ a.waiting = k.waiting /\ a.nextUnblock = k.nextUnblock
        /\ a.priority = [k.priority EXCEPT ![h] = p]
        /\ a.eventKey = [k.eventKey EXCEPT ![h] = MaxPriorities - p]
    BY <1>1, <1>3, RerankedIs
  <2> HIDE DEF a, r
  <2>4. Blocked(a) = Blocked(k)
    BY <2>3 DEF Blocked
  <2>5. h \in Blocked(k) /\ \A q \in Priorities : h \notin ToSet(k.ready[q])
    BY <1>1, <1>6 DEF Homed, IsRunnable
  <2>6. \A t \in Task : t # h => a.priority[t] = k.priority[t]
    BY <1>2, <2>3
  <2>7. \A t \in Task : IsRunnable(k, t) <=> IsRunnable(a, t)
    <3>1. a.priority[h] = p
      BY <1>1, <1>2, <2>3
    <3> QED BY <1>3, <1>6, <2>3, <2>5, <2>6, <3>1 DEF IsRunnable
  <2>8. Homed(a, live)
    <3>1. ASSUME NEW q \in Priorities, NEW t \in ToSet(a.ready[q])
          PROVE  t \in live /\ t \notin Blocked(a) /\ a.priority[t] = q /\ q <= a.top
      BY <1>1, <2>3, <2>4, <2>5, <2>6, <3>1 DEF Homed
    <3>2. \A t \in live : t \in Blocked(a) \/ t \in ToSet(a.ready[a.priority[t]])
      BY <1>1, <2>3, <2>4, <2>5, <2>6 DEF Homed
    <3> QED BY <1>1, <2>3, <3>1, <3>2 DEF Homed
  <2>9. Events(a)
    BY <1>1, <1>2, <1>3, <2>3, RerankedEvents
  <2>10. Waiters(a)
    BY <1>1, <2>3, <2>4 DEF Waiters
  <2>11. Timed(a)
    BY <1>1, <2>3 DEF Timed, InOrder, NotOverdue, NextTurn, Still
  <2>12. IdleReady(a)
    BY <1>1, <2>3, <2>6 DEF IdleReady, TaskAssumption
  <2>13. a.suspended = 0 => a.pending = << >> /\ a.missedTicks = 0
    BY <2>3 DEF Settled, Still
  <2>14. Settled(a, live) /\ Reranks(k, a, h, p)
    BY <2>3, <2>4, <2>7, <2>8, <2>9, <2>10, <2>11, <2>12, <2>13 DEF Settled, Sound, Reranks
  <2>15. p <= p /\ k.priority[h] <= p
    BY <1>2, <1>3, <1>6
  <2> QED BY <1>3, <2>2, <2>14, <2>15 DEF p, r
<1> QED BY <1>4, <1>5, <1>6

(* vTaskPriorityDisinherit: a task that runs has its own priority again.   *)
LEMMA PriorityDisinheritSettled ==
  ASSUME TaskAssumption, TickAssumption, NEW k, NEW live \in SUBSET Task, Settled(k, live),
         NEW h \in live, h # Idle, IsRunnable(k, h)
  PROVE  LET r == PriorityDisinherit(k, h)
         IN  Settled(r, live) /\ Reranks(k, r, h, BasePriority[h])
<1> DEFINE p == BasePriority[h]
           r == PriorityDisinherit(k, h)
<1>1. Typed(k) /\ h \in Task /\ p \in Priorities
  BY DEF Settled, Sound, TaskAssumption, Priorities
<1>2. CASE k.priority[h] = p
  <2>1. r = k
    BY <1>2 DEF PriorityDisinherit
  <2>2. Reranks(k, k, h, k.priority[h])
    BY <1>1 DEF Reranks, Still, Typed
  <2> QED BY <1>2, <2>1, <2>2
<1>3. CASE k.priority[h] # p
  <2>1. r = AddTaskToReadyQueue(RemoveGenericItem(Reranked(k, h, p), h), h)
    BY <1>3 DEF PriorityDisinherit, Reranked
  <2> HIDE DEF r, p
  <2>2. Settled(r, live) /\ Reranks(k, r, h, p)
    BY <1>1, <2>1, RequeueSettled
  <2> QED BY <2>2 DEF r, p
<1> QED BY <1>2, <1>3

(* The first waiter of an event list is the most important.                *)
LEMMA FirstIsHighest ==
  ASSUME TaskAssumption, NEW k, NEW live, Sound(k, live),
         NEW e \in EventLists, k.waiting[e] # << >>
  PROVE  /\ Head(k.waiting[e]) \in ToSet(k.waiting[e])
         /\ \A t \in ToSet(k.waiting[e]) : k.priority[t] <= k.priority[Head(k.waiting[e])]
<1>1. /\ k.waiting[e] \in TaskList /\ k.priority \in [Task -> Priorities]
      /\ k.eventKey \in [Task -> Int] /\ Sorted(k.waiting[e], k.eventKey)
      /\ \A t \in Task : k.eventKey[t] = MaxPriorities - k.priority[t]
  BY DEF Sound, Typed, Events, ByRank
<1> DEFINE list == k.waiting[e]
<1>2. /\ Len(list) \in Nat \ {0} /\ Head(list) = list[1] /\ Head(list) \in ToSet(list)
      /\ \A i \in 1..Len(list) : list[i] \in Task
      /\ \A t \in ToSet(list) : \E i \in 1..Len(list) : list[i] = t
  BY <1>1, ListIs, TailList
<1> HIDE DEF list
<1>3. ASSUME NEW t \in ToSet(list) PROVE k.priority[t] <= k.priority[Head(list)]
  <2>1. PICK i \in 1..Len(list) : list[i] = t
    BY <1>2
  <2>2. k.eventKey[list[1]] <= k.eventKey[list[i]]
    <3>1. Sorted(list, k.eventKey) /\ 1 \in 1..Len(list)
      BY <1>1, <1>2 DEF list
    <3>2. CASE i = 1
      <4>1. k.eventKey[list[1]] \in Int
        BY <1>1, <1>2
      <4> QED BY <1>2, <3>1, <3>2, <4>1
    <3>3. CASE i # 1
      <4>1. 1 < i
        BY <2>1, <3>3
      <4> QED BY <3>1, <4>1 DEF Sorted
    <3> QED BY <3>2, <3>3
  <2>3. k.priority[list[1]] \in Int /\ k.priority[list[i]] \in Int /\ MaxPriorities \in Int
    BY <1>1, <1>2 DEF TaskAssumption, Priorities
  <2>4. /\ k.eventKey[list[1]] = MaxPriorities - k.priority[list[1]]
        /\ k.eventKey[list[i]] = MaxPriorities - k.priority[list[i]]
    BY <1>1, <1>2
  <2> QED BY <1>2, <2>1, <2>2, <2>3, <2>4
<1> QED BY <1>2, <1>3 DEF list

===============================================================================
