------------------------------ MODULE IpReass ------------------------------
(***************************************************************************)
(* Fragments of IP datagrams: how ip_frag cuts a datagram for a link, and  *)
(* how ip_reass puts together what arrives, in any order, more than once,  *)
(* or cut for different links.  Numbers are bytes of a datagram's payload. *)
(* reass is the list reassdatagrams, newest first; a datagram's fragments  *)
(* are chained in the order of their starts.  Each holds as many pbufs as  *)
(* it arrived in; all fragments together may hold MaxPbufs.                *)
(* A failed assertion halts the program.                                   *)
(***************************************************************************)
EXTENDS Naturals, FiniteSetsExt, SequencesExt

CONSTANTS
  Datagram,   \* source, destination and id of the datagrams under way
  Total,      \* the bytes of each datagram's payload
  Rooms,      \* for each, the payload in a frame, on the links it may take
  Clens,      \* the pbufs a frame may arrive in
  MaxPbufs,   \* IP_REASS_MAX_PBUFS
  MaxAge      \* IP_REASS_MAXAGE, in ticks of ip_reass_tmr

ReassAssumption ==
  /\ Total \in Nat \ {0} /\ MaxPbufs \in Nat \ {0} /\ MaxAge \in Nat
  /\ Clens \subseteq 1..MaxPbufs /\ Rooms \in [Datagram -> SUBSET (8..(Total - 1))]

(* Each datagram comes over one link, whose frames hold eight bytes of it.  *)
EightEach == [d \in Datagram |-> {8}]

VARIABLES
  reass,      \* reassdatagrams
  pbufcount,  \* ip_reass_pbufcount
  out,        \* what the last call of ip_reass returned, or NoDatagram
  halted      \* the assertion that has failed, and over which datagram

vars == <<reass, pbufcount, out, halted>>

NoDatagram == [frags |-> <<>>]
NoHalt == [why |-> "none"]

(* What ip_frag makes of a payload of which left bytes, from byte ofo on,  *)
(* are still to go: every piece but the last is a multiple of eight bytes. *)
RECURSIVE Cut(_, _, _)
Cut(ofo, left, room) ==
  IF left <= room
    THEN {[start |-> ofo, end |-> ofo + left, more |-> FALSE]}
    ELSE LET cop == 8 * (room \div 8)
         IN  {[start |-> ofo, end |-> ofo + cop, more |-> TRUE]}
             \union Cut(ofo + cop, left - cop, room)

Fragments(d) == UNION {Cut(0, Total, r) : r \in Rooms[d]}

Pbufs(frags) == FoldSeq(LAMBDA f, n : f.clen + n, 0, frags)

Init == reass = <<>> /\ pbufcount = 0 /\ out = NoDatagram /\ halted = NoHalt

-----------------------------------------------------------------------------
(* Room for the fragment of datagram d: the oldest of the other datagrams  *)
(* goes, the last in the list of those with the least time left.  The      *)
(* loop's prev is the last but one of the list, whichever the oldest is;   *)
(* freeing asserts that it precedes the oldest.                            *)
Others(list, d) == {i \in DOMAIN list : list[i].id # d}

(* Mutant: of several with the least time, the first in the list.          *)
OldestFirst(list, d) ==
  CHOOSE i \in Others(list, d) : \A j \in Others(list, d) :
    \/ list[i].timer < list[j].timer
    \/ list[i].timer = list[j].timer /\ i <= j

Oldest(list, d) ==
  CHOOSE i \in Others(list, d) : \A j \in Others(list, d) :
    \/ list[i].timer < list[j].timer
    \/ list[i].timer = list[j].timer /\ i >= j

RECURSIVE RemoveOldest(_, _, _, _)
RemoveOldest(list, d, needed, freed) ==
  IF Others(list, d) = {}
    THEN [list |-> list, freed |-> freed, fails |-> FALSE]
    ELSE LET i == Oldest(list, d)
             n == freed + Pbufs(list[i].frags)
         IN  IF Len(list) > 1 /\ i # Len(list)
               THEN [list |-> list, freed |-> freed, fails |-> TRUE]
               ELSE IF n < needed /\ Cardinality(Others(list, d)) > 1
                      THEN RemoveOldest(RemoveAt(list, i), d, needed, n)
                      ELSE [list |-> RemoveAt(list, i), freed |-> n, fails |-> FALSE]

(* ip_reass_enqueue_new_datagram: the record may not be had at first, and  *)
(* not even after the oldest datagrams have gone.                          *)
Fresh(d, f) ==
  [id |-> d, timer |-> MaxAge, frags |-> <<>>, last |-> FALSE, len |-> 0, head |-> f.start]

-----------------------------------------------------------------------------
(* Where a fragment goes: before the first that starts after it.           *)
Stops(frags, f) ==
  {i \in DOMAIN frags : f.start < frags[i].start \/ f.start < frags[i].end}

Place(frags, f) ==
  IF Stops(frags, f) = {} THEN Len(frags) + 1 ELSE Min(Stops(frags, f))

(* Mutant: overlaps are not looked for (IP_REASS_CHECK_OVERLAP 0).         *)
RefusedSame(frags, f) ==
  LET i == Place(frags, f) IN i <= Len(frags) /\ f.start = frags[i].start

(* A fragment is refused that starts inside another, or that comes between *)
(* two and overlaps one of them; before the first it is not looked at.     *)
Refused(frags, f) ==
  LET i == Place(frags, f)
  IN  i <= Len(frags) /\ \/ f.start >= frags[i].start
                         \/ i > 1 /\ (f.start < frags[i - 1].end \/ f.end > frags[i].start)

(* Mutant: the fragments before the new one are not looked at.             *)
ContinuousAfter(frags, i) ==
  /\ frags[1].start = 0
  /\ \A j \in i..(Len(frags) - 1) : frags[j].end = frags[j + 1].start

(* Continuity, as it is checked once fragment f is in its place i: up to   *)
(* the fragment before it, from it on, and before it only when it is last. *)
Continuous(frags, i) ==
  /\ \A j \in 2..(i - 1) : frags[j - 1].end = frags[j].start
  /\ i > 1 /\ i = Len(frags) => frags[i - 1].end = frags[i].start
  /\ frags[1].start = 0
  /\ \A j \in i..(Len(frags) - 1) : frags[j].end = frags[j + 1].start

(* Mutant: the header stays that of the fragment that came first.          *)
NotedFirst(ipr, f) ==
  [ipr EXCEPT !.last = @ \/ ~f.more, !.len = IF f.more THEN @ ELSE f.end]

(* The datagram's record when f has arrived: the header is that of the     *)
(* first fragment, once it has come, and the last fragment tells the       *)
(* length, even when it is refused.                                        *)
Noted(ipr, f) ==
  [ipr EXCEPT !.head = IF f.start = 0 THEN 0 ELSE @,
              !.last = @ \/ ~f.more,
              !.len = IF f.more THEN @ ELSE f.end]

Chained(ipr, f) ==
  [ipr EXCEPT !.frags = InsertAt(@, Place(@, f), f)]

Complete(ipr, f) ==
  ipr.last /\ Continuous(ipr.frags, Place(ipr.frags, f))

Halt(why, d) == halted' = [why |-> why, id |-> d] /\ UNCHANGED <<reass, pbufcount, out>>

(* With the fragment in place the datagram stays in the list, or goes to   *)
(* the caller; one found complete must end where the last fragment said.   *)
Keep(list, count, p, full) ==
  /\ reass' = [list EXCEPT ![p] = full]
  /\ pbufcount' = count
  /\ out' = NoDatagram /\ UNCHANGED halted

Return(list, count, p, full, f) ==
  /\ reass' = RemoveAt(list, p)
  /\ pbufcount' = count - Pbufs(full.frags)
  /\ out' = [id |-> full.id, frags |-> full.frags, len |-> full.len,
             head |-> full.head, newest |-> f]
  /\ UNCHANGED halted

(* Mutant: a refused fragment stays in the count.                          *)
DeliverCounted(list, count, p, f) ==
  \E ipr \in {Noted(list[p], f)} :
    Keep(list, count + f.clen, p, IF Refused(ipr.frags, f) THEN ipr ELSE Chained(ipr, f))

(* The list at position p takes f, when the fragments hold count pbufs.    *)
Deliver(list, count, p, f) ==
  \E ipr \in {Noted(list[p], f)} : \E full \in {Chained(ipr, f)} :
    \/ Refused(ipr.frags, f) /\ Keep(list, count, p, ipr)
    \/ /\ ~Refused(ipr.frags, f)
       /\ \/ ~Complete(full, f) /\ Keep(list, count + f.clen, p, full)
          \/ /\ Complete(full, f)
             /\ IF Last(full.frags).end = full.len
                  THEN Return(list, count + f.clen, p, full, f)
                  ELSE Halt("length", full.id)

Known(list, d) == {i \in DOMAIN list : list[i].id = d}

Drop(list, count) ==
  reass' = list /\ pbufcount' = count /\ out' = NoDatagram /\ UNCHANGED halted

(* ip_reass for a fragment of d: room for its pbufs, then the datagram's   *)
(* record, which may need room as well, then the chain.                    *)
Accept(d, f, list, count) ==
  IF Known(list, d) # {}
    THEN Deliver(list, count, Min(Known(list, d)), f)
    ELSE \/ Deliver(<<Fresh(d, f)>> \o list, count, 1, f)
         \/ \E r \in {RemoveOldest(list, d, f.clen, 0)} :
              IF r.fails THEN Halt("prev", d)
              ELSE \/ Drop(r.list, count - r.freed)
                   \/ /\ r.freed >= f.clen
                      /\ Deliver(<<Fresh(d, f)>> \o r.list, count - r.freed, 1, f)

Reass(d, f) ==
  /\ halted = NoHalt
  /\ IF pbufcount + f.clen <= MaxPbufs
       THEN Accept(d, f, reass, pbufcount)
       ELSE \E r \in {RemoveOldest(reass, d, f.clen, 0)} :
              IF r.fails THEN Halt("prev", d)
              ELSE IF r.freed = 0 \/ pbufcount - r.freed + f.clen > MaxPbufs
                     THEN Drop(r.list, pbufcount - r.freed)
                     ELSE Accept(d, f, r.list, pbufcount - r.freed)

(* Mutant: the pbufs of an expired datagram stay in the count.             *)
TimerUncounted ==
  /\ halted = NoHalt /\ reass # <<>>
  /\ reass' = LET Alive(ipr) == ipr.timer > 0
                  kept == SelectSeq(reass, Alive)
              IN  [i \in DOMAIN kept |-> [kept[i] EXCEPT !.timer = @ - 1]]
  /\ UNCHANGED <<pbufcount, out, halted>>

(* ip_reass_tmr: a datagram whose time is up goes, with its pbufs.         *)
Timer ==
  /\ halted = NoHalt /\ reass # <<>>
  /\ reass' = LET Alive(ipr) == ipr.timer > 0
                  kept == SelectSeq(reass, Alive)
              IN  [i \in DOMAIN kept |-> [kept[i] EXCEPT !.timer = @ - 1]]
  /\ pbufcount' = FoldSeq(LAMBDA ipr, n : n + Pbufs(ipr.frags), 0, reass')
  /\ UNCHANGED <<out, halted>>

Next ==
  \/ \E d \in Datagram : \E f \in Fragments(d), c \in Clens :
       Reass(d, [start |-> f.start, end |-> f.end, more |-> f.more, clen |-> c, of |-> d])
  \/ Timer

Spec == Init /\ [][Next]_vars

-----------------------------------------------------------------------------
Fragment == [start : Nat, end : Nat, more : BOOLEAN, clen : Clens, of : Datagram]

TypeOK ==
  /\ \A i \in DOMAIN reass :
       /\ reass[i].id \in Datagram /\ reass[i].timer \in 0..MaxAge
       /\ \A j \in DOMAIN reass[i].frags : reass[i].frags[j] \in Fragment
  /\ pbufcount \in Nat
  /\ halted \in {NoHalt} \union [why : {"prev", "length"}, id : Datagram]

(* The count of pbufs is that of the fragments kept, and within its limit, *)
(* whichever were refused, delivered, expired or pushed out                *)
(* (ip_reass_pbufcount).                                                   *)
CountKept ==
  /\ pbufcount = FoldSeq(LAMBDA ipr, n : n + Pbufs(ipr.frags), 0, reass)
  /\ pbufcount <= MaxPbufs

(* A datagram is in the list once, with at least one fragment, the list is *)
(* in the order of age, and a datagram keeps fragments of its own alone,   *)
(* which start one after another.                                          *)
ListInOrder ==
  /\ \A i, j \in DOMAIN reass : i < j =>
       reass[i].id # reass[j].id /\ reass[i].timer >= reass[j].timer
  /\ \A i \in DOMAIN reass : LET fs == reass[i].frags IN
       /\ fs # <<>>
       /\ \A k \in DOMAIN fs : fs[k].of = reass[i].id
       /\ \A k \in 1..(Len(fs) - 1) : fs[k].start < fs[k + 1].start

(* What ip_reass returns starts with the first fragment, under its header, *)
(* has the length the last one told, and no byte twice; a hole can only be *)
(* before the fragment that came last.                                     *)
AtMostOneHole ==
  out # NoDatagram =>
    LET fs == out.frags IN
    /\ fs[1].start = 0 /\ out.head = 0 /\ out.len = Total /\ fs[Len(fs)].end = Total
    /\ \A k \in DOMAIN fs : fs[k].of = out.id
    /\ \A k \in 1..(Len(fs) - 1) :
         \/ fs[k].end = fs[k + 1].start
         \/ fs[k + 1] = out.newest /\ fs[k].end < fs[k + 1].start

(* What ip_reass returns is whole: "checks that the datagram passes basic  *)
(* continuity checks".  It need not be: a fragment put between two others  *)
(* is not compared with the one before it.                                 *)
DeliveredWhole ==
  \A k \in 1..(Len(out.frags) - 1) : out.frags[k].end = out.frags[k + 1].start

(* Assertions fail, and halt the program, in two cases only: there is no   *)
(* room for a fragment whose datagram is older than another ("prev !=      *)
(* ipr", ip_reass_free_complete_datagram), or a datagram was cut in more   *)
(* than one way and its last fragment refused ("datagram end!=datagram     *)
(* len").                                                                  *)
HaltsExplained ==
  /\ halted.why = "prev" => \E i \in Known(reass, halted.id) : i > 1
  /\ halted.why = "length" => Cardinality(Rooms[halted.id]) > 1
=============================================================================
