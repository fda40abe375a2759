-------------------------------- MODULE Pbuf --------------------------------
(***************************************************************************)
(* The buffers of packets (lwip/core/pbuf.c): chains with a count of       *)
(* references in each buffer, used by several threads.  pbuf_free walks a  *)
(* chain one protected step at a time, so that other threads come between. *)
(* A buffer's data are left out; PbufData has what is copied where.        *)
(* Who changes a chain is the only one to, as all of lwIP's callers are:   *)
(* the chain is no other's tail, and nothing but it leads to its buffers.  *)
(***************************************************************************)
EXTENDS Naturals, FiniteSetsExt, SequencesExt

CONSTANTS
  Thread,
  Types,       \* the types of buffers in use: "pool", "ram", "ref" (and "rom")
  MaxPbufs,    \* buffers at a time (a bound; the heap may fail before)
  BufSize,     \* PBUF_POOL_BUFSIZE
  Layers,      \* space for headers before the payload
  MaxLen,      \* bytes in a chain (a bound)
  MaxHandles,  \* references the threads keep to a buffer (a bound)
  Pcbs         \* connections with a queue of early segments

PbufAssumption ==
  /\ Types \subseteq {"pool", "ram", "ref"}
  /\ MaxPbufs \in Nat \ {0} /\ Layers \subseteq 0..BufSize /\ MaxLen \in Nat
  /\ \A l \in Layers : l < BufSize

VARIABLES
  pb,       \* the buffers; next = 0 at the end of a chain
  handles,  \* for each buffer, the references that threads and queues keep
  freeing,  \* for each thread, the buffer its pbuf_free has come to, or 0
  asking,   \* for each thread, whether it is about to post pbuf_free_ooseq
  queued,   \* pbuf_free_ooseq_queued
  box,      \* calls of pbuf_free_ooseq in the tcp/ip thread's mailbox
  ooseq     \* for each connection, the buffer queued early, or 0

vars == <<pb, handles, freeing, asking, queued, box, ooseq>>

Id == 1..MaxPbufs
Unused == [type |-> "none", room |-> 0, len |-> 0, tot |-> 0, ref |-> 0, next |-> 0]
Live == {p \in Id : pb[p].type # "none"}

Init ==
  /\ pb = [p \in Id |-> Unused] /\ handles = [p \in Id |-> 0]
  /\ freeing = [t \in Thread |-> 0] /\ asking = [t \in Thread |-> FALSE]
  /\ queued = FALSE /\ box = 0 /\ ooseq = [c \in Pcbs |-> 0]

Idle(t) == freeing[t] = 0 /\ ~asking[t]

-----------------------------------------------------------------------------
(* The chain from p on, and what leads to a buffer.                        *)
Chain[p \in 0..MaxPbufs] == IF p = 0 THEN <<>> ELSE <<p>> \o Chain[pb[p].next]

Before(p) == {q \in Live : pb[q].next = p}

Owned(p) ==
  /\ handles[p] > 0 /\ Before(p) = {}
  /\ \A q \in ToSet(Chain[pb[p].next]) : Cardinality(Before(q)) = 1

(* PBUF_POOL: the lengths of the buffers for n bytes after offset.         *)
RECURSIVE PoolLens(_, _)
PoolLens(n, offset) ==
  LET len == Min({n, BufSize - offset})
  IN  <<len>> \o IF n = len THEN <<>> ELSE PoolLens(n - len, 0)

Sum(s) == FoldSeq(LAMBDA x, y : x + y, 0, s)

(* New buffers of these lengths, in the order of ids that are not used.    *)
Chosen(n) == SubSeq(SetToSortSeq(Id \ Live, LAMBDA x, y : x < y), 1, n)

Made(type, offset, lens, ids) ==
  [p \in Id |->
     IF p \notin ToSet(ids) THEN pb[p]
     ELSE LET i == CHOOSE j \in DOMAIN ids : ids[j] = p
          IN  [type |-> type, room |-> IF i = 1 THEN offset ELSE 0,
               len |-> lens[i], tot |-> Sum(SubSeq(lens, i, Len(lens))), ref |-> 1,
               next |-> IF i = Len(ids) THEN 0 ELSE ids[i + 1]]]

Lens(type, offset, n) == IF type = "pool" THEN PoolLens(n, offset) ELSE <<n>>

(* pbuf_alloc; PBUF_REF and PBUF_ROM have no room for headers.  When the   *)
(* pool is empty, the early segments are asked for, unless they have been. *)
Alloc(t, type, offset, n) ==
  /\ Idle(t)
  /\ \/ /\ Len(Lens(type, offset, n)) <= Cardinality(Id \ Live)
        /\ LET lens == Lens(type, offset, n)
               ids == Chosen(Len(lens))
           IN  /\ pb' = Made(type, IF type = "ref" THEN 0 ELSE offset, lens, ids)
               /\ handles' = [handles EXCEPT ![ids[1]] = 1]
        /\ UNCHANGED <<asking, queued>>
     \/ /\ asking' = [asking EXCEPT ![t] = type = "pool" /\ ~queued]
        /\ queued' = (queued \/ type = "pool")
        /\ UNCHANGED <<pb, handles>>
  /\ UNCHANGED <<freeing, box, ooseq>>

(* Mutant: the mark stays when the call could not be posted.               *)
AskOoseqMarked(t) ==
  /\ asking[t]
  /\ asking' = [asking EXCEPT ![t] = FALSE]
  /\ box' \in {box, box + 1}
  /\ UNCHANGED <<pb, handles, freeing, queued, ooseq>>

(* pbuf_pool_is_empty: the call is posted if the mailbox, which others use *)
(* as well, has room.                                                      *)
AskOoseq(t) ==
  /\ asking[t]
  /\ asking' = [asking EXCEPT ![t] = FALSE]
  /\ \/ box' = box + 1 /\ UNCHANGED queued
     \/ queued' = FALSE /\ UNCHANGED box
  /\ UNCHANGED <<pb, handles, freeing, ooseq>>

(* pbuf_free_ooseq, in the tcp/ip thread: the first queue there is goes.   *)
FreeOoseq(t) ==
  /\ box > 0 /\ Idle(t)
  /\ box' = box - 1 /\ queued' = FALSE
  /\ LET full == {c \in Pcbs : ooseq[c] # 0} IN
       IF full = {} THEN UNCHANGED <<freeing, handles, ooseq>>
       ELSE LET c == Min(full) IN
            /\ freeing' = [freeing EXCEPT ![t] = ooseq[c]]
            /\ handles' = [handles EXCEPT ![ooseq[c]] = @ - 1]
            /\ ooseq' = [ooseq EXCEPT ![c] = 0]
  /\ UNCHANGED <<pb, asking>>

(* tcp_receive keeps an early segment.                                     *)
Queue(p, c) ==
  /\ handles[p] > Cardinality({d \in Pcbs : ooseq[d] = p}) /\ ooseq[c] = 0
  /\ ooseq' = [ooseq EXCEPT ![c] = p]
  /\ UNCHANGED <<pb, handles, freeing, asking, queued, box>>

-----------------------------------------------------------------------------
(* What a thread may give up: references that no queue keeps.              *)
Spare(p) == handles[p] > Cardinality({c \in Pcbs : ooseq[c] = p})

Free(t, p) ==
  /\ Idle(t) /\ Spare(p)
  /\ handles' = [handles EXCEPT ![p] = @ - 1]
  /\ freeing' = [freeing EXCEPT ![t] = p]
  /\ UNCHANGED <<pb, asking, queued, box, ooseq>>

(* Mutant: the walk goes on behind a buffer that is still referenced.      *)
FreeStepOn(t) ==
  /\ freeing[t] # 0
  /\ LET p == freeing[t] IN
       /\ pb' = [pb EXCEPT ![p] = IF @.ref = 1 THEN Unused ELSE [@ EXCEPT !.ref = @ - 1]]
       /\ freeing' = [freeing EXCEPT ![t] = pb[p].next]
  /\ UNCHANGED <<handles, asking, queued, box, ooseq>>

(* One turn of pbuf_free: a buffer whose last reference this was goes, and *)
(* with it its reference to the next.                                      *)
FreeStep(t) ==
  /\ freeing[t] # 0
  /\ LET p == freeing[t] IN
       IF pb[p].ref = 1
         THEN /\ pb' = [pb EXCEPT ![p] = Unused]
              /\ freeing' = [freeing EXCEPT ![t] = pb[p].next]
         ELSE /\ pb' = [pb EXCEPT ![p].ref = @ - 1]
              /\ freeing' = [freeing EXCEPT ![t] = 0]
  /\ UNCHANGED <<handles, asking, queued, box, ooseq>>

Ref(t, p) ==
  /\ Idle(t) /\ handles[p] \in 1..(MaxHandles - 1)
  /\ handles' = [handles EXCEPT ![p] = @ + 1]
  /\ pb' = [pb EXCEPT ![p].ref = @ + 1]
  /\ UNCHANGED <<freeing, asking, queued, box, ooseq>>

-----------------------------------------------------------------------------
(* pbuf_realloc: the buffers up to the one where the new end is lose what  *)
(* the chain loses; that one becomes the last.                             *)
LastAt(p, n) ==
  LET c == Chain[p]
      upTo(i) == Sum([j \in 1..i |-> pb[c[j]].len])
  IN  c[Min({i \in DOMAIN c : n <= upTo(i)})]

(* Mutant: the buffers before the new end keep their tot_len.              *)
ShortenedLast(p, n) ==
  LET q == LastAt(p, n)
      rest == n - Sum([j \in 1..(Len(Chain[p]) - Len(Chain[q])) |-> pb[Chain[p][j]].len])
  IN  [pb EXCEPT ![p].tot = n, ![q].len = rest, ![q].tot = rest, ![q].next = 0]

Shortened(p, n) ==
  LET q == LastAt(p, n)
      cut == pb[p].tot - n
      kept == ToSet(Chain[p]) \ ToSet(Chain[q])
  IN  [r \in Id |->
         IF r \in kept THEN [pb[r] EXCEPT !.tot = @ - cut]
         ELSE IF r # q THEN pb[r]
         ELSE LET rest == n - Sum([j \in 1..(Len(Chain[p]) - Len(Chain[q])) |-> pb[Chain[p][j]].len])
              IN  [pb[q] EXCEPT !.len = rest, !.tot = rest, !.next = 0]]

Realloc(t, p, n) ==
  /\ Idle(t) /\ Spare(p) /\ Owned(p) /\ n < pb[p].tot
  /\ freeing' = [freeing EXCEPT ![t] = pb[LastAt(p, n)].next]
  /\ pb' = Shortened(p, n)
  /\ UNCHANGED <<handles, asking, queued, box, ooseq>>

(* pbuf_header: shown as far as there is room, hidden as far as there are  *)
(* bytes; buffers that refer to other memory can only hide.                *)
Header(t, p, n) ==
  /\ Idle(t) /\ Spare(p) /\ Owned(p)
  /\ \/ /\ pb[p].type # "ref" /\ n <= pb[p].room /\ pb[p].tot + n <= MaxLen
        /\ pb' = [pb EXCEPT ![p].room = @ - n, ![p].len = @ + n, ![p].tot = @ + n]
     \/ /\ n <= pb[p].len
        /\ pb' = [pb EXCEPT ![p].room = IF pb[p].type = "ref" THEN 0 ELSE @ + n,
                            ![p].len = @ - n, ![p].tot = @ - n]
  /\ UNCHANGED <<handles, freeing, asking, queued, box, ooseq>>

(* Mutant: only the first buffer counts what was added.                    *)
JoinedFirst(h, t) ==
  [r \in Id |->
     IF r \notin ToSet(Chain[h]) THEN pb[r]
     ELSE [pb[r] EXCEPT !.tot = IF r = h THEN @ + pb[t].tot ELSE @,
                        !.next = IF @ = 0 THEN t ELSE @]]

(* pbuf_cat: the reference to t goes to the last buffer of h.              *)
Joined(h, t) ==
  [r \in Id |->
     IF r \notin ToSet(Chain[h]) THEN pb[r]
     ELSE [pb[r] EXCEPT !.tot = @ + pb[t].tot, !.next = IF @ = 0 THEN t ELSE @]]

Joins(t, h, tail) ==
  /\ Idle(t) /\ Spare(h) /\ Spare(tail) /\ Owned(h)
  /\ ToSet(Chain[h]) \cap ToSet(Chain[tail]) = {}
  /\ pb[h].tot + pb[tail].tot <= MaxLen
  /\ UNCHANGED <<freeing, asking, queued, box, ooseq>>

Cat(t, h, tail) ==
  /\ Joins(t, h, tail)
  /\ pb' = Joined(h, tail)
  /\ handles' = [handles EXCEPT ![tail] = @ - 1]

(* pbuf_chain: the caller keeps its reference to the tail.                 *)
ChainTo(t, h, tail) ==
  /\ Joins(t, h, tail)
  /\ pb' = [Joined(h, tail) EXCEPT ![tail].ref = @ + 1]
  /\ UNCHANGED handles

Dechain(t, p) ==
  /\ Idle(t) /\ Spare(p) /\ Before(p) = {} /\ pb[p].next # 0
  /\ pb' = [pb EXCEPT ![p].next = 0, ![p].tot = pb[p].len,
                      ![pb[p].next].tot = pb[p].tot - pb[p].len]
  /\ freeing' = [freeing EXCEPT ![t] = pb[p].next]
  /\ UNCHANGED <<handles, asking, queued, box, ooseq>>

(* pbuf_coalesce: one buffer in the place of a chain, if it can be had.    *)
Coalesce(t, p, offset) ==
  /\ Idle(t) /\ Spare(p) /\ pb[p].next # 0 /\ Id \ Live # {}
  /\ LET q == Chosen(1)[1] IN
       /\ pb' = Made("ram", offset, <<pb[p].tot>>, <<q>>)
       /\ handles' = [handles EXCEPT ![p] = @ - 1, ![q] = 1]
  /\ freeing' = [freeing EXCEPT ![t] = p]
  /\ UNCHANGED <<asking, queued, box, ooseq>>

Next ==
  \E t \in Thread :
    \/ \E type \in Types, offset \in Layers, n \in 1..MaxLen :
         Alloc(t, type, offset, n)
    \/ AskOoseq(t) \/ FreeOoseq(t) \/ FreeStep(t)
    \/ \E p \in Live :
         \/ Free(t, p) \/ Ref(t, p) \/ Dechain(t, p)
         \/ \E c \in Pcbs : Queue(p, c)
         \/ \E n \in 0..MaxLen : Realloc(t, p, n)
         \/ \E n \in 1..MaxLen : Header(t, p, n)
         \/ \E q \in Live : Cat(t, p, q) \/ ChainTo(t, p, q)
         \/ \E offset \in Layers : Coalesce(t, p, offset)

Spec == Init /\ [][Next]_vars

-----------------------------------------------------------------------------
TypeOK ==
  /\ pb \in [Id -> [type : {"none", "pool", "ram", "ref"}, room : Nat, len : Nat, tot : Nat,
                    ref : Nat, next : 0..MaxPbufs]]
  /\ handles \in [Id -> 0..MaxHandles] /\ freeing \in [Thread -> 0..MaxPbufs]
  /\ asking \in [Thread -> BOOLEAN] /\ queued \in BOOLEAN /\ box \in 0..1
  /\ ooseq \in [Pcbs -> 0..MaxPbufs]

(* A buffer counts its references, those of threads, queues and buffers    *)
(* before it, and of a pbuf_free that has come to it; one that is free has *)
(* none, so nothing leads to memory that was given back, and nothing that  *)
(* no one refers to is kept.                                               *)
RefsExact ==
  \A p \in Id :
    /\ pb[p].ref = handles[p] + Cardinality(Before(p))
                   + Cardinality({t \in Thread : freeing[t] = p})
    /\ p \in Live <=> pb[p].ref > 0

(* tot_len is the length of a buffer and of all behind it, whatever was    *)
(* joined, cut off or taken apart.                                         *)
LengthsAddUp ==
  \A p \in Live :
    pb[p].tot = pb[p].len + IF pb[p].next = 0 THEN 0 ELSE pb[pb[p].next].tot

(* A mark that the early segments were asked for means that they will be   *)
(* freed: the call waits in the mailbox, or is about to be posted.         *)
AskedIsPosted == queued => box > 0 \/ \E t \in Thread : asking[t]
=============================================================================
