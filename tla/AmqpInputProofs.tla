--------------------------- MODULE AmqpInputProofs ---------------------------
(***************************************************************************)
(* Proofs about AmqpInput, for frames of any number and size, pieces of    *)
(* any length and pools of any page size: the frames that come out are the *)
(* ones that were sent, in order and whole, and the memory they lie in is  *)
(* nobody else's.                                                          *)
(*                                                                         *)
(* Two invariants.  One is about octets: those not consumed yet are the    *)
(* frames from the current one on, less what has been read of it.  The     *)
(* other is about memory: what is in use was handed out by its pool below  *)
(* the point from which the pool goes on.                                  *)
(***************************************************************************)
EXTENDS AmqpInput, SequenceTheorems, TLAPS

-----------------------------------------------------------------------------
(* Memory. *)

Octet == [frame : Nat, place : Nat]

Block == [kind : {"none", "page", "large", "lost"}, number : Nat]
Pool == [pagesize : Nat, pages : Nat, large : Nat, lost : Nat, next_page : Nat,
         alloc_block : Block, alloc_used : Nat]

\* The blocks a pool has handed out since the last recycle.
Taken(p, block) ==
  \/ block.kind = "page" /\ block.number <= p.next_page
  \/ block.kind = "large" /\ block.number <= p.large
  \/ block.kind = "lost" /\ block.number <= p.lost

PoolInv(p) ==
  /\ p \in Pool
  /\ p.next_page <= p.pages
  /\ p.alloc_block = NoBlock \/ (Taken(p, p.alloc_block) /\ p.alloc_block.kind # "large")

\* Memory a pool will not hand out again: the current block is used up to alloc_used.
Used(p, at) ==
  /\ at \in [block : Block, from : Nat, to : Nat]
  /\ Taken(p, at.block)
  /\ at.block = p.alloc_block => at.to <= p.alloc_used
  /\ at.block.kind # "large" => at.to <= p.pagesize

Sound(ps, hs) ==
  /\ \A c \in DOMAIN ps : PoolInv(ps[c])
  /\ \A h \in hs :
       /\ h.channel \in DOMAIN ps /\ Used(ps[h.channel], h.at)
       /\ Len(h.octets) <= h.at.to - h.at.from
  /\ \A g, h \in hs : g # h /\ g.channel = h.channel => Disjoint(g.at, h.at)

\* The buffer of the frame being received.
Buffer == [channel |-> conn.channel, at |-> conn.buffer, octets |-> <<>>]

MemoryInv ==
  /\ Sound(pools, held)
  /\ conn.frame_max \in Nat
  /\ conn.state = "BODY" =>
       Buffer \in held /\ conn.target_size <= conn.buffer.to - conn.buffer.from

\* Rounding up to the alignment loses nothing.
LEMMA RoundUpIsEnough == \A n \in Nat : RoundUp(n) \in Nat /\ n <= RoundUp(n)
  BY DEF RoundUp, Align

\* What amqp_pool_alloc hands out is nobody's: inside its page, large enough, and disjoint
\* from everything in use.  What is in use stays so, also when there is no memory.
LEMMA AllocIsFresh ==
  ASSUME NEW p, PoolInv(p), NEW requested \in Nat, NEW a \in Alloc(p, requested)
  PROVE  /\ PoolInv(a.pool)
         /\ \A at : Used(p, at) => Used(a.pool, at)
         /\ a.at # NoMemory =>
              /\ Used(a.pool, a.at) /\ requested <= a.at.to - a.at.from
              /\ \A at : Used(p, at) => Disjoint(a.at, at) /\ Disjoint(at, a.at)
<1> DEFINE amount == RoundUp(requested)
<1>1. amount \in Nat /\ requested <= amount
  BY RoundUpIsEnough
<1> HIDE DEF amount
<1>2. p = [pagesize |-> p.pagesize, pages |-> p.pages, large |-> p.large, lost |-> p.lost,
           next_page |-> p.next_page, alloc_block |-> p.alloc_block,
           alloc_used |-> p.alloc_used]
  BY DEF PoolInv, Pool
<1> USE DEF Outcome, Extent, NoMemory, NoBlock
<1>3. CASE a = Outcome(p, NoMemory)
  BY <1>3
<1>4. CASE a \in AllocLarge(p, amount)
  <2>1. CASE a = Outcome([p EXCEPT !.large = @ + 1], Extent(LargeBlock(p.large + 1), 0, amount))
    <3>1. /\ a.pool = [p EXCEPT !.large = @ + 1]
          /\ a.at = [block |-> [kind |-> "large", number |-> p.large + 1],
                     from |-> 0, to |-> amount]
      BY <2>1 DEF LargeBlock
    <3>2. PoolInv(a.pool) /\ Used(a.pool, a.at)
      BY <1>1, <1>2, <3>1 DEF PoolInv, Pool, Used, Taken, Block
    <3>3. \A at : Used(p, at) => Used(a.pool, at) /\ at.block # a.at.block
      BY <1>2, <3>1 DEF PoolInv, Pool, Used, Taken, Block
    <3>4. QED
      BY <1>1, <3>1, <3>2, <3>3 DEF Disjoint
  <2>2. QED
    BY <1>4, <2>1 DEF AllocLarge
<1>5. CASE /\ amount <= p.pagesize /\ p.alloc_used + amount <= p.pagesize
           /\ p.alloc_block # NoBlock /\ a \in AllocInPage(p, amount)
  <2>1. /\ a.pool = [p EXCEPT !.alloc_used = p.alloc_used + amount]
        /\ a.at = [block |-> p.alloc_block, from |-> p.alloc_used, to |-> p.alloc_used + amount]
    BY <1>5 DEF AllocInPage
  <2>2. PoolInv(a.pool) /\ Used(a.pool, a.at)
    BY <1>1, <1>2, <1>5, <2>1 DEF PoolInv, Pool, Used, Taken, Block
  <2>3. \A at : Used(p, at) => Used(a.pool, at)
    BY <1>1, <1>2, <2>1 DEF PoolInv, Pool, Used, Taken, Block
  <2>4. \A at : Used(p, at) => Disjoint(a.at, at) /\ Disjoint(at, a.at)
    BY <1>2, <2>1 DEF PoolInv, Pool, Used, Disjoint
  <2>5. QED
    BY <1>1, <1>2, <2>1, <2>2, <2>3, <2>4 DEF PoolInv, Pool
<1>6. CASE amount <= p.pagesize /\ p.next_page >= p.pages /\ a \in AllocNewPage(p, amount)
  <2>1. CASE a = Outcome([p EXCEPT !.alloc_block = NoBlock], NoMemory)
    BY <1>2, <2>1 DEF PoolInv, Pool, Used, Taken, Block
  <2>2. CASE a = Outcome([p EXCEPT !.alloc_block = LostPage(p.lost + 1), !.lost = @ + 1],
                         NoMemory)
    <3>1. a.pool = [pagesize |-> p.pagesize, pages |-> p.pages, large |-> p.large,
                    lost |-> p.lost + 1, next_page |-> p.next_page,
                    alloc_block |-> [kind |-> "lost", number |-> p.lost + 1],
                    alloc_used |-> p.alloc_used]
      BY <1>2, <2>2 DEF LostPage
    <3>2. PoolInv(a.pool)
      BY <1>2, <3>1 DEF PoolInv, Pool, Taken, Block
    <3>3. \A at : Used(p, at) => Used(a.pool, at)
      BY <1>2, <3>1 DEF PoolInv, Pool, Used, Taken, Block
    <3>4. QED
      BY <2>2, <3>2, <3>3
  <2>3. CASE a = Outcome([p EXCEPT !.pages = @ + 1, !.next_page = p.pages + 1,
                            !.alloc_block = Page(p.pages + 1), !.alloc_used = amount],
                         Extent(Page(p.pages + 1), 0, amount))
    <3>1. a.pool = [pagesize |-> p.pagesize, pages |-> p.pages + 1, large |-> p.large,
                    lost |-> p.lost, next_page |-> p.pages + 1,
                    alloc_block |-> [kind |-> "page", number |-> p.pages + 1],
                    alloc_used |-> amount]
      BY <1>2, <2>3 DEF Page
    <3> a.at = [block |-> [kind |-> "page", number |-> p.pages + 1], from |-> 0, to |-> amount]
      BY <2>3 DEF Page
    <3>2. PoolInv(a.pool) /\ Used(a.pool, a.at)
      BY <1>1, <1>2, <1>6, <3>1 DEF PoolInv, Pool, Used, Taken, Block
    <3>3. \A at : Used(p, at) => Used(a.pool, at) /\ at.block # a.at.block
      BY <1>2, <3>1 DEF PoolInv, Pool, Used, Taken, Block
    <3>4. QED
      BY <1>1, <3>1, <3>2, <3>3 DEF Disjoint
  <2>4. QED
    BY <1>6, <2>1, <2>2, <2>3 DEF AllocNewPage
<1>7. CASE amount <= p.pagesize /\ p.next_page < p.pages /\ a \in AllocNextPage(p, amount)
  <2> DEFINE block == [kind |-> "page", number |-> p.next_page + 1]
  <2>0. a = Outcome([p EXCEPT !.next_page = @ + 1, !.alloc_block = block,
                              !.alloc_used = amount],
                    Extent(block, 0, amount))
    BY <1>7 DEF AllocNextPage, Page
  <2>1. a.pool = [pagesize |-> p.pagesize, pages |-> p.pages, large |-> p.large,
                  lost |-> p.lost, next_page |-> p.next_page + 1, alloc_block |-> block,
                  alloc_used |-> amount]
    BY <1>2, <2>0
  <2> a.at = [block |-> block, from |-> 0, to |-> amount]
    BY <2>0
  <2>2. PoolInv(a.pool) /\ Used(a.pool, a.at)
    BY <1>1, <1>2, <1>7, <2>1 DEF PoolInv, Pool, Used, Taken, Block
  <2>3. \A at : Used(p, at) => Used(a.pool, at) /\ at.block # a.at.block
    BY <1>2, <2>1 DEF PoolInv, Pool, Used, Taken, Block
  <2>4. QED
    BY <1>1, <2>1, <2>2, <2>3 DEF Disjoint
<1>8. QED
  BY <1>1, <1>3, <1>4, <1>5, <1>6, <1>7 DEF Alloc, amount, PoolInv, Pool

\* A pool that is created, or one that is there, is sound.
LEMMA PoolOfIsSound ==
  ASSUME Sound(pools, held), conn.frame_max \in Nat, NEW c
  PROVE  Sound(WithPool(c, PoolOf(c)), held)
<1>1. PoolInv(InitPool(conn.frame_max))
  BY DEF InitPool, PoolInv, Pool, Block, NoBlock, DefaultPageSize
<1>2. PoolInv(PoolOf(c))
  BY <1>1 DEF PoolOf, Sound
<1>3. \A h \in held : h.channel \in DOMAIN WithPool(c, PoolOf(c))
                     /\ WithPool(c, PoolOf(c))[h.channel] = pools[h.channel]
  BY DEF WithPool, PoolOf, Sound
<1>4. \A d \in DOMAIN WithPool(c, PoolOf(c)) : PoolInv(WithPool(c, PoolOf(c))[d])
  BY <1>2 DEF WithPool, Sound
<1>5. QED
  BY <1>3, <1>4 DEF Sound

\* Memory taken from the pool of a channel is one more part that is sound, and a request
\* that fails harms nothing.
LEMMA TakenIsSound ==
  ASSUME NEW c, NEW p, NEW hs, Sound(WithPool(c, p), hs),
         NEW requested \in Nat, NEW a \in Alloc(p, requested)
  PROVE  /\ Sound(WithPool(c, a.pool), hs)
         /\ a.at # NoMemory => requested <= a.at.to - a.at.from
         /\ \A octets \in Seq(Octet) : a.at # NoMemory /\ Len(octets) <= requested =>
              Sound(WithPool(c, a.pool),
                    hs \cup {[channel |-> c, at |-> a.at, octets |-> octets]})
<1> DEFINE q == WithPool(c, p)
           r == WithPool(c, a.pool)
<1>1. /\ DOMAIN q = DOMAIN pools \cup {c} /\ DOMAIN r = DOMAIN q
      /\ q[c] = p /\ r[c] = a.pool
      /\ \A d \in DOMAIN q : d # c => r[d] = q[d]
  BY DEF WithPool
<1> HIDE DEF q, r
<1>2. PoolInv(p)
  BY <1>1 DEF Sound, q
<1>3. /\ PoolInv(a.pool)
      /\ \A at : Used(p, at) => Used(a.pool, at)
      /\ a.at # NoMemory =>
           /\ Used(a.pool, a.at) /\ requested <= a.at.to - a.at.from
           /\ \A at : Used(p, at) => Disjoint(a.at, at) /\ Disjoint(at, a.at)
  BY <1>2, AllocIsFresh
<1>4. \A d \in DOMAIN r : PoolInv(r[d])
  BY <1>1, <1>3 DEF Sound, q
<1>5. \A h \in hs :
        /\ h.channel \in DOMAIN r /\ Used(r[h.channel], h.at)
        /\ Len(h.octets) <= h.at.to - h.at.from
        /\ h.channel = c => Used(p, h.at)
  BY <1>1, <1>3 DEF Sound, q
<1>6. \A g, h \in hs : g # h /\ g.channel = h.channel => Disjoint(g.at, h.at)
  BY DEF Sound
<1>7. Sound(r, hs)
  BY <1>4, <1>5, <1>6 DEF Sound
<1>8. ASSUME NEW octets \in Seq(Octet), a.at # NoMemory, Len(octets) <= requested
      PROVE  Sound(r, hs \cup {[channel |-> c, at |-> a.at, octets |-> octets]})
  <2> DEFINE new == [channel |-> c, at |-> a.at, octets |-> octets]
  <2>1. new.channel = c /\ new.at = a.at /\ new.octets = octets
    OBVIOUS
  <2> HIDE DEF new
  <2>2. /\ c \in DOMAIN r /\ Used(r[c], new.at)
        /\ Len(new.octets) <= new.at.to - new.at.from
    <3>1. a.at.to - a.at.from \in Int /\ Len(octets) \in Int
      BY <1>3, <1>8 DEF Used
    <3>2. QED
      BY <1>1, <1>3, <1>8, <2>1, <3>1
  <2>3. \A h \in hs : h.channel = c => Disjoint(new.at, h.at) /\ Disjoint(h.at, new.at)
    BY <1>3, <1>5, <1>8, <2>1
  <2>4. \A g, h \in hs \cup {new} : g # h /\ g.channel = h.channel => Disjoint(g.at, h.at)
    BY <1>6, <2>1, <2>3
  <2>5. QED
    BY <1>4, <1>5, <2>1, <2>2, <2>4 DEF Sound, new
<1>9. QED
  BY <1>3, <1>7, <1>8 DEF r

-----------------------------------------------------------------------------
(* Octets. *)

Total(n) == sent[n].size + HeaderSize + FooterSize

\* The octet of a frame as it is read: the one after the header of the first frame is lost.
Read(n, i) == IF n = 1 /\ i = HeaderSize + 1 THEN Zero ELSE [frame |-> n, place |-> i]
Whole(n) == [i \in 1..Total(n) |-> Read(n, i)]

\* Where the octets of each frame begin in what the broker has sent; the last is its end.
Layout(start) ==
  /\ start \in [1..(Len(sent) + 1) -> Int]
  /\ \A n \in 1..Len(sent) : start[n + 1] = start[n] + Total(n)
  /\ \A n, m \in 1..(Len(sent) + 1) : n <= m => start[n] <= start[m]

\* What is still to come when so many octets of frame k are done: the rest of it and the
\* frames after it, each octet in its place.
Ahead(start, k, done, rest) ==
  /\ Len(rest) + Len(wire) = start[Len(sent) + 1] - start[k] - done
  /\ \A n \in k..Len(sent) : \A j \in 1..Total(n) : n > k \/ j > done =>
       (rest \o wire)[start[n] + j - start[k] - done] = [frame |-> n, place |-> j]

\* What has been read of frame k.
Reading(k) ==
  /\ conn = [state |-> conn.state, inbound |-> conn.inbound, target_size |-> conn.target_size,
             frame_max |-> conn.frame_max, buffer |-> conn.buffer, channel |-> conn.channel]
  /\ conn.inbound \in Seq(Octet) /\ conn.target_size \in Nat
  /\ Len(conn.inbound) < conn.target_size
  /\ \A i \in 1..Len(conn.inbound) : conn.inbound[i] = Read(k, i)
  /\ \/ conn.state = "INITIAL" /\ conn.target_size = HeaderSize + 1 /\ k = 1
     \/ conn.state = "IDLE" /\ conn.target_size = HeaderSize /\ k > 1 /\ conn.inbound = <<>>
     \/ conn.state = "HEADER" /\ conn.target_size = HeaderSize /\ k > 1
     \/ /\ conn.state = "BODY" /\ k <= Len(sent)
        /\ conn.target_size = Total(k) /\ conn.channel = sent[k].channel
        /\ k = 1 => Len(conn.inbound) > HeaderSize

\* The frames before frame k came out, but for those of an unknown type.
Returned(k) ==
  /\ delivered \in Seq(Nat)
  /\ LET last == IF delivered = <<>> THEN 0 ELSE delivered[Len(delivered)]
     IN  last < k /\ \A n \in (last + 1)..(k - 1) : ~Known(sent[n])

StreamAt(start, k) ==
  /\ k \in 1..(Len(sent) + 1)
  /\ Layout(start)
  /\ Ahead(start, k, Len(conn.inbound), sock)
  /\ Reading(k)
  /\ Returned(k)

\* What is in memory is empty or a frame of the broker's.
WholeFrames(hs) ==
  \A h \in hs : h.octets # <<>> => \E n \in 1..Len(sent) : h.octets = Whole(n)

StreamInv ==
  /\ sent \in Seq(Frames) /\ sock \in Seq(Octet) /\ wire \in Seq(Octet)
  /\ \A n \in 1..Len(sent) : sent[n].type = "PROTOCOL" => n = 1
  /\ WholeFrames(held)
  /\ \E start \in [1..(Len(sent) + 1) -> Int], k \in Nat : StreamAt(start, k)

\* Sizes are numbers.
LEMMA TotalIsPositive ==
  ASSUME sent \in Seq(Frames), NEW n \in 1..Len(sent)
  PROVE  Total(n) \in Nat /\ Total(n) >= HeaderSize + FooterSize
<1>1. sent[n] \in Frames
  OBVIOUS
<1>2. sent[n].size \in Nat
  BY <1>1, FramesAssumption
<1>3. QED
  BY <1>2 DEF Total, HeaderSize, FooterSize

\* The beginnings of the frames are numbers, and grow by what the frames have.
LEMMA LayoutIsOrdered ==
  ASSUME sent \in Seq(Frames), NEW start, Layout(start)
  PROVE  /\ Len(sent) \in Nat /\ Len(sent) + 1 \in 1..(Len(sent) + 1)
         /\ \A n \in 1..(Len(sent) + 1) : start[n] \in Int
         /\ \A n \in 1..Len(sent) :
              /\ Total(n) \in Nat /\ n + 1 \in 1..(Len(sent) + 1) /\ start[n + 1] \in Int
              /\ start[n + 1] = start[n] + Total(n)
         /\ \A n, m \in 1..(Len(sent) + 1) : n <= m => start[n] <= start[m]
<1>1. Len(sent) \in Nat /\ Len(sent) + 1 \in 1..(Len(sent) + 1)
  OBVIOUS
<1>2. \A n \in 1..(Len(sent) + 1) : start[n] \in Int
  BY DEF Layout
<1>3. \A n \in 1..Len(sent) : Total(n) \in Nat
  BY TotalIsPositive
<1>4. \A n \in 1..Len(sent) : n + 1 \in 1..(Len(sent) + 1)
  BY <1>1
<1>5. QED
  BY <1>1, <1>2, <1>3, <1>4 DEF Layout

\* Octets that have arrived belong to a frame.
LEMMA SomethingIsRead ==
  ASSUME NEW start, NEW k \in 1..(Len(sent) + 1), NEW done \in Nat, NEW rest \in Seq(Octet),
         sent \in Seq(Frames), wire \in Seq(Octet),
         Layout(start), Ahead(start, k, done, rest), rest # <<>> \/ done > 0
  PROVE  k <= Len(sent)
<1>1. SUFFICES ASSUME k = Len(sent) + 1 PROVE FALSE
  OBVIOUS
<1>2. start[k] \in Int
  BY DEF Layout
<1>3. Len(rest) + Len(wire) = 0 - done
  BY <1>1, <1>2 DEF Ahead
<1>4. QED
  BY <1>3

\* A function on the first numbers is a sequence.
LEMMA FunctionIsSequence ==
  ASSUME NEW n \in Nat, NEW s \in [1..n -> Octet]
  PROVE  s \in Seq(Octet) /\ Len(s) = n
  OBVIOUS

\* Octets put together are those of the first piece and then those of the second.
LEMMA Joined ==
  ASSUME NEW s \in Seq(Octet), NEW t \in Seq(Octet)
  PROVE  /\ s \o t \in Seq(Octet) /\ Len(s \o t) = Len(s) + Len(t)
         /\ \A i \in 1..Len(s) : (s \o t)[i] = s[i]
         /\ \A i \in 1..Len(t) : (s \o t)[Len(s) + i] = t[i]
  OBVIOUS

\* Three pieces make the same octets in whichever order they are put together.
LEMMA Regrouped ==
  ASSUME NEW s \in Seq(Octet), NEW t \in Seq(Octet), NEW u \in Seq(Octet)
  PROVE  (s \o t) \o u = s \o (t \o u)
  BY ConcatAssociative

\* What is taken apart is the octets up to a point and those after it.
LEMMA Split ==
  ASSUME NEW s \in Seq(Octet), NEW n \in 0..Len(s)
  PROVE  /\ SubSeq(s, 1, n) \in Seq(Octet) /\ Len(SubSeq(s, 1, n)) = n
         /\ \A i \in 1..n : SubSeq(s, 1, n)[i] = s[i]
         /\ SubSeq(s, n + 1, Len(s)) \in Seq(Octet)
         /\ Len(SubSeq(s, n + 1, Len(s))) = Len(s) - n
         /\ \A i \in 1..(Len(s) - n) : SubSeq(s, n + 1, Len(s))[i] = s[n + i]
  OBVIOUS

\* Taken apart and put together again, the octets are the same.
LEMMA SplitIsJoined ==
  ASSUME NEW s \in Seq(Octet), NEW n \in 0..Len(s)
  PROVE  /\ SubSeq(s, 1, n) \o SubSeq(s, n + 1, Len(s)) = s
         /\ <<>> \o s = s
<1>1. SubSeq(s, 1, n) \o SubSeq(s, n + 1, Len(s)) = SubSeq(s, 1, Len(s))
  <2>1. 1 \in 1..(Len(s) + 1) /\ n \in 0..Len(s) /\ Len(s) \in n..Len(s) /\ 1 - 1 = 0
    OBVIOUS
  <2>2. QED
    BY <2>1, ConcatAdjacentSubSeq
<1>2. SubSeq(s, 1, Len(s)) = s
  BY SubSeqFull
<1>3. <<>> \o s = s
  OBVIOUS
<1>4. QED
  BY <1>1, <1>2, <1>3

\* Without the first octets the others come that much earlier.
LEMMA Shifted ==
  ASSUME NEW s \in Seq(Octet), NEW t \in Seq(Octet), NEW n \in 0..Len(s)
  PROVE  \A i \in (n + 1)..(Len(s) + Len(t)) :
           (SubSeq(s, n + 1, Len(s)) \o t)[i - n] = (s \o t)[i]
<1> DEFINE rest == SubSeq(s, n + 1, Len(s))
<1>1. rest \in Seq(Octet) /\ Len(rest) = Len(s) - n /\ Len(s) \in Nat /\ Len(t) \in Nat
  BY Split
<1>2. SUFFICES ASSUME NEW i \in (n + 1)..(Len(s) + Len(t))
               PROVE  (rest \o t)[i - n] = (s \o t)[i]
  OBVIOUS
<1>3. CASE i \in 1..Len(s)
  <2>1. i - n \in 1..(Len(s) - n) /\ n + (i - n) = i
    BY <1>1, <1>3
  <2>2. rest[i - n] = s[i]
    BY <2>1, Split
  <2> HIDE DEF rest
  <2>3. (rest \o t)[i - n] = rest[i - n] /\ (s \o t)[i] = s[i]
    BY <1>1, <1>3, <2>1, Joined
  <2>4. QED
    BY <2>2, <2>3
<1>4. CASE i \notin 1..Len(s)
  <2> HIDE DEF rest
  <2>1. PICK j \in 1..Len(t) : i = Len(s) + j
    <3>1. i - Len(s) \in 1..Len(t) /\ i = Len(s) + (i - Len(s))
      BY <1>1, <1>4
    <3>2. QED
      BY <3>1
  <2>2. i - n = Len(rest) + j
    BY <1>1, <2>1
  <2>3. (rest \o t)[Len(rest) + j] = t[j] /\ (s \o t)[Len(s) + j] = t[j]
    BY <1>1, <2>1, Joined
  <2>4. QED
    BY <2>1, <2>2, <2>3
<1>5. QED
  BY <1>3, <1>4

\* consume_data up to a target inside the frame: what is added are the octets that follow.
LEMMA ConsumedInOrder ==
  ASSUME NEW start, NEW k \in 1..Len(sent), NEW inbound \in Seq(Octet),
         NEW octets \in Seq(Octet), NEW target \in Nat,
         sent \in Seq(Frames), wire \in Seq(Octet),
         Layout(start), Ahead(start, k, Len(inbound), octets),
         Len(inbound) <= target, target <= Total(k)
  PROVE  LET got == Consume(inbound, octets, target)
         IN  /\ got.inbound \in Seq(Octet) /\ got.rest \in Seq(Octet)
             /\ Len(inbound) <= Len(got.inbound) /\ Len(got.inbound) <= target
             /\ \A i \in 1..Len(inbound) : got.inbound[i] = inbound[i]
             /\ \A i \in (Len(inbound) + 1)..Len(got.inbound) :
                  got.inbound[i] = [frame |-> k, place |-> i]
             /\ Ahead(start, k, Len(got.inbound), got.rest)
             /\ octets # <<>> /\ Len(inbound) < target => Len(inbound) < Len(got.inbound)
             /\ Len(got.inbound) < target => got.rest = <<>>
<1> DEFINE missing == target - Len(inbound)
           n == IF Len(octets) < missing THEN Len(octets) ELSE missing
           first == SubSeq(octets, 1, n)
           rest == SubSeq(octets, n + 1, Len(octets))
           read == inbound \o first
<1>0. Len(inbound) \in Nat /\ Len(octets) \in Nat /\ Len(wire) \in Nat
  OBVIOUS
<1>1. /\ n \in 0..Len(octets) /\ Len(inbound) + n <= target
      /\ octets # <<>> /\ Len(inbound) < target => n > 0
      /\ Len(inbound) + n < target => n = Len(octets)
  BY <1>0
<1>2. Consume(inbound, octets, target) = [inbound |-> read, rest |-> rest]
  BY DEF Consume
<1> HIDE DEF n
<1>3. /\ first \in Seq(Octet) /\ Len(first) = n
      /\ \A i \in 1..n : first[i] = octets[i]
      /\ rest \in Seq(Octet) /\ Len(rest) = Len(octets) - n
      /\ \A i \in 1..(Len(octets) - n) : rest[i] = octets[n + i]
  BY <1>1, Split
<1> HIDE DEF first, rest
<1>4. /\ read \in Seq(Octet) /\ Len(read) = Len(inbound) + n
      /\ \A i \in 1..Len(inbound) : read[i] = inbound[i]
      /\ \A i \in 1..n : read[Len(inbound) + i] = octets[i]
  BY <1>3, Joined
<1> HIDE DEF read
<1> DEFINE all == octets \o wire
<1>5. \A i \in 1..Len(octets) : all[i] = octets[i]
  BY Joined
<1> DEFINE place(m, j) == [frame |-> m, place |-> j]
<1>6. PICK f \in Int, e \in Int, z \in Nat, l \in Nat :
        f = start[k] /\ e = start[Len(sent) + 1] /\ z = Total(k) /\ l = Len(sent)
  <2>1. k \in 1..(Len(sent) + 1) /\ Len(sent) + 1 \in 1..(Len(sent) + 1) /\ Len(sent) \in Nat
    OBVIOUS
  <2>2. start[k] \in Int /\ start[Len(sent) + 1] \in Int /\ Total(k) \in Nat
    BY <2>1, LayoutIsOrdered
  <2>3. QED
    BY <2>1, <2>2
<1>7. PICK a \in Nat, o \in Nat, w \in Nat, d \in Nat, r \in Nat :
        a = Len(inbound) /\ o = Len(octets) /\ w = Len(wire) /\ d = Len(read) /\ r = Len(rest)
  BY <1>0, <1>3, <1>4
<1>8. n \in Nat /\ n <= o /\ d = a + n /\ r = o - n /\ d <= z /\ k \in 1..l
  <2>1. n \in Nat /\ n <= o /\ d = a + n /\ r = o - n
    BY <1>0, <1>1, <1>3, <1>4, <1>7
  <2>2. d <= target /\ target <= z
    BY <1>1, <1>4, <1>6, <1>7
  <2>3. QED
    BY <1>6, <2>1, <2>2
<1>9. o + w = e - f - a
  BY <1>6, <1>7 DEF Ahead
<1>10. \A m \in k..l : \A j \in 1..Total(m) : m > k \/ j > a =>
         all[start[m] + j - f - a] = place(m, j)
  BY <1>6, <1>7 DEF Ahead
<1>11. \A i \in (n + 1)..(o + w) : (rest \o wire)[i - n] = all[i]
  BY <1>1, <1>7, Shifted DEF rest
<1> HIDE DEF all, place
<1>12. \A i \in (a + 1)..d : read[i] = place(k, i)
  <2>1. SUFFICES ASSUME NEW i \in (a + 1)..d PROVE read[i] = place(k, i)
    OBVIOUS
  <2>2. PICK j \in 1..n : i = a + j
    <3>1. i - a \in 1..n /\ i = a + (i - a)
      BY <1>8
    <3>2. QED
      BY <3>1
  <2>3. j \in 1..o /\ i \in 1..z /\ i > a /\ k \in k..l /\ f + i - f - a = j
    BY <1>8, <2>2
  <2>4. all[j] = place(k, i)
    BY <1>6, <1>10, <2>3
  <2>5. all[j] = octets[j] /\ read[a + j] = octets[j]
    BY <1>4, <1>5, <1>7, <2>2, <2>3
  <2>6. QED
    BY <2>2, <2>4, <2>5
<1>13. Ahead(start, k, Len(read), rest)
  <2>1. r + w = e - f - d
    BY <1>8, <1>9
  <2>2. ASSUME NEW m \in k..l, NEW j \in 1..Total(m), m > k \/ j > d
        PROVE  (rest \o wire)[start[m] + j - f - d] = place(m, j)
    <3>1. m \in 1..Len(sent) /\ m \in Nat
      BY <1>6, <1>8
    <3>2. PICK s \in Int, t \in Nat : s = start[m] /\ t = Total(m)
      BY <3>1, LayoutIsOrdered
    <3>3. s + t <= e
      <4>1. m + 1 \in 1..(Len(sent) + 1) /\ start[m + 1] = start[m] + Total(m)
        BY <3>1, LayoutIsOrdered
      <4>2. m + 1 <= Len(sent) + 1 /\ Len(sent) + 1 \in 1..(Len(sent) + 1)
        BY <3>1
      <4>3. start[m + 1] <= start[Len(sent) + 1]
        BY <4>1, <4>2, LayoutIsOrdered
      <4>4. QED
        BY <1>6, <3>2, <4>1, <4>3
    <3>4. j \in Nat /\ j >= 1 /\ j <= t /\ (m > k \/ j > a)
      BY <1>8, <2>2, <3>2
    <3>5. all[s + j - f - a] = place(m, j)
      BY <1>10, <3>2, <3>4
    <3>6. s + j - f - a > n
      <4>1. CASE m = k
        <5>1. s = f /\ j > d
          BY <1>6, <2>2, <3>2, <4>1
        <5>2. QED
          BY <1>8, <3>4, <5>1
      <4>2. CASE m > k
        <5>1. k + 1 \in 1..(Len(sent) + 1) /\ k + 1 <= m /\ m \in 1..(Len(sent) + 1)
          BY <1>6, <3>1, <4>2
        <5>2. f + z <= s
          BY <1>6, <3>2, <5>1, LayoutIsOrdered
        <5>3. QED
          BY <1>8, <3>4, <5>2
      <4>3. QED
        BY <1>8, <3>1, <4>1, <4>2
    <3>7. s + j - f - a \in (n + 1)..(o + w)
      BY <1>8, <1>9, <3>3, <3>4, <3>6
    <3>8. PICK i \in (n + 1)..(o + w) : i = s + j - f - a
      BY <3>7
    <3>9. (rest \o wire)[i - n] = place(m, j)
      BY <1>11, <3>5, <3>8
    <3>10. i - n = s + j - f - d
      BY <1>8, <3>4, <3>8
    <3>11. QED
      BY <3>2, <3>9, <3>10
  <2>3. QED
    BY <1>6, <1>7, <2>1, <2>2 DEF Ahead, place
<1>14. Len(read) < target => rest = <<>>
  BY <1>0, <1>1, <1>3, <1>4
<1>15. QED
  <2>1. /\ read \in Seq(Octet) /\ rest \in Seq(Octet)
        /\ Len(inbound) <= Len(read) /\ Len(read) <= target
        /\ \A i \in 1..Len(inbound) : read[i] = inbound[i]
        /\ octets # <<>> /\ Len(inbound) < target => Len(inbound) < Len(read)
    <3>1. Len(inbound) <= Len(read) /\ Len(read) <= target
      BY <1>0, <1>1, <1>4
    <3>2. octets # <<>> /\ Len(inbound) < target => Len(inbound) < Len(read)
      BY <1>0, <1>1, <1>4
    <3>3. QED
      BY <1>3, <1>4, <3>1, <3>2
  <2>2. \A i \in (Len(inbound) + 1)..Len(read) : read[i] = [frame |-> k, place |-> i]
    BY <1>7, <1>12 DEF place
  <2>3. QED
    BY <1>2, <1>13, <1>14, <2>1, <2>2

\* The end of a frame is the beginning of the next one.
LEMMA NextFrame ==
  ASSUME NEW start, NEW k \in 1..Len(sent), NEW rest \in Seq(Octet), sent \in Seq(Frames),
         Layout(start), Ahead(start, k, Total(k), rest)
  PROVE  Ahead(start, k + 1, 0, rest)
<1>1. /\ start[k + 1] = start[k] + Total(k) /\ start[k] \in Int /\ Total(k) \in Nat
      /\ start[Len(sent) + 1] \in Int
  BY LayoutIsOrdered
<1>2. Len(rest) + Len(wire) = start[Len(sent) + 1] - start[k + 1] - 0
  BY <1>1 DEF Ahead
<1>3. ASSUME NEW n \in (k + 1)..Len(sent), NEW j \in 1..Total(n)
      PROVE  (rest \o wire)[start[n] + j - start[k + 1] - 0] = [frame |-> n, place |-> j]
  <2>1. start[n] \in Int /\ j \in Int
    BY LayoutIsOrdered
  <2>2. start[n] + j - start[k + 1] - 0 = start[n] + j - start[k] - Total(k)
    BY <1>1, <2>1
  <2>3. n \in k..Len(sent) /\ n > k
    OBVIOUS
  <2>4. QED
    BY <2>2, <2>3 DEF Ahead
<1>4. QED
  BY <1>2, <1>3 DEF Ahead

-----------------------------------------------------------------------------
(* The broker and the socket. *)

\* What is ahead lies within the octets that are there.
LEMMA AheadIsThere ==
  ASSUME NEW start, NEW k \in 1..(Len(sent) + 1), NEW done \in Nat, NEW rest \in Seq(Octet),
         sent \in Seq(Frames), wire \in Seq(Octet), Layout(start), Ahead(start, k, done, rest),
         k <= Len(sent) => done <= Total(k),
         NEW m \in k..Len(sent), NEW j \in 1..Total(m), m > k \/ j > done
  PROVE  start[m] + j - start[k] - done \in 1..(Len(rest) + Len(wire))
<1>1. m \in 1..Len(sent) /\ k \in 1..Len(sent) /\ m + 1 \in 1..(Len(sent) + 1)
  OBVIOUS
<1>2. PICK f \in Int, s \in Int, e \in Int, t \in Nat, z \in Nat :
        /\ f = start[k] /\ s = start[m] /\ e = start[Len(sent) + 1]
        /\ t = Total(m) /\ z = Total(k)
  <2>1. start[k] \in Int /\ start[m] \in Int /\ Total(m) \in Nat /\ Total(k) \in Nat
    BY <1>1, LayoutIsOrdered
  <2>2. start[Len(sent) + 1] \in Int
    BY LayoutIsOrdered
  <2>3. QED
    BY <2>1, <2>2
<1>3. s + t <= e
  <2>1. start[m + 1] = start[m] + Total(m) /\ Len(sent) + 1 \in 1..(Len(sent) + 1)
    BY <1>1, LayoutIsOrdered
  <2>2. m + 1 <= Len(sent) + 1
    BY <1>1
  <2>3. start[m + 1] <= start[Len(sent) + 1]
    BY <1>1, <2>1, <2>2, LayoutIsOrdered
  <2>4. QED
    BY <1>2, <2>1, <2>3
<1>4. PICK r \in Nat, w \in Nat : r = Len(rest) /\ w = Len(wire)
  OBVIOUS
<1>5. r + w = e - f - done
  BY <1>2, <1>4 DEF Ahead
<1>6. j \in Nat /\ j >= 1 /\ j <= t /\ done <= z
  BY <1>1, <1>2
<1>7. s + j > f + done
  <2>1. CASE m = k
    BY <1>2, <1>6, <2>1
  <2>2. CASE m > k
    <3>1. k + 1 \in 1..(Len(sent) + 1) /\ k + 1 <= m /\ m \in 1..(Len(sent) + 1)
      BY <1>1, <2>2
    <3>2. f + z <= s
      BY <1>1, <1>2, <3>1, LayoutIsOrdered
    <3>3. QED
      BY <1>6, <3>2
  <2>3. QED
    BY <1>1, <2>1, <2>2
<1>8. s + j - f - done \in 1..(r + w)
  BY <1>3, <1>5, <1>6, <1>7
<1>9. QED
  BY <1>2, <1>4, <1>8

\* Before anything is sent the end of the octets is the beginning of the first frame.
LEMMA StreamInit == Init => StreamInv
<1> SUFFICES ASSUME Init PROVE StreamInv
  OBVIOUS
<1> USE DEF Init
<1> DEFINE start == [n \in 1..1 |-> 0]
<1>1. Len(sent) = 0 /\ Len(sock) = 0 /\ Len(wire) = 0 /\ Len(conn.inbound) = 0
  OBVIOUS
<1>2. Layout(start)
  BY <1>1 DEF Layout
<1>3. Ahead(start, 1, Len(conn.inbound), sock)
  BY <1>1 DEF Ahead
<1>4. Reading(1)
  BY <1>1 DEF Reading, HeaderSize
<1>5. Returned(1)
  BY DEF Returned
<1>6. StreamAt(start, 1)
  BY <1>1, <1>2, <1>3, <1>4, <1>5 DEF StreamAt
<1>7. start \in [1..(Len(sent) + 1) -> Int]
  BY <1>1
<1>8. QED
  BY <1>1, <1>6, <1>7 DEF StreamInv, WholeFrames

\* A new frame comes behind those that are on their way, and its end is the new end.
LEMMA SendFrameKeepsStream ==
  ASSUME StreamInv, NEW f \in Frames, SendFrame(f)
  PROVE  StreamInv'
<1>1. PICK start \in [1..(Len(sent) + 1) -> Int], k \in Nat : StreamAt(start, k)
  BY DEF StreamInv
<1>2. /\ sent \in Seq(Frames) /\ sock \in Seq(Octet) /\ wire \in Seq(Octet)
      /\ Len(sent) \in Nat /\ k \in 1..(Len(sent) + 1)
      /\ Layout(start) /\ Ahead(start, k, Len(conn.inbound), sock)
      /\ Reading(k) /\ Returned(k)
  BY <1>1 DEF StreamInv, StreamAt
<1>3. PICK l \in Nat, done \in Nat, rest \in Seq(Octet) :
        l = Len(sent) /\ done = Len(conn.inbound) /\ rest = sock
  <2>1. Len(conn.inbound) \in Nat
    BY <1>2 DEF Reading
  <2>2. QED
    BY <1>2, <2>1
<1>4. PICK size \in Nat : size = f.size + HeaderSize + FooterSize
  <2>1. f.size + HeaderSize + FooterSize \in Nat
    BY FramesAssumption DEF HeaderSize, FooterSize
  <2>2. QED
    BY <2>1
<1> DEFINE new == Octets(l + 1, f)
           flow == rest \o wire
<1>5. /\ sent' = Append(sent, f) /\ wire' = wire \o new
      /\ f.type = "PROTOCOL" => sent = <<>>
      /\ sock' = sock /\ conn' = conn /\ held' = held /\ delivered' = delivered
  BY <1>3 DEF SendFrame
<1>6. /\ new \in Seq(Octet) /\ Len(new) = size
      /\ \A j \in 1..size : new[j] = [frame |-> l + 1, place |-> j]
  <2>1. new = [j \in 1..size |-> [frame |-> l + 1, place |-> j]]
    BY <1>4 DEF Octets
  <2> HIDE DEF new
  <2>2. new \in [1..size -> Octet]
    BY <2>1 DEF Octet
  <2>3. QED
    BY <2>1, <2>2, FunctionIsSequence
<1> HIDE DEF new
<1>7. PICK s \in Int, e \in Int, w \in Nat, r \in Nat :
        s = start[k] /\ e = start[l + 1] /\ w = Len(wire) /\ r = Len(rest)
  <2>1. start[k] \in Int /\ start[l + 1] \in Int
    BY <1>2, <1>3, LayoutIsOrdered
  <2>2. Len(wire) \in Nat /\ Len(rest) \in Nat
    BY <1>2
  <2>3. QED
    BY <2>1, <2>2
<1>8. r + w = e - s - done
  BY <1>2, <1>3, <1>7 DEF Ahead
<1>9. k \in 1..(l + 1) /\ flow \in Seq(Octet) /\ Len(flow) = r + w
  BY <1>2, <1>3, <1>7, Joined
<1>10. /\ Len(sent') = l + 1 /\ sent'[l + 1] = f /\ sent' \in Seq(Frames)
       /\ \A n \in 1..l : sent'[n] = sent[n]
  BY <1>2, <1>3, <1>5
<1>11. ASSUME NEW n \in 1..l PROVE Total(n)' = Total(n) /\ Whole(n)' = Whole(n)
  BY <1>10 DEF Whole, Total, Read
<1>12. PICK longer \in [1..(l + 2) -> Int] :
         longer[l + 2] = e + size /\ \A n \in 1..(l + 1) : longer[n] = start[n]
  <2> DEFINE longer_1 == [n \in 1..(l + 2) |-> IF n <= l + 1 THEN start[n] ELSE e + size]
  <2>1. \A n \in 1..(l + 1) : start[n] \in Int
    BY <1>1, <1>3
  <2>2. longer_1 \in [1..(l + 2) -> Int]
    BY <2>1
  <2>3. longer_1[l + 2] = e + size /\ \A n \in 1..(l + 1) : longer_1[n] = start[n]
    OBVIOUS
  <2> HIDE DEF longer_1
  <2>4. QED
    BY <2>2, <2>3
<1>13. Layout(longer)'
  <2>1. ASSUME NEW n \in 1..(l + 1)
        PROVE  longer[n + 1] = longer[n] + (sent'[n].size + HeaderSize + FooterSize)
    <3>1. CASE n \in 1..l
      <4>1. start[n + 1] = start[n] + Total(n)
        BY <1>2, <1>3, <3>1, LayoutIsOrdered
      <4>2. n + 1 \in 1..(l + 1) /\ sent'[n] = sent[n]
        BY <1>10, <3>1
      <4>3. QED
        BY <1>12, <4>1, <4>2 DEF Total
    <3>2. CASE n = l + 1
      <4>1. longer[n] = e /\ longer[n + 1] = e + size
        BY <1>7, <1>12, <3>2
      <4>2. QED
        BY <1>4, <1>10, <3>2, <4>1
    <3>3. QED
      BY <3>1, <3>2
  <2>2. ASSUME NEW n \in 1..(l + 2), NEW m \in 1..(l + 2), n <= m
        PROVE  longer[n] <= longer[m]
    <3>1. CASE n = m
      <4>1. longer[n] \in Int
        OBVIOUS
      <4>2. QED
        BY <3>1, <4>1
    <3>2. CASE m \in 1..(l + 1)
      <4>1. n \in 1..(l + 1)
        BY <2>2, <3>2
      <4>2. start[n] <= start[m]
        BY <1>2, <1>3, <2>2, <3>2, <4>1, LayoutIsOrdered
      <4>3. QED
        BY <1>12, <3>2, <4>1, <4>2
    <3>3. CASE n \in 1..(l + 1) /\ m = l + 2
      <4>1. l + 1 \in 1..(l + 1) /\ n <= l + 1
        BY <3>3
      <4>2. start[n] <= start[l + 1]
        BY <1>2, <1>3, <3>3, <4>1, LayoutIsOrdered
      <4>3. PICK a \in Int : a = longer[n] /\ a <= e
        BY <1>7, <1>12, <3>3, <4>2
      <4>4. a <= e + size
        BY <4>3
      <4>5. QED
        BY <1>12, <3>3, <4>3, <4>4
    <3>4. n = m \/ m \in 1..(l + 1) \/ (n \in 1..(l + 1) /\ m = l + 2)
      BY <2>2
    <3>5. QED
      BY <3>1, <3>2, <3>3, <3>4
  <2>3. Len(sent') + 1 = l + 2
    BY <1>10
  <2>4. QED
    BY <1>10, <2>1, <2>2, <2>3 DEF Layout, Total
<1> HIDE DEF flow
<1>14. /\ \A i \in 1..(r + w) : (flow \o new)[i] = flow[i]
       /\ \A j \in 1..size : (flow \o new)[r + w + j] = new[j]
  <2>1. /\ \A i \in 1..Len(flow) : (flow \o new)[i] = flow[i]
        /\ \A j \in 1..Len(new) : (flow \o new)[Len(flow) + j] = new[j]
    BY <1>6, <1>9, Joined
  <2>2. QED
    BY <1>6, <1>9, <2>1
<1>15. rest \o wire' = flow \o new
  BY <1>2, <1>5, <1>6, Regrouped DEF flow
<1>16. k <= Len(sent) => done <= Total(k)
  <2>1. ASSUME k <= Len(sent) PROVE Total(k) \in Nat /\ Total(k) >= HeaderSize + FooterSize
    BY <1>2, <2>1, TotalIsPositive
  <2>2. Len(conn.inbound) < conn.target_size /\ conn.target_size \in Nat
    BY <1>2 DEF Reading
  <2>3. conn.target_size \in {HeaderSize, HeaderSize + 1, Total(k)}
    BY <1>2 DEF Reading
  <2>4. QED
    BY <1>3, <2>1, <2>2, <2>3 DEF HeaderSize, FooterSize
<1>17. Ahead(longer, k, done, rest)'
  <2>1. longer[k] = s
    BY <1>7, <1>9, <1>12
  <2>2. Len(rest) + Len(wire') = longer[Len(sent') + 1] - longer[k] - done
    <3>1. Len(wire') = w + size
      BY <1>2, <1>5, <1>6, <1>7, Joined
    <3>2. longer[Len(sent') + 1] = e + size
      BY <1>10, <1>12
    <3>3. r + (w + size) = (e + size) - s - done
      BY <1>8
    <3>4. QED
      BY <1>7, <2>1, <3>1, <3>2, <3>3
  <2>3. ASSUME NEW n \in k..l, NEW j \in 1..Total(n), n > k \/ j > done
        PROVE  (flow \o new)[longer[n] + j - longer[k] - done] = [frame |-> n, place |-> j]
    <3>1. n \in k..Len(sent) /\ n \in 1..(l + 1)
      BY <1>3, <1>9
    <3>2. start[n] + j - start[k] - done \in 1..(r + w)
      BY <1>2, <1>3, <1>7, <1>16, <2>3, <3>1, AheadIsThere
    <3>3. flow[start[n] + j - start[k] - done] = [frame |-> n, place |-> j]
      BY <1>2, <1>3, <2>3, <3>1 DEF Ahead, flow
    <3>4. longer[n] = start[n] /\ longer[k] = start[k]
      BY <1>9, <1>12, <3>1
    <3>5. QED
      BY <1>14, <3>2, <3>3, <3>4
  <2>4. ASSUME NEW j \in 1..size
        PROVE  (flow \o new)[longer[l + 1] + j - longer[k] - done]
                 = [frame |-> l + 1, place |-> j]
    <3>1. longer[l + 1] = e
      BY <1>7, <1>12
    <3>2. e + j - s - done = r + w + j
      BY <1>8
    <3>3. QED
      BY <1>6, <1>14, <2>1, <3>1, <3>2
  <2>5. ASSUME NEW n \in k..(l + 1), NEW j \in 1..Total(n)', n > k \/ j > done
        PROVE  (rest \o wire')[longer[n] + j - longer[k] - done] = [frame |-> n, place |-> j]
    <3>1. CASE n = l + 1
      <4>1. Total(n)' = size
        BY <1>4, <1>10, <3>1 DEF Total
      <4>2. QED
        BY <1>15, <2>4, <3>1, <4>1
    <3>2. CASE n \in k..l
      <4>1. Total(n)' = Total(n)
        BY <1>9, <1>11, <3>2
      <4>2. QED
        BY <1>15, <2>3, <2>5, <3>2, <4>1
    <3>3. n = l + 1 \/ n \in k..l
      BY <1>9
    <3>4. QED
      BY <3>1, <3>2, <3>3
  <2>6. QED
    BY <1>10, <2>2, <2>5 DEF Ahead
<1>18. StreamAt(longer, k)'
  <2>1. Reading(k)'
    <3>1. ASSUME k <= Len(sent) PROVE sent'[k] = sent[k]
      BY <1>2, <1>3, <1>10, <3>1
    <3>2. QED
      BY <1>2, <1>3, <1>5, <1>10, <3>1 DEF Reading, Total, Read
  <2>2. Returned(k)'
    <3>1. ASSUME NEW n \in Nat, n < k, n > 0 PROVE sent'[n] = sent[n]
      <4>1. n \in 1..l
        BY <1>9, <3>1
      <4>2. QED
        BY <1>10, <4>1
    <3>2. PICK last \in Nat : last = IF delivered = <<>> THEN 0 ELSE delivered[Len(delivered)]
      BY <1>2 DEF Returned
    <3>3. last < k /\ \A n \in (last + 1)..(k - 1) : ~Known(sent[n])
      BY <1>2, <3>2 DEF Returned
    <3>4. ASSUME NEW n \in (last + 1)..(k - 1) PROVE ~Known(sent'[n])
      <4>1. n \in Nat /\ n < k /\ n > 0
        BY <1>9
      <4>2. QED
        BY <3>1, <3>3, <4>1
    <3>5. QED
      BY <1>2, <1>5, <3>2, <3>3, <3>4 DEF Returned, Known
  <2>3. Ahead(longer, k, Len(conn.inbound), sock)'
    BY <1>3, <1>5, <1>17 DEF Ahead
  <2>4. k \in 1..(Len(sent') + 1)
    BY <1>9, <1>10
  <2>5. QED
    BY <1>13, <2>1, <2>2, <2>3, <2>4 DEF StreamAt
<1>19. \A n \in 1..Len(sent') : sent'[n].type = "PROTOCOL" => n = 1
  <2>1. ASSUME NEW n \in 1..l PROVE sent'[n].type = "PROTOCOL" => n = 1
    BY <1>3, <1>10 DEF StreamInv
  <2>2. f.type = "PROTOCOL" => l = 0
    BY <1>3, <1>5
  <2>3. QED
    BY <1>10, <2>1, <2>2
<1>20. \A h \in held' : h.octets # <<>> => \E n \in 1..Len(sent') : h.octets = Whole(n)'
  <2>1. SUFFICES ASSUME NEW h \in held, h.octets # <<>>
                 PROVE  \E n \in 1..(l + 1) : h.octets = Whole(n)'
    BY <1>5, <1>10
  <2>2. PICK n \in 1..l : h.octets = Whole(n)
    BY <1>3, <2>1 DEF StreamInv, WholeFrames
  <2>3. QED
    BY <1>11, <2>2
<1>21. QED
  <2>1. longer \in [1..(Len(sent') + 1) -> Int]
    BY <1>10
  <2>2. wire' \in Seq(Octet)
    BY <1>2, <1>5, <1>6, Joined
  <2>3. QED
    BY <1>2, <1>5, <1>10, <1>18, <1>19, <1>20, <2>1, <2>2 DEF StreamInv, WholeFrames

\* What is received moves from the wire to the socket's buffer, which was empty.
LEMMA RecvKeepsStream ==
  ASSUME StreamInv, Recv
  PROVE  StreamInv'
<1>1. PICK start \in [1..(Len(sent) + 1) -> Int], k \in Nat : StreamAt(start, k)
  BY DEF StreamInv
<1>2. /\ sent' = sent /\ conn' = conn /\ held' = held /\ delivered' = delivered
      /\ sock = <<>>
  BY DEF Recv
<1>3. PICK n \in 1..Len(wire) :
        sock' = SubSeq(wire, 1, n) /\ wire' = SubSeq(wire, n + 1, Len(wire))
  BY DEF Recv
<1>4. wire \in Seq(Octet) /\ n \in 0..Len(wire)
  BY DEF StreamInv
<1>5. sock' \in Seq(Octet) /\ wire' \in Seq(Octet) /\ Len(sock') + Len(wire') = Len(wire)
  <2>1. PICK w \in Nat : w = Len(wire)
    BY <1>4
  <2>2. /\ sock' \in Seq(Octet) /\ Len(sock') = n
        /\ wire' \in Seq(Octet) /\ Len(wire') = w - n
    BY <1>3, <1>4, <2>1, Split
  <2>3. n + (w - n) = w
    BY <1>4, <2>1
  <2>4. QED
    BY <2>1, <2>2, <2>3
<1>6. sock' \o wire' = wire /\ sock \o wire = wire
  BY <1>2, <1>3, <1>4, SplitIsJoined
<1>7. StreamAt(start, k)'
  <2>1. k \in 1..(Len(sent') + 1) /\ Layout(start)'
    BY <1>1, <1>2 DEF StreamAt, Layout, Total
  <2>2. Reading(k)'
    BY <1>1, <1>2 DEF StreamAt, Reading, Total, Read
  <2>3. Returned(k)'
    BY <1>1, <1>2 DEF StreamAt, Returned
  <2>4. Ahead(start, k, Len(conn.inbound), sock)'
    <3>1. Ahead(start, k, Len(conn.inbound), sock)
      BY <1>1 DEF StreamAt
    <3>2. Len(sock') + Len(wire') = Len(sock) + Len(wire)
      BY <1>2, <1>4, <1>5
    <3>3. QED
      BY <1>2, <1>6, <3>1, <3>2 DEF Ahead, Total
  <2>5. QED
    BY <2>1, <2>2, <2>3, <2>4 DEF StreamAt
<1>8. \A h \in held' : h.octets # <<>> => \E m \in 1..Len(sent') : h.octets = Whole(m)'
  BY <1>2 DEF StreamInv, WholeFrames, Whole, Total, Read
<1>9. QED
  BY <1>2, <1>5, <1>7, <1>8 DEF StreamInv, WholeFrames

\* A step that leaves the octets alone, such as a release of memory, tuning or a failure.
LEMMA NothingIsRead ==
  ASSUME StreamInv, UNCHANGED <<sent, wire, sock, delivered>>, held' \subseteq held,
         conn' = conn \/ conn' = [conn EXCEPT !.frame_max = TunedFrameMax]
  PROVE  StreamInv'
<1>1. PICK start \in [1..(Len(sent) + 1) -> Int], k \in Nat : StreamAt(start, k)
  BY DEF StreamInv
<1>2. /\ sent' = sent /\ sock' = sock /\ wire' = wire /\ delivered' = delivered
      /\ held' \subseteq held
      /\ \/ conn' = conn
         \/ conn' = [conn EXCEPT !.frame_max = TunedFrameMax]
  OBVIOUS
<1>3. StreamAt(start, k)'
  <2>1. k \in 1..(Len(sent') + 1) /\ Layout(start)'
    BY <1>1, <1>2 DEF StreamAt, Layout, Total
  <2>2. Reading(k)'
    <3>1. Reading(k)
      BY <1>1 DEF StreamAt
    <3>2. /\ conn'.inbound = conn.inbound /\ conn'.target_size = conn.target_size
          /\ conn'.state = conn.state /\ conn'.channel = conn.channel
          /\ conn' = [state |-> conn'.state, inbound |-> conn'.inbound,
                      target_size |-> conn'.target_size, frame_max |-> conn'.frame_max,
                      buffer |-> conn'.buffer, channel |-> conn'.channel]
      BY <1>2, <3>1 DEF Reading
    <3>3. QED
      BY <1>2, <3>1, <3>2 DEF Reading, Total, Read
  <2>3. Returned(k)'
    BY <1>1, <1>2 DEF StreamAt, Returned
  <2>4. Ahead(start, k, Len(conn.inbound), sock)'
    <3>1. Ahead(start, k, Len(conn.inbound), sock) /\ Reading(k)
      BY <1>1 DEF StreamAt
    <3>2. PICK done : done = Len(conn.inbound) /\ done = Len(conn'.inbound)
      BY <1>2, <3>1 DEF Reading
    <3>3. Ahead(start, k, done, sock)
      BY <3>1, <3>2
    <3>4. QED
      BY <1>2, <3>2, <3>3 DEF Ahead, Total
  <2>5. QED
    BY <2>1, <2>2, <2>3, <2>4 DEF StreamAt
<1>4. \A h \in held' : h.octets # <<>> => \E m \in 1..Len(sent') : h.octets = Whole(m)'
  BY <1>2 DEF StreamInv, WholeFrames, Whole, Total, Read
<1>5. QED
  BY <1>2, <1>3, <1>4 DEF StreamInv, WholeFrames

-----------------------------------------------------------------------------
(* amqp_handle_input. *)

\* So many octets of frame k have been read and the rest is still to be consumed.
HasRead(start, k, octets, rest) ==
  /\ octets \in Seq(Octet) /\ rest \in Seq(Octet)
  /\ \A i \in 1..Len(octets) : octets[i] = Read(k, i)
  /\ Ahead(start, k, Len(octets), rest)

\* Nothing comes out, or frame k does.
ComesOut(k) ==
  delivered' = delivered \/ (Known(sent[k]) /\ delivered' = Append(delivered, k))

\* A frame is left behind: the connection is idle and the next one begins.
LEMMA AtNextFrame ==
  ASSUME StreamInv, NEW start \in [1..(Len(sent) + 1) -> Int], NEW k \in 1..Len(sent),
         StreamAt(start, k), NEW rest \in Seq(Octet), Ahead(start, k, Total(k), rest),
         UNCHANGED <<sent, wire>>, sock' = rest, ReturnToIdle, WholeFrames(held)',
         delivered' = IF Known(sent[k]) THEN Append(delivered, k) ELSE delivered
  PROVE  StreamInv'
<1>1. sent \in Seq(Frames) /\ Layout(start) /\ Reading(k) /\ Returned(k) /\ k \in Nat
  BY DEF StreamInv, StreamAt
<1>2. conn' = [state |-> "IDLE", inbound |-> <<>>, target_size |-> HeaderSize,
               frame_max |-> conn.frame_max, buffer |-> NoMemory, channel |-> 0]
  BY <1>1 DEF Reading, ReturnToIdle
<1>3. Ahead(start, k + 1, 0, rest)
  BY <1>1, NextFrame
<1>4. k + 1 \in 1..(Len(sent') + 1) /\ k + 1 \in Nat
  BY <1>1
<1>5. Layout(start)'
  BY <1>1 DEF Layout, Total
<1>6. Ahead(start, k + 1, Len(conn.inbound), sock)'
  <2>1. Len(conn'.inbound) = 0
    BY <1>2
  <2>2. QED
    BY <1>3, <2>1 DEF Ahead, Total
<1>7. Reading(k + 1)'
  <2>1. k + 1 > 1
    BY <1>1
  <2>2. QED
    BY <1>2, <2>1 DEF Reading, HeaderSize
<1>8. Returned(k + 1)'
  <2>1. CASE Known(sent[k])
    <3>1. delivered' = Append(delivered, k) /\ delivered \in Seq(Nat)
      BY <1>1, <2>1 DEF Returned
    <3>2. delivered' \in Seq(Nat) /\ delivered' # <<>> /\ delivered'[Len(delivered')] = k
      <4>1. /\ delivered' \in Seq(Nat) /\ delivered' # <<>>
            /\ Len(delivered') = Len(delivered) + 1 /\ delivered'[Len(delivered) + 1] = k
        BY <1>1, <3>1, AppendProperties
      <4>2. QED
        BY <4>1
    <3>3. k < k + 1 /\ \A n \in (k + 1)..((k + 1) - 1) : FALSE
      BY <1>1
    <3>4. QED
      BY <3>2, <3>3 DEF Returned
  <2>2. CASE ~Known(sent[k])
    <3>1. PICK last \in Nat : last = IF delivered = <<>> THEN 0 ELSE delivered[Len(delivered)]
      BY <1>1 DEF Returned
    <3>2. last < k /\ \A n \in (last + 1)..(k - 1) : ~Known(sent[n])
      BY <1>1, <3>1 DEF Returned
    <3>3. last < k + 1 /\ \A n \in (last + 1)..((k + 1) - 1) : ~Known(sent[n])
      <4>1. \A n \in (last + 1)..((k + 1) - 1) : n = k \/ n \in (last + 1)..(k - 1)
        BY <1>1
      <4>2. QED
        BY <1>1, <2>2, <3>2, <4>1
    <3>4. QED
      BY <1>1, <2>2, <3>1, <3>3 DEF Returned, Known
  <2>3. QED
    BY <2>1, <2>2
<1>9. StreamAt(start, k + 1)'
  BY <1>4, <1>5, <1>6, <1>7, <1>8 DEF StreamAt
<1>10. QED
  BY <1>4, <1>9 DEF StreamInv

\* A frame goes on: more of it has been read.
LEMMA AtSameFrame ==
  ASSUME StreamInv, NEW start \in [1..(Len(sent) + 1) -> Int], NEW k \in 1..Len(sent),
         StreamAt(start, k), HasRead(start, k, conn'.inbound, sock'),
         UNCHANGED <<sent, wire, delivered>>, WholeFrames(held)', Reading(k)'
  PROVE  StreamInv'
<1>1. sent \in Seq(Frames) /\ Layout(start) /\ Returned(k) /\ k \in Nat
  BY DEF StreamInv, StreamAt
<1>2. k \in 1..(Len(sent') + 1) /\ Layout(start)'
  BY <1>1 DEF Layout, Total
<1>3. Ahead(start, k, Len(conn.inbound), sock)'
  BY DEF HasRead, Ahead, Total
<1>4. Returned(k)'
  BY <1>1 DEF Returned
<1>5. StreamAt(start, k)'
  BY <1>2, <1>3, <1>4 DEF StreamAt
<1>6. QED
  BY <1>1, <1>5 DEF StreamInv, HasRead

\* The frame the octets belong to, and all of it when they are as many as it has.
LEMMA FrameIsRead ==
  ASSUME sent \in Seq(Frames), NEW start, NEW k \in 1..Len(sent), NEW octets, NEW rest,
         HasRead(start, k, octets, rest), Len(octets) > 0
  PROVE  /\ octets[1].frame = k /\ FrameAt(octets) = sent[k]
         /\ Len(octets) = Total(k) => octets = Whole(k)
<1>1. octets[1] = Read(k, 1)
  BY DEF HasRead
<1>2. octets[1].frame = k
  BY <1>1 DEF Read, HeaderSize
<1>3. ASSUME Len(octets) = Total(k) PROVE octets = Whole(k)
  <2>1. /\ DOMAIN octets = 1..Total(k) /\ octets = [i \in DOMAIN octets |-> octets[i]]
        /\ \A i \in 1..Total(k) : octets[i] = Read(k, i)
    BY <1>3 DEF HasRead
  <2>2. QED
    BY <2>1 DEF Whole
<1>4. QED
  BY <1>2, <1>3 DEF FrameAt

\* A complete frame either ends the connection or is left behind, and delivered when its
\* type is one the client knows.
LEMMA FinishKeepsStream ==
  ASSUME StreamInv, NEW start \in [1..(Len(sent) + 1) -> Int], NEW k \in 1..Len(sent),
         StreamAt(start, k), NEW octets, NEW rest, HasRead(start, k, octets, rest),
         Len(octets) = Total(k), NEW p, NEW inUse, WholeFrames(inUse),
         Finish(octets, rest, p, inUse), UNCHANGED <<sent, wire>>
  PROVE  StreamInv' /\ ComesOut(k)
<1>1. sent \in Seq(Frames) /\ rest \in Seq(Octet) /\ Ahead(start, k, Total(k), rest)
  BY DEF StreamInv, HasRead
<1>2. octets[1].frame = k /\ FrameAt(octets) = sent[k]
  BY <1>1, TotalIsPositive, FrameIsRead DEF HeaderSize, FooterSize
<1> DEFINE Kept == UNCHANGED <<sock, conn, held, delivered>>
           Left == /\ delivered' = IF Known(sent[k]) THEN Append(delivered, k) ELSE delivered
                   /\ sock' = rest /\ ReturnToIdle /\ WholeFrames(held')
<1>3. Kept \/ Left
  <2> DEFINE Return ==
        delivered' = (IF Known(sent[k]) THEN Append(delivered, k) ELSE delivered)
        /\ sock' = rest /\ ReturnToIdle
  <2>1. CASE Fails("BAD_AMQP_DATA")
    BY <2>1 DEF Fails
  <2>2. ASSUME NEW a, OutOfMemory(sent[k].channel, a) PROVE Kept
    BY <2>2 DEF OutOfMemory
  <2>3. ASSUME NEW a, Return,
               held' = inUse \cup {[channel |-> sent[k].channel, at |-> a.at, octets |-> <<>>]}
        PROVE  Left
    BY <2>3 DEF WholeFrames
  <2>4. ASSUME Return, held' = inUse PROVE Left
    BY <2>4
  <2> HIDE DEF Kept, Left
  <2>5. QED
    BY <1>2, <2>1, <2>2, <2>3, <2>4 DEF Finish
<1>4. CASE Kept
  BY <1>4, NothingIsRead DEF ComesOut
<1>5. CASE Left
  <2>1. WholeFrames(held)'
    BY <1>5 DEF WholeFrames, Whole, Total, Read
  <2>2. StreamInv'
    BY <1>1, <1>5, <2>1, AtNextFrame
  <2>3. ComesOut(k)
    BY <1>5 DEF ComesOut
  <2>4. QED
    BY <2>2, <2>3
<1>6. QED
  BY <1>3, <1>4, <1>5

\* A step of amqp_handle_input takes octets of frame k up to the target.  Only the octet
\* after the header of the first frame is not what it will be read as.
Reads(start, k, got) ==
  /\ start \in [1..(Len(sent) + 1) -> Int] /\ k \in 1..Len(sent) /\ StreamAt(start, k)
  /\ got.inbound \in Seq(Octet) /\ got.rest \in Seq(Octet)
  /\ Ahead(start, k, Len(got.inbound), got.rest)
  /\ Len(conn.inbound) <= Len(got.inbound) /\ Len(got.inbound) <= conn.target_size
  /\ HeaderSize <= conn.target_size /\ conn.target_size <= Total(k)
  /\ \A i \in 1..Len(got.inbound) :
       i # HeaderSize + 1 \/ conn.state # "INITIAL" => got.inbound[i] = Read(k, i)

\* Every step of amqp_handle_input reads octets of the current frame.
LEMMA InputIsRead ==
  ASSUME StreamInv, HandleInput
  PROVE  \E start, k : Reads(start, k, Consume(conn.inbound, sock, conn.target_size))
<1>1. PICK start \in [1..(Len(sent) + 1) -> Int], k \in Nat : StreamAt(start, k)
  BY DEF StreamInv
<1>2. /\ sent \in Seq(Frames) /\ sock \in Seq(Octet) /\ wire \in Seq(Octet)
      /\ Layout(start) /\ Ahead(start, k, Len(conn.inbound), sock)
      /\ Reading(k) /\ Returned(k) /\ k \in 1..(Len(sent) + 1)
      /\ sock # <<>> /\ UNCHANGED <<sent, wire>>
  BY <1>1 DEF StreamInv, StreamAt, HandleInput
<1>3. PICK inbound \in Seq(Octet), octets \in Seq(Octet), target \in Nat :
        /\ inbound = conn.inbound /\ octets = sock /\ target = conn.target_size
        /\ Len(inbound) < target /\ Len(inbound) \in Nat
  BY <1>2 DEF Reading
<1>31. PICK got : got = Consume(inbound, octets, target)
  OBVIOUS
<1>4. k \in 1..Len(sent)
  <2>1. k <= Len(sent)
    BY <1>2, <1>3, SomethingIsRead
  <2>2. QED
    BY <1>2, <2>1
<1>5. Total(k) \in Nat /\ target <= Total(k) /\ target >= HeaderSize
  <2>1. Total(k) \in Nat /\ Total(k) >= HeaderSize + FooterSize
    BY <1>2, <1>4, TotalIsPositive
  <2>2. target \in {HeaderSize, HeaderSize + 1, Total(k)}
    BY <1>2, <1>3 DEF Reading
  <2>3. QED
    BY <2>1, <2>2 DEF HeaderSize, FooterSize
<1>6. /\ got.inbound \in Seq(Octet) /\ got.rest \in Seq(Octet)
      /\ Len(inbound) <= Len(got.inbound) /\ Len(got.inbound) <= target
      /\ \A i \in 1..Len(inbound) : got.inbound[i] = inbound[i]
      /\ \A i \in (Len(inbound) + 1)..Len(got.inbound) :
           got.inbound[i] = [frame |-> k, place |-> i]
      /\ Ahead(start, k, Len(got.inbound), got.rest)
  <2> DEFINE c == Consume(inbound, octets, target)
  <2>1. Len(inbound) <= target /\ Ahead(start, k, Len(inbound), octets)
    BY <1>2, <1>3
  <2>2. /\ c.inbound \in Seq(Octet) /\ c.rest \in Seq(Octet)
        /\ Len(inbound) <= Len(c.inbound) /\ Len(c.inbound) <= target
        /\ \A i \in 1..Len(inbound) : c.inbound[i] = inbound[i]
        /\ \A i \in (Len(inbound) + 1)..Len(c.inbound) :
             c.inbound[i] = [frame |-> k, place |-> i]
        /\ Ahead(start, k, Len(c.inbound), c.rest)
    BY <1>2, <1>4, <1>5, <2>1, ConsumedInOrder
  <2> HIDE DEF c
  <2>3. got = c
    BY <1>31 DEF c
  <2>4. QED
    BY <2>2, <2>3
<1>7. PICK h \in Nat, m \in Nat :
        h = Len(inbound) /\ m = Len(got.inbound) /\ h <= m /\ m <= target
  <2>1. Len(inbound) \in Nat /\ Len(got.inbound) \in Nat
    BY <1>3, <1>6
  <2>2. QED
    BY <1>6, <2>1
<1>8. /\ conn.state = "INITIAL" => k = 1 /\ target = HeaderSize + 1
      /\ conn.state = "BODY" => target = Total(k) /\ (k = 1 => h > HeaderSize)
      /\ conn.state \notin {"INITIAL", "BODY"} =>
           conn.state \in {"IDLE", "HEADER"} /\ k > 1 /\ target = HeaderSize
  BY <1>2, <1>3, <1>7 DEF Reading
<1>9. ASSUME NEW i \in 1..m, i # HeaderSize + 1 \/ conn.state # "INITIAL"
      PROVE  got.inbound[i] = Read(k, i)
  <2>1. CASE i \in 1..h
    BY <1>2, <1>3, <1>6, <1>7, <2>1 DEF Reading
  <2>2. CASE i \in (h + 1)..m
    <3>1. k # 1 \/ i # HeaderSize + 1
      BY <1>8, <1>9, <2>2 DEF HeaderSize
    <3>2. QED
      BY <1>6, <1>7, <2>2, <3>1 DEF Read
  <2>3. QED
    BY <2>1, <2>2
<1>10. Reads(start, k, got)
  <2>1. Len(inbound) <= Len(got.inbound) /\ Len(got.inbound) <= target
    BY <1>6
  <2>2. \A i \in 1..Len(got.inbound) :
          i # HeaderSize + 1 \/ conn.state # "INITIAL" => got.inbound[i] = Read(k, i)
    BY <1>7, <1>9
  <2>3. QED
    BY <1>1, <1>3, <1>4, <1>5, <1>6, <2>1, <2>2 DEF Reads
<1>11. QED
  BY <1>3, <1>31, <1>10

\* The header as it is copied to the buffer: of a first frame with a zero after it.
Header(got) ==
  SubSeq(got.inbound, 1, HeaderSize) \o IF conn.state = "INITIAL" THEN <<Zero>> ELSE <<>>

\* What is copied is the beginning of the frame the header announces.
LEMMA HeaderIsRead ==
  ASSUME NEW start, NEW k, NEW got, Reads(start, k, got), conn.state # "BODY",
         Len(got.inbound) = conn.target_size
  PROVE  HasRead(start, k, Header(got), got.rest) /\ Len(Header(got)) = conn.target_size
<1>0. /\ got.inbound \in Seq(Octet) /\ got.rest \in Seq(Octet)
      /\ conn.target_size \in Nat /\ Len(got.inbound) = conn.target_size
      /\ Ahead(start, k, conn.target_size, got.rest)
      /\ conn.target_size >= HeaderSize
      /\ conn.state = "INITIAL" => k = 1 /\ conn.target_size = HeaderSize + 1
      /\ conn.state # "INITIAL" => conn.target_size = HeaderSize
      /\ \A i \in 1..conn.target_size : i # HeaderSize + 1 => got.inbound[i] = Read(k, i)
  BY DEF Reads, StreamAt, Reading
<1> DEFINE first == SubSeq(got.inbound, 1, HeaderSize)
<1>1. HeaderSize \in 0..Len(got.inbound)
  BY <1>0 DEF HeaderSize
<1>2. /\ first \in Seq(Octet) /\ Len(first) = HeaderSize
      /\ \A i \in 1..HeaderSize : first[i] = got.inbound[i]
  BY <1>0, <1>1, Split
<1>3. \A i \in 1..HeaderSize : first[i] = Read(k, i)
  BY <1>0, <1>2 DEF HeaderSize
<1> HIDE DEF first
<1> DEFINE Right == /\ Len(Header(got)) = conn.target_size /\ Header(got) \in Seq(Octet)
                    /\ \A i \in 1..conn.target_size : Header(got)[i] = Read(k, i)
<1>4. ASSUME conn.state = "INITIAL" PROVE Right
  <2>1. PICK z \in Seq(Octet) : z = <<Zero>> /\ Len(z) = 1 /\ z[1] = Zero
    <3>1. <<Zero>> \in Seq(Octet) /\ Len(<<Zero>>) = 1 /\ <<Zero>>[1] = Zero
      BY DEF Zero, Octet
    <3>2. QED
      BY <3>1
  <2>2. Header(got) = first \o z
    BY <1>4, <2>1 DEF Header, first
  <2>3. /\ Header(got) \in Seq(Octet) /\ Len(Header(got)) = HeaderSize + 1
        /\ \A i \in 1..HeaderSize : Header(got)[i] = first[i]
        /\ Header(got)[HeaderSize + 1] = Zero
    <3>1. /\ first \o z \in Seq(Octet) /\ Len(first \o z) = Len(first) + Len(z)
          /\ \A i \in 1..Len(first) : (first \o z)[i] = first[i]
          /\ \A i \in 1..Len(z) : (first \o z)[Len(first) + i] = z[i]
      BY <1>2, Joined
    <3>2. QED
      BY <1>2, <2>1, <2>2, <3>1 DEF HeaderSize
  <2>4. Read(k, HeaderSize + 1) = Zero /\ conn.target_size = HeaderSize + 1
    BY <1>0, <1>4 DEF Read
  <2>5. QED
    BY <1>3, <2>3, <2>4 DEF HeaderSize
<1>5. ASSUME conn.state # "INITIAL" PROVE Right
  <2>1. Header(got) = first \o <<>>
    BY <1>5 DEF Header, first
  <2>2. /\ Header(got) \in Seq(Octet) /\ Len(Header(got)) = HeaderSize
        /\ \A i \in 1..HeaderSize : Header(got)[i] = first[i]
    BY <1>2, <2>1 DEF HeaderSize
  <2>3. conn.target_size = HeaderSize
    BY <1>0, <1>5
  <2>4. QED
    BY <1>3, <2>2, <2>3
<1>6. QED
  BY <1>0, <1>4, <1>5 DEF HasRead

\* A header is followed by as much of the frame as is there.
LEMMA MoreIsRead ==
  ASSUME StreamInv, NEW start, NEW k, NEW got, Reads(start, k, got), conn.state # "BODY",
         Len(got.inbound) = conn.target_size
  PROVE  LET more == Consume(Header(got), got.rest, Total(k))
         IN  /\ HasRead(start, k, more.inbound, more.rest)
             /\ Len(more.inbound) > 0 /\ Len(more.inbound) <= Total(k)
             /\ k = 1 => Len(more.inbound) > HeaderSize
<1>1. /\ sent \in Seq(Frames) /\ wire \in Seq(Octet) /\ Layout(start) /\ Reading(k)
      /\ k \in 1..Len(sent) /\ HasRead(start, k, Header(got), got.rest)
      /\ Len(Header(got)) = conn.target_size
  BY HeaderIsRead DEF StreamInv, Reads, StreamAt
<1>2. PICK header \in Seq(Octet), rest \in Seq(Octet), target \in Nat :
        header = Header(got) /\ rest = got.rest /\ target = Total(k)
  <2>1. Total(k) \in Nat
    BY <1>1, TotalIsPositive
  <2>2. QED
    BY <1>1, <2>1 DEF HasRead
<1>3. /\ Len(header) \in Nat /\ Len(header) <= target /\ Len(header) > 0
      /\ k = 1 => Len(header) > HeaderSize
  <2>1. /\ conn.target_size \in {HeaderSize, HeaderSize + 1}
        /\ k = 1 => conn.target_size = HeaderSize + 1
    BY <1>1 DEF Reading
  <2>2. target >= HeaderSize + FooterSize
    BY <1>1, <1>2, TotalIsPositive
  <2>3. QED
    BY <1>1, <1>2, <2>1, <2>2 DEF HeaderSize, FooterSize
<1>4. /\ Ahead(start, k, Len(header), rest)
      /\ \A i \in 1..Len(header) : header[i] = Read(k, i)
  BY <1>1, <1>2 DEF HasRead
<1>5. PICK more : more = Consume(header, rest, target)
  OBVIOUS
<1>6. /\ more.inbound \in Seq(Octet) /\ more.rest \in Seq(Octet)
      /\ Len(header) <= Len(more.inbound) /\ Len(more.inbound) <= target
      /\ \A i \in 1..Len(header) : more.inbound[i] = header[i]
      /\ \A i \in (Len(header) + 1)..Len(more.inbound) :
           more.inbound[i] = [frame |-> k, place |-> i]
      /\ Ahead(start, k, Len(more.inbound), more.rest)
  <2> DEFINE c == Consume(header, rest, target)
  <2>1. target <= Total(k)
    BY <1>2
  <2>2. /\ c.inbound \in Seq(Octet) /\ c.rest \in Seq(Octet)
        /\ Len(header) <= Len(c.inbound) /\ Len(c.inbound) <= target
        /\ \A i \in 1..Len(header) : c.inbound[i] = header[i]
        /\ \A i \in (Len(header) + 1)..Len(c.inbound) :
             c.inbound[i] = [frame |-> k, place |-> i]
        /\ Ahead(start, k, Len(c.inbound), c.rest)
    BY <1>1, <1>3, <1>4, <2>1, ConsumedInOrder
  <2> HIDE DEF c
  <2>3. more = c
    BY <1>5 DEF c
  <2>4. QED
    BY <2>2, <2>3
<1>7. PICK h \in Nat, m \in Nat :
        h = Len(header) /\ m = Len(more.inbound) /\ h <= m /\ m <= target /\ h > 0
  <2>1. Len(header) \in Nat /\ Len(more.inbound) \in Nat
    BY <1>6
  <2>2. QED
    BY <1>3, <1>6, <2>1
<1>8. HasRead(start, k, more.inbound, more.rest)
  <2>1. ASSUME NEW i \in 1..m PROVE more.inbound[i] = Read(k, i)
    <3>1. CASE i \in 1..h
      BY <1>4, <1>6, <1>7, <3>1
    <3>2. CASE i \in (h + 1)..m
      <4>1. k = 1 => i > HeaderSize + 1
        BY <1>3, <1>7, <3>2 DEF HeaderSize
      <4>2. k # 1 \/ i # HeaderSize + 1
        BY <4>1 DEF HeaderSize
      <4>3. QED
        BY <1>6, <1>7, <3>2, <4>2 DEF Read
    <3>3. QED
      BY <1>7, <3>1, <3>2
  <2>2. QED
    BY <1>6, <1>7, <2>1 DEF HasRead
<1>9. k = 1 => m > HeaderSize
  BY <1>3, <1>7 DEF HeaderSize
<1>10. QED
  BY <1>2, <1>5, <1>7, <1>8, <1>9

\* A header leads to the buffer for the frame, and to its end when all of it is there.
LEMMA ReadHeaderKeepsStream ==
  ASSUME StreamInv, NEW start, NEW k, NEW got, Reads(start, k, got), conn.state # "BODY",
         Len(got.inbound) = conn.target_size, FrameAt(got.inbound) = sent[k],
         ReadHeader(got), UNCHANGED <<sent, wire>>
  PROVE  StreamInv' /\ ComesOut(k)
<1>1. /\ sent \in Seq(Frames) /\ Reading(k) /\ k \in 1..Len(sent)
      /\ start \in [1..(Len(sent) + 1) -> Int] /\ StreamAt(start, k)
  BY DEF StreamInv, Reads, StreamAt
<1>2. PICK target \in Nat :
        target = sent[k].size + HeaderSize + FooterSize /\ target = Total(k)
  <2>1. Total(k) \in Nat
    BY <1>1, TotalIsPositive
  <2>2. QED
    BY <2>1 DEF Total
<1>3. PICK more : more = Consume(Header(got), got.rest, target)
  OBVIOUS
<1>4. /\ HasRead(start, k, more.inbound, more.rest)
      /\ Len(more.inbound) > 0 /\ Len(more.inbound) <= target
      /\ k = 1 => Len(more.inbound) > HeaderSize
  BY <1>2, <1>3, MoreIsRead
<1> DEFINE Filled(a) == [channel |-> sent[k].channel, at |-> a.at, octets |-> more.inbound]
           Partial(a) ==
             /\ Len(more.inbound) < target
             /\ conn' = [conn EXCEPT !.state = "BODY", !.inbound = more.inbound,
                         !.target_size = target, !.buffer = a.at, !.channel = sent[k].channel]
             /\ sock' = more.rest /\ delivered' = delivered
             /\ held' = held \cup {[channel |-> sent[k].channel, at |-> a.at, octets |-> <<>>]}
<1>5. \/ Fails("BAD_AMQP_DATA")
      \/ \E a : OutOfMemory(sent[k].channel, a) /\ conn' = conn
      \/ \E a : Partial(a)
      \/ \E a : /\ Len(more.inbound) >= target
                /\ Finish(more.inbound, more.rest, a.pool, held \cup {Filled(a)})
  BY <1>2, <1>3 DEF ReadHeader, Header, OutOfMemory
<1>6. CASE Fails("BAD_AMQP_DATA")
  BY <1>6, NothingIsRead DEF Fails, ComesOut
<1>7. ASSUME NEW a, OutOfMemory(sent[k].channel, a) PROVE StreamInv' /\ ComesOut(k)
  BY <1>7, NothingIsRead DEF OutOfMemory, ComesOut
<1>8. ASSUME NEW a, Partial(a) PROVE StreamInv' /\ ComesOut(k)
  <2>1. conn' = [state |-> "BODY", inbound |-> more.inbound, target_size |-> target,
                 frame_max |-> conn.frame_max, buffer |-> a.at, channel |-> sent[k].channel]
    BY <1>1, <1>8 DEF Reading
  <2>2. Reading(k)'
    <3>0. more.inbound \in Seq(Octet)
      BY <1>4 DEF HasRead
    <3>1. \A i \in 1..Len(more.inbound) : more.inbound[i] = Read(k, i)
      BY <1>4 DEF HasRead
    <3>2. k = 1 => Len(more.inbound) > HeaderSize
      BY <1>4 DEF HeaderSize
    <3>3. target = sent'[k].size + HeaderSize + FooterSize /\ k \in 1..Len(sent')
      BY <1>1, <1>2
    <3>4. /\ conn'.state = "BODY" /\ conn'.inbound = more.inbound
          /\ conn'.target_size = target /\ conn'.channel = sent'[k].channel
          /\ conn' = [state |-> conn'.state, inbound |-> conn'.inbound,
                      target_size |-> conn'.target_size, frame_max |-> conn'.frame_max,
                      buffer |-> conn'.buffer, channel |-> conn'.channel]
      BY <2>1
    <3>5. Len(more.inbound) < target /\ k <= Len(sent')
      BY <1>8, <3>3
    <3>6. QED
      BY <3>0, <3>1, <3>2, <3>3, <3>4, <3>5 DEF Reading, Total, Read
  <2>3. WholeFrames(held)'
    <3>1. WholeFrames(held')
      BY <1>8 DEF StreamInv, WholeFrames
    <3>2. QED
      BY <3>1 DEF WholeFrames, Whole, Total, Read
  <2>4. HasRead(start, k, conn'.inbound, sock')
    BY <1>4, <1>8, <2>1
  <2>5. QED
    BY <1>1, <1>8, <2>2, <2>3, <2>4, AtSameFrame DEF ComesOut
<1>9. ASSUME NEW a, Len(more.inbound) >= target,
              Finish(more.inbound, more.rest, a.pool, held \cup {Filled(a)})
       PROVE  StreamInv' /\ ComesOut(k)
  <2>0. Len(more.inbound) \in Nat
    BY <1>4 DEF HasRead
  <2>1. Len(more.inbound) = Total(k) /\ Len(more.inbound) > 0
    BY <1>2, <1>4, <1>9, <2>0
  <2>2. more.inbound = Whole(k)
    BY <1>1, <1>4, <2>1, FrameIsRead
  <2>3. WholeFrames(held \cup {Filled(a)})
    BY <1>1, <2>2 DEF StreamInv, WholeFrames
  <2> HIDE DEF Filled
  <2>4. QED
    BY <1>1, <1>4, <1>9, <2>1, <2>3, FinishKeepsStream
<1>10. QED
  BY <1>5, <1>6, <1>7, <1>8, <1>9

\* The protocol header of a broker that refuses the version is a frame without a payload: the
\* eight octets that are read first are all of it.
LEMMA HandleInputKeepsStream ==
  ASSUME StreamInv, HandleInput
  PROVE  /\ StreamInv'
         /\ \E k \in 1..Len(sent) : ComesOut(k) /\ Returned(k)
<1>1. PICK start, k, got :
        got = Consume(conn.inbound, sock, conn.target_size) /\ Reads(start, k, got)
  BY InputIsRead
<1>2. /\ sent \in Seq(Frames) /\ UNCHANGED <<sent, wire>>
      /\ start \in [1..(Len(sent) + 1) -> Int] /\ StreamAt(start, k)
      /\ Reading(k) /\ Returned(k)
  BY <1>1 DEF Reads, StreamInv, StreamAt, HandleInput
<1>3. PICK inbound \in Seq(Octet), target \in Nat :
        inbound = conn.inbound /\ target = conn.target_size /\ Len(inbound) \in Nat
  BY <1>2 DEF Reading
<1>4. k \in 1..Len(sent)
  BY <1>1 DEF Reads
<1>5. target <= Total(k) /\ target >= HeaderSize
  BY <1>1, <1>3 DEF Reads
<1>6. /\ got.inbound \in Seq(Octet) /\ got.rest \in Seq(Octet)
      /\ Ahead(start, k, Len(got.inbound), got.rest)
  BY <1>1 DEF Reads
<1>7. PICK h \in Nat, m \in Nat :
        h = Len(inbound) /\ m = Len(got.inbound) /\ h <= m /\ m <= target
  <2>1. /\ Len(inbound) \in Nat /\ Len(got.inbound) \in Nat
        /\ Len(inbound) <= Len(got.inbound) /\ Len(got.inbound) <= target
    BY <1>1, <1>3, <1>6 DEF Reads
  <2>2. QED
    BY <2>1
<1>8. /\ conn.state = "INITIAL" => k = 1 /\ target = HeaderSize + 1
      /\ conn.state = "BODY" => target = Total(k) /\ (k = 1 => h > HeaderSize)
      /\ conn.state \notin {"INITIAL", "BODY"} =>
           conn.state \in {"IDLE", "HEADER"} /\ k > 1 /\ target = HeaderSize
  BY <1>2, <1>3, <1>7 DEF Reading
<1>9. ASSUME NEW i \in 1..m, i # HeaderSize + 1 \/ conn.state # "INITIAL"
      PROVE  got.inbound[i] = Read(k, i)
  BY <1>1, <1>7, <1>9 DEF Reads
<1>10. ASSUME m < target \/ conn.state # "INITIAL"
       PROVE  HasRead(start, k, got.inbound, got.rest)
  <2>1. ASSUME NEW i \in 1..m PROVE got.inbound[i] = Read(k, i)
    <3>1. i # HeaderSize + 1 \/ conn.state # "INITIAL"
      BY <1>8, <1>10
    <3>2. QED
      BY <1>9, <3>1
  <2>2. QED
    BY <1>6, <1>7, <2>1 DEF HasRead
<1>11. m > 0 => FrameAt(got.inbound) = sent[k]
  <2>1. m > 0 => got.inbound[1] = Read(k, 1)
    BY <1>9 DEF HeaderSize
  <2>2. QED
    BY <2>1 DEF FrameAt, Read, HeaderSize
<1>12. CASE m < target /\ ReadPart(got)
  <2>1. conn' = [state |-> IF conn.state = "IDLE" THEN "HEADER" ELSE conn.state,
                 inbound |-> got.inbound, target_size |-> target,
                 frame_max |-> conn.frame_max, buffer |-> conn.buffer, channel |-> conn.channel]
    BY <1>2, <1>3, <1>12 DEF Reading, ReadPart
  <2>2. HasRead(start, k, conn'.inbound, sock')
    BY <1>10, <1>12, <2>1 DEF ReadPart
  <2>3. Reading(k)'
    <3>1. \A i \in 1..Len(got.inbound) : got.inbound[i] = Read(k, i)
      BY <1>10, <1>12 DEF HasRead
    <3>2. /\ Len(got.inbound) < target
          /\ k = 1 /\ h > HeaderSize => Len(got.inbound) > HeaderSize
      BY <1>7, <1>12 DEF HeaderSize
    <3>3. /\ conn'.inbound = got.inbound /\ conn'.target_size = target
          /\ conn'.channel = conn.channel
          /\ conn'.state = IF conn.state = "IDLE" THEN "HEADER" ELSE conn.state
          /\ conn' = [state |-> conn'.state, inbound |-> conn'.inbound,
                      target_size |-> conn'.target_size, frame_max |-> conn'.frame_max,
                      buffer |-> conn'.buffer, channel |-> conn'.channel]
      BY <2>1
    <3>4. conn.state = "BODY" => target = sent'[k].size + HeaderSize + FooterSize
                                 /\ conn.channel = sent'[k].channel /\ k <= Len(sent')
      BY <1>2, <1>3, <1>4, <1>8 DEF Reading, Total
    <3>5. \/ conn'.state = "INITIAL" /\ target = HeaderSize + 1 /\ k = 1
          \/ conn'.state = "HEADER" /\ target = HeaderSize /\ k > 1
          \/ conn'.state = "BODY" /\ conn.state = "BODY"
      BY <1>8, <3>3
    <3>6. k = 1 /\ conn.state = "BODY" => Len(got.inbound) > HeaderSize
      BY <1>8, <3>2
    <3>7. QED
      BY <1>6, <3>1, <3>2, <3>3, <3>4, <3>5, <3>6 DEF Reading, Total, Read
  <2>4. WholeFrames(held)'
    BY <1>2, <1>12 DEF StreamInv, WholeFrames, Whole, Total, Read, ReadPart
  <2>5. QED
    BY <1>1, <1>2, <1>4, <1>12, <2>2, <2>3, <2>4, AtSameFrame DEF ReadPart, ComesOut
<1>13. CASE m = target /\ conn.state = "BODY" /\ ReadBody(got)
  <2> DEFINE inUse == (held \ {Buffer}) \cup {[Buffer EXCEPT !.octets = got.inbound]}
  <2>1. HasRead(start, k, got.inbound, got.rest) /\ Len(got.inbound) = Total(k)
    BY <1>7, <1>8, <1>10, <1>13
  <2>2. got.inbound = Whole(k)
    <3>1. Len(got.inbound) > 0
      BY <1>5, <1>7, <1>13 DEF HeaderSize
    <3>2. QED
      BY <1>2, <1>4, <2>1, <3>1, FrameIsRead
  <2>3. WholeFrames(inUse)
    BY <1>4, <2>2 DEF StreamInv, WholeFrames, Buffer
  <2>4. Finish(got.inbound, got.rest, PoolOf(conn.channel), inUse)
    BY <1>13 DEF ReadBody, Buffer
  <2> HIDE DEF inUse
  <2>5. PICK p : p = PoolOf(conn.channel)
    OBVIOUS
  <2>6. QED
    BY <1>1, <1>2, <1>4, <2>1, <2>3, <2>4, FinishKeepsStream
<1>14. CASE /\ m = target /\ conn.state = "INITIAL"
            /\ FrameAt(got.inbound).type = "PROTOCOL" /\ ReadProtocolHeader(got)
  <2>1. sent[k].type = "PROTOCOL" /\ sent[k] \in Frames
    BY <1>2, <1>4, <1>5, <1>11, <1>14 DEF HeaderSize
  <2>2. sent[k].size = 0
    BY <2>1, FramesAssumption
  <2>3. Len(got.inbound) = Total(k)
    BY <1>7, <1>8, <1>14, <2>2 DEF Total, HeaderSize, FooterSize
  <2>4. ~Known(sent[k])
    BY <2>1 DEF Known
  <2>5. WholeFrames(held)'
    BY <1>2, <1>14 DEF StreamInv, WholeFrames, Whole, Total, Read, ReadProtocolHeader
  <2>6. /\ Ahead(start, k, Total(k), got.rest)
        /\ sock' = got.rest /\ ReturnToIdle /\ delivered' = delivered
    BY <1>6, <1>14, <2>3 DEF ReadProtocolHeader
  <2>7. delivered' = IF Known(sent[k]) THEN Append(delivered, k) ELSE delivered
    BY <2>4, <2>6
  <2>8. StreamInv'
    BY <1>1, <1>2, <1>4, <1>6, <2>5, <2>6, <2>7, AtNextFrame
  <2>9. QED
    BY <1>2, <1>4, <2>6, <2>8 DEF ComesOut
<1>15. CASE m = target /\ conn.state # "BODY" /\ ReadHeader(got)
  <2>1. FrameAt(got.inbound) = sent[k] /\ Len(got.inbound) = conn.target_size
    BY <1>3, <1>5, <1>7, <1>11, <1>15 DEF HeaderSize
  <2>2. QED
    BY <1>1, <1>2, <1>4, <1>15, <2>1, ReadHeaderKeepsStream
<1>16. \/ m < target /\ ReadPart(got)
       \/ m = target /\ conn.state = "BODY" /\ ReadBody(got)
       \/ /\ m = target /\ conn.state = "INITIAL"
          /\ FrameAt(got.inbound).type = "PROTOCOL" /\ ReadProtocolHeader(got)
       \/ m = target /\ conn.state # "BODY" /\ ReadHeader(got)
  BY <1>1, <1>3, <1>7 DEF HandleInput
<1>17. QED
  BY <1>2, <1>4, <1>12, <1>13, <1>14, <1>15, <1>16

\* What is in memory, and what comes out, is what the broker sent.
THEOREM StreamInvariance == Spec => []StreamInv
<1>1. StreamInv /\ [Next]_vars => StreamInv'
  <2> SUFFICES ASSUME StreamInv, [Next]_vars PROVE StreamInv'
    OBVIOUS
  <2>1. ASSUME NEW f \in Frames, SendFrame(f) PROVE StreamInv'
    BY <2>1, SendFrameKeepsStream
  <2>2. CASE Recv
    BY <2>2, RecvKeepsStream
  <2>3. CASE HandleInput
    BY <2>3, HandleInputKeepsStream
  <2>4. CASE TuneConnection
    BY <2>4, NothingIsRead DEF TuneConnection
  <2>5. ASSUME NEW c \in DOMAIN pools, ReleaseBuffersOnChannel(c) PROVE StreamInv'
    BY <2>5, NothingIsRead DEF ReleaseBuffersOnChannel
  <2>6. CASE UNCHANGED vars
    BY <2>6, NothingIsRead DEF vars
  <2>7. QED
    BY <2>1, <2>2, <2>3, <2>4, <2>5, <2>6 DEF Next
<1>2. QED
  BY StreamInit, <1>1, PTL DEF Spec

\* A frame in memory has the octets the broker sent, in their order, except for the one
\* after the header of the first frame, which is zero (amqp_handle_input).
THEOREM IntactFrames == Spec => []FramesAreIntact
<1>1. StreamInv => FramesAreIntact
  <2> SUFFICES ASSUME StreamInv, NEW h \in held, h.octets # <<>>
               PROVE  LET n == h.octets[1].frame
                          whole == Octets(n, sent[n])
                      IN  h.octets = IF n = 1 THEN [whole EXCEPT ![HeaderSize + 1] = Zero]
                                     ELSE whole
    BY DEF FramesAreIntact
  <2>1. PICK n \in 1..Len(sent) : h.octets = Whole(n)
    BY DEF StreamInv, WholeFrames
  <2>2. Total(n) \in Nat /\ Total(n) >= HeaderSize + FooterSize
    BY TotalIsPositive DEF StreamInv
  <2>3. h.octets[1].frame = n
    BY <2>1, <2>2 DEF Whole, Read, HeaderSize, FooterSize
  <2>4. Octets(n, sent[n]) = [i \in 1..Total(n) |-> [frame |-> n, place |-> i]]
    BY DEF Octets, Total
  <2>5. Whole(n) = IF n = 1 THEN [Octets(n, sent[n]) EXCEPT ![HeaderSize + 1] = Zero]
                   ELSE Octets(n, sent[n])
    BY <2>4 DEF Whole, Read
  <2>6. QED
    BY <2>1, <2>3, <2>5
<1>2. QED
  BY StreamInvariance, <1>1, PTL

\* The input side implements a channel that loses, repeats and reorders nothing
\* (consume_one_frame): every step maps to a send, to the delivery of the next known frame
\* or to no step.
THEOREM StreamRefinement == Spec => ImplementsFrameStream
<1>1. Init => Stream!Init
  BY DEF Init, Stream!Init
<1>2. StreamInv /\ [Next]_vars => [Stream!Next]_<<sent, delivered>>
  <2> SUFFICES ASSUME StreamInv, [Next]_vars PROVE [Stream!Next]_<<sent, delivered>>
    OBVIOUS
  <2>1. ASSUME NEW f \in Frames, SendFrame(f) PROVE Stream!Next
    BY <2>1 DEF SendFrame, Stream!Next, Stream!Send
  <2>2. CASE HandleInput
    <3>1. PICK k \in 1..Len(sent) : ComesOut(k) /\ Returned(k)
      BY <2>2, HandleInputKeepsStream
    <3>2. sent' = sent
      BY <2>2 DEF HandleInput
    <3>3. CASE delivered' = delivered
      BY <3>2, <3>3
    <3>4. CASE Known(sent[k]) /\ delivered' = Append(delivered, k)
      <4>1. PICK last \in Nat : last = Stream!LastOf(delivered)
        BY <3>1 DEF Returned, Stream!LastOf
      <4>2. last < k /\ \A n \in (last + 1)..(k - 1) : ~Known(sent[n])
        BY <3>1, <4>1 DEF Returned, Stream!LastOf
      <4>3. k \in (last + 1)..Len(sent)
        BY <4>2 DEF StreamInv
      <4>4. Stream!Deliver(k)
        BY <3>2, <3>4, <4>1, <4>2 DEF Stream!Deliver
      <4>5. QED
        BY <4>1, <4>3, <4>4 DEF Stream!Next
    <3>5. QED
      BY <3>1, <3>3, <3>4 DEF ComesOut
  <2>3. CASE Recv
    BY <2>3 DEF Recv
  <2>4. CASE TuneConnection
    BY <2>4 DEF TuneConnection
  <2>5. ASSUME NEW c \in DOMAIN pools, ReleaseBuffersOnChannel(c)
        PROVE  UNCHANGED <<sent, delivered>>
    BY <2>5 DEF ReleaseBuffersOnChannel
  <2>6. CASE UNCHANGED vars
    BY <2>6 DEF vars
  <2>7. QED
    BY <2>1, <2>2, <2>3, <2>4, <2>5, <2>6 DEF Next
<1>3. QED
  BY StreamInvariance, <1>1, <1>2, PTL DEF Spec, ImplementsFrameStream, Stream!Spec

-----------------------------------------------------------------------------
(* Memory in use. *)

\* The buffer of the frame being received gets its octets.
LEMMA FilledIsSound ==
  ASSUME NEW ps, NEW hs, Sound(ps, hs), NEW b \in hs, NEW octets,
         b = [channel |-> b.channel, at |-> b.at, octets |-> b.octets],
         Len(octets) <= b.at.to - b.at.from
  PROVE  Sound(ps, (hs \ {b}) \cup {[b EXCEPT !.octets = octets]})
<1> DEFINE new == [b EXCEPT !.octets = octets]
<1>1. new.channel = b.channel /\ new.at = b.at /\ new.octets = octets
  OBVIOUS
<1> HIDE DEF new
<1>2. \A h \in hs \ {b} :
        /\ h.channel = b.channel => Disjoint(h.at, new.at) /\ Disjoint(new.at, h.at)
        /\ \A g \in hs : g # h /\ g.channel = h.channel => Disjoint(g.at, h.at)
  BY <1>1 DEF Sound
<1>3. QED
  BY <1>1, <1>2 DEF Sound, new

\* A release empties the pool and forgets what was in it.
LEMMA RecycledIsSound ==
  ASSUME Sound(pools, held), NEW c \in DOMAIN pools
  PROVE  Sound([pools EXCEPT ![c] = RecyclePool(@)], {h \in held : h.channel # c})
<1> DEFINE q == [pools EXCEPT ![c] = RecyclePool(@)]
<1>1. DOMAIN q = DOMAIN pools /\ q[c] = RecyclePool(pools[c])
      /\ \A d \in DOMAIN pools : d # c => q[d] = pools[d]
  OBVIOUS
<1>2. PoolInv(RecyclePool(pools[c]))
  <2>1. PICK p \in Pool : p = pools[c]
    BY DEF Sound, PoolInv
  <2>2. /\ RecyclePool(p) \in Pool /\ RecyclePool(p).next_page = 0
        /\ RecyclePool(p).pages = p.pages /\ RecyclePool(p).alloc_block = NoBlock
    BY ONLY p \in Pool DEF RecyclePool, Pool, Block, NoBlock
  <2>3. p.pages \in Nat
    BY DEF Pool
  <2>4. PoolInv(RecyclePool(p))
    BY <2>2, <2>3 DEF PoolInv
  <2>5. QED
    BY <2>1, <2>4
<1> HIDE DEF q
<1>3. QED
  BY <1>1, <1>2 DEF Sound, q

\* The end of a frame: what it is decoded into comes from the pool of its channel.
LEMMA FinishKeepsMemory ==
  ASSUME MemoryInv, NEW c, NEW octets, NEW rest, NEW p, NEW inUse,
         FrameAt(octets) \in Frames, FrameAt(octets).channel = c,
         conn = [state |-> conn.state, inbound |-> conn.inbound,
                 target_size |-> conn.target_size, frame_max |-> conn.frame_max,
                 buffer |-> conn.buffer, channel |-> conn.channel],
         Sound(WithPool(c, p), held), Sound(WithPool(c, p), inUse),
         Finish(octets, rest, p, inUse)
  PROVE  MemoryInv'
<1>1. PICK f \in Frames : f = FrameAt(octets) /\ f.channel = c /\ f.decoded \in Nat
  BY FramesAssumption
<1>2. CASE UNCHANGED <<conn, pools, held>>
  BY <1>2 DEF MemoryInv, Sound, Buffer
<1>3. ASSUME conn' = conn, held' = held, Sound(pools', held) PROVE MemoryInv'
  BY <1>3 DEF MemoryInv, Sound, Buffer
<1>4. ASSUME ReturnToIdle, Sound(pools', held') PROVE MemoryInv'
  <2>1. conn'.state = "IDLE" /\ conn'.frame_max = conn.frame_max
    BY <1>4 DEF ReturnToIdle
  <2>2. QED
    BY <1>4, <2>1 DEF MemoryInv, Sound
<1>5. ASSUME NEW a \in Alloc(p, f.decoded), OutOfMemory(c, a) PROVE MemoryInv'
  <2>1. Sound(WithPool(c, a.pool), held)
    BY <1>1, TakenIsSound
  <2>2. conn' = conn /\ held' = held /\ pools' = WithPool(c, a.pool)
    BY <1>5 DEF OutOfMemory
  <2>3. QED
    BY <1>3, <2>1, <2>2
<1>6. ASSUME NEW a \in Alloc(p, f.decoded), a.at # NoMemory, ReturnToIdle,
             pools' = WithPool(c, a.pool),
             held' = inUse \cup {[channel |-> c, at |-> a.at, octets |-> <<>>]}
      PROVE  MemoryInv'
  <2>1. <<>> \in Seq(Octet) /\ Len(<<>>) <= f.decoded
    BY <1>1
  <2>2. Sound(WithPool(c, a.pool), inUse \cup {[channel |-> c, at |-> a.at, octets |-> <<>>]})
    BY <1>1, <1>6, <2>1, TakenIsSound
  <2>3. QED
    BY <1>4, <1>6, <2>2
<1>7. ASSUME ReturnToIdle, pools' = WithPool(c, p), held' = inUse PROVE MemoryInv'
  BY <1>4, <1>7
<1>8. CASE Fails("BAD_AMQP_DATA")
  BY <1>2, <1>8 DEF Fails
<1> HIDE DEF MemoryInv
<1>9. QED
  BY <1>1, <1>5, <1>6, <1>7, <1>8 DEF Finish

\* A header is the moment at which memory for the frame is taken.
LEMMA ReadHeaderKeepsMemory ==
  ASSUME StreamInv, MemoryInv, NEW start, NEW k, NEW got, Reads(start, k, got),
         conn.state # "BODY", Len(got.inbound) = conn.target_size,
         FrameAt(got.inbound) = sent[k], ReadHeader(got)
  PROVE  MemoryInv'
<1>1. /\ sent \in Seq(Frames) /\ Reading(k) /\ k \in 1..Len(sent)
  BY DEF StreamInv, Reads, StreamAt
<1>2. PICK target \in Nat :
        target = sent[k].size + HeaderSize + FooterSize /\ target = Total(k)
  <2>1. Total(k) \in Nat
    BY <1>1, TotalIsPositive
  <2>2. QED
    BY <2>1 DEF Total
<1>3. PICK more, c : more = Consume(Header(got), got.rest, target) /\ c = sent[k].channel
  OBVIOUS
<1>4. /\ HasRead(start, k, more.inbound, more.rest) /\ more.inbound \in Seq(Octet)
      /\ Len(more.inbound) > 0 /\ Len(more.inbound) <= target
  BY <1>2, <1>3, MoreIsRead DEF HasRead
<1>5. conn = [state |-> conn.state, inbound |-> conn.inbound,
              target_size |-> conn.target_size, frame_max |-> conn.frame_max,
              buffer |-> conn.buffer, channel |-> conn.channel]
  BY <1>1 DEF Reading
<1>6. PICK p : p = PoolOf(c) /\ Sound(WithPool(c, p), held)
  BY PoolOfIsSound DEF MemoryInv
<1>7. ASSUME NEW a \in Alloc(p, target)
      PROVE  /\ Sound(WithPool(c, a.pool), held)
             /\ a.at # NoMemory => target <= a.at.to - a.at.from
             /\ \A octets \in Seq(Octet) : a.at # NoMemory /\ Len(octets) <= target =>
                  Sound(WithPool(c, a.pool),
                        held \cup {[channel |-> c, at |-> a.at, octets |-> octets]})
  BY <1>6, TakenIsSound
<1> DEFINE Partial(a) ==
             /\ conn' = [conn EXCEPT !.state = "BODY", !.inbound = more.inbound,
                         !.target_size = target, !.buffer = a.at, !.channel = c]
             /\ pools' = WithPool(c, a.pool)
             /\ held' = held \cup {[channel |-> c, at |-> a.at, octets |-> <<>>]}
           inUse(a) == held \cup {[channel |-> c, at |-> a.at, octets |-> more.inbound]}
<1>8. \/ Fails("BAD_AMQP_DATA")
      \/ \E a \in Alloc(p, target) :
           \/ OutOfMemory(c, a) /\ conn' = conn
           \/ a.at # NoMemory /\ Partial(a)
           \/ a.at # NoMemory /\ Finish(more.inbound, more.rest, a.pool, inUse(a))
  BY <1>2, <1>3, <1>6 DEF ReadHeader, Header, OutOfMemory
<1>9. CASE Fails("BAD_AMQP_DATA")
  BY <1>9 DEF Fails, MemoryInv, Sound, Buffer
<1>10. ASSUME NEW a \in Alloc(p, target), OutOfMemory(c, a) PROVE MemoryInv'
  BY <1>7, <1>10 DEF OutOfMemory, MemoryInv, Sound, Buffer
<1>11. ASSUME NEW a \in Alloc(p, target), a.at # NoMemory, Partial(a) PROVE MemoryInv'
  <2>1. <<>> \in Seq(Octet) /\ Len(<<>>) <= target
    BY <1>2
  <2>2. Sound(pools', held')
    BY <1>7, <1>11, <2>1
  <2>3. /\ conn'.frame_max = conn.frame_max /\ conn'.target_size = target
        /\ conn'.buffer = a.at /\ conn'.channel = c
    BY <1>5, <1>11
  <2>4. target <= a.at.to - a.at.from
    BY <1>7, <1>11
  <2>5. Buffer' \in held'
    BY <1>11, <2>3 DEF Buffer
  <2>6. QED
    BY <2>2, <2>3, <2>4, <2>5 DEF MemoryInv, Sound
<1>12. ASSUME NEW a \in Alloc(p, target), a.at # NoMemory,
              Finish(more.inbound, more.rest, a.pool, inUse(a))
       PROVE  MemoryInv'
  <2>1. FrameAt(more.inbound) = sent[k] /\ sent[k] \in Frames
    BY <1>1, <1>4, FrameIsRead
  <2>2. Sound(WithPool(c, a.pool), held) /\ Sound(WithPool(c, a.pool), inUse(a))
    BY <1>4, <1>7, <1>12
  <2> HIDE DEF inUse
  <2>3. QED
    BY <1>2, <1>3, <1>5, <1>12, <2>1, <2>2, FinishKeepsMemory
<1>13. QED
  BY <1>8, <1>9, <1>10, <1>11, <1>12

\* Reading harms no memory in use: a part, a header, a body and a protocol header.
LEMMA HandleInputKeepsMemory ==
  ASSUME StreamInv, MemoryInv, HandleInput
  PROVE  MemoryInv'
<1>1. PICK start, k, got :
        got = Consume(conn.inbound, sock, conn.target_size) /\ Reads(start, k, got)
  BY InputIsRead
<1>2. /\ sent \in Seq(Frames) /\ Reading(k) /\ k \in 1..Len(sent)
      /\ got.inbound \in Seq(Octet) /\ Len(got.inbound) <= conn.target_size
      /\ HeaderSize <= conn.target_size /\ conn.target_size \in Nat
  BY <1>1 DEF Reads, StreamInv, StreamAt, Reading
<1>3. conn = [state |-> conn.state, inbound |-> conn.inbound,
              target_size |-> conn.target_size, frame_max |-> conn.frame_max,
              buffer |-> conn.buffer, channel |-> conn.channel]
  BY <1>2 DEF Reading
<1>4. CASE ReadPart(got)
  <2>1. /\ conn'.frame_max = conn.frame_max /\ conn'.target_size = conn.target_size
        /\ conn'.buffer = conn.buffer /\ conn'.channel = conn.channel
        /\ conn'.state = "BODY" => conn.state = "BODY"
    BY <1>3, <1>4 DEF ReadPart
  <2>2. pools' = pools /\ held' = held
    BY <1>4 DEF ReadPart
  <2>3. QED
    BY <2>1, <2>2 DEF MemoryInv, Sound, Buffer
<1>5. CASE ReadProtocolHeader(got)
  BY <1>3, <1>5 DEF ReadProtocolHeader, ReturnToIdle, MemoryInv, Sound
<1>6. CASE /\ Len(got.inbound) = conn.target_size /\ FrameAt(got.inbound) = sent[k]
           /\ conn.state = "BODY" /\ ReadBody(got)
  <2> DEFINE inUse == (held \ {Buffer}) \cup {[Buffer EXCEPT !.octets = got.inbound]}
             c == conn.channel
  <2>1. PICK p : p = PoolOf(c) /\ Sound(WithPool(c, p), held)
    BY PoolOfIsSound DEF MemoryInv
  <2>2. Finish(got.inbound, got.rest, p, inUse)
    BY <1>6, <2>1 DEF ReadBody, Buffer
  <2>3. Sound(WithPool(c, p), inUse)
    <3>1. /\ Buffer \in held /\ Len(got.inbound) <= Buffer.at.to - Buffer.at.from
          /\ Buffer = [channel |-> Buffer.channel, at |-> Buffer.at, octets |-> Buffer.octets]
      BY <1>6 DEF MemoryInv, Buffer
    <3>2. QED
      BY <2>1, <3>1, FilledIsSound
  <2>4. FrameAt(got.inbound) \in Frames /\ FrameAt(got.inbound).channel = c
    BY <1>2, <1>6 DEF Reading
  <2> HIDE DEF inUse
  <2>5. QED
    BY <1>3, <2>1, <2>2, <2>3, <2>4, FinishKeepsMemory
<1>7. CASE /\ Len(got.inbound) = conn.target_size /\ FrameAt(got.inbound) = sent[k]
           /\ conn.state # "BODY" /\ ReadHeader(got)
  BY <1>1, <1>7, ReadHeaderKeepsMemory
<1>8. Len(got.inbound) = conn.target_size => FrameAt(got.inbound) = sent[k]
  <2>1. Len(got.inbound) = conn.target_size => got.inbound[1] = Read(k, 1)
    BY <1>1, <1>2 DEF Reads, HeaderSize
  <2>2. QED
    BY <2>1 DEF FrameAt, Read, HeaderSize
<1>9. Len(got.inbound) \in Nat
  BY <1>2
<1>10. QED
  BY <1>1, <1>2, <1>4, <1>5, <1>6, <1>7, <1>8, <1>9 DEF HandleInput

\* What is in use was handed out by its pool, and the buffer of a frame that is being
\* received is large enough for it.
THEOREM MemoryInvariance == Spec => []MemoryInv
<1>1. Init => MemoryInv
  BY FramesAssumption DEF Init, MemoryInv, Sound
<1>2. StreamInv /\ MemoryInv /\ [Next]_vars => MemoryInv'
  <2> SUFFICES ASSUME StreamInv, MemoryInv, [Next]_vars PROVE MemoryInv'
    OBVIOUS
  <2>1. ASSUME UNCHANGED <<conn, pools, held>> PROVE MemoryInv'
    BY <2>1 DEF MemoryInv, Sound, Buffer
  <2>2. ASSUME NEW f \in Frames, SendFrame(f) PROVE MemoryInv'
    BY <2>1, <2>2 DEF SendFrame
  <2>3. CASE Recv
    BY <2>1, <2>3 DEF Recv
  <2>4. CASE HandleInput
    BY <2>4, HandleInputKeepsMemory
  <2>5. CASE TuneConnection
    <3>1. PICK k : Reading(k)
      BY DEF StreamInv, StreamAt
    <3>2. conn'.frame_max = TunedFrameMax /\ conn'.state # "BODY"
      BY <2>5, <3>1 DEF TuneConnection, Reading
    <3>3. pools' = pools /\ held' = held
      BY <2>5 DEF TuneConnection
    <3>4. QED
      BY <3>2, <3>3, FramesAssumption DEF MemoryInv, Sound
  <2>6. ASSUME NEW c \in DOMAIN pools, ReleaseBuffersOnChannel(c) PROVE MemoryInv'
    <3>1. Sound(pools', held')
      BY <2>6, RecycledIsSound DEF ReleaseBuffersOnChannel, MemoryInv
    <3>2. conn' = conn /\ conn.state = "IDLE"
      BY <2>6 DEF ReleaseBuffersOnChannel
    <3>3. QED
      BY <3>1, <3>2 DEF MemoryInv, Sound
  <2>7. CASE UNCHANGED vars
    BY <2>1, <2>7 DEF vars
  <2>8. QED
    BY <2>2, <2>3, <2>4, <2>5, <2>6, <2>7 DEF Next
<1>3. QED
  BY StreamInvariance, <1>1, <1>2, PTL DEF Spec

\* Memory in use lies inside its page, holds what is in it and overlaps nothing else in use,
\* and no release, tuning or failed allocation takes the buffer away
\* (amqp_pool_alloc, amqp_maybe_release_buffers_on_channel).
THEOREM DisjointMemory == Spec => []MemoryIsDisjoint
<1>1. MemoryInv => MemoryIsDisjoint
  BY DEF MemoryInv, MemoryIsDisjoint, Sound, Used, Buffer
<1>2. QED
  BY MemoryInvariance, <1>1, PTL
==============================================================================
