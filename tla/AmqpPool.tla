------------------------------ MODULE AmqpPool -------------------------------
(* The memory pools of rabbitmq-c (amqp_mem.c).  A pool hands out extents of  *)
(* pages, which it keeps and fills again after a recycle, and separate blocks *)
(* for what does not fit a page, which a recycle frees.                       *)
(*                                                                            *)
(* A block is a kind and a number: the n-th page, the n-th large block, or a  *)
(* page that was allocated but could not be recorded and is never freed.      *)
EXTENDS Integers

Align == 8
DefaultPageSize == 4096

NoBlock == [kind |-> "none", number |-> 0]
Page(n) == [kind |-> "page", number |-> n]
LargeBlock(n) == [kind |-> "large", number |-> n]
LostPage(n) == [kind |-> "lost", number |-> n]

Extent(block, from, to) == [block |-> block, from |-> from, to |-> to]
NoMemory == Extent(NoBlock, 0, 0)

InitPool(pagesize) ==
  [pagesize |-> IF pagesize = 0 THEN DefaultPageSize ELSE pagesize,
   pages |-> 0, large |-> 0, lost |-> 0, next_page |-> 0, alloc_block |-> NoBlock, alloc_used |-> 0]

RecyclePool(p) ==
  [p EXCEPT !.large = 0, !.next_page = 0, !.alloc_block = NoBlock, !.alloc_used = 0]

RoundUp(amount) == ((amount + Align - 1) \div Align) * Align

Outcome(p, at) == [pool |-> p, at |-> at]

AllocLarge(p, amount) ==
  {Outcome([p EXCEPT !.large = @ + 1], Extent(LargeBlock(p.large + 1), 0, amount)),
   Outcome(p, NoMemory)}

AllocInPage(p, amount) ==
  {Outcome([p EXCEPT !.alloc_used = @ + amount],
           Extent(p.alloc_block, p.alloc_used, p.alloc_used + amount))}

\* A page that calloc refuses leaves no current page; one that cannot be
\* recorded stays the current page although the request fails.
AllocNewPage(p, amount) ==
  {Outcome([p EXCEPT !.pages = @ + 1, !.next_page = p.pages + 1,
                     !.alloc_block = Page(p.pages + 1), !.alloc_used = amount],
           Extent(Page(p.pages + 1), 0, amount)),
   Outcome([p EXCEPT !.alloc_block = NoBlock], NoMemory),
   Outcome([p EXCEPT !.alloc_block = LostPage(p.lost + 1), !.lost = @ + 1], NoMemory)}

AllocNextPage(p, amount) ==
  {Outcome([p EXCEPT !.next_page = @ + 1, !.alloc_block = Page(p.next_page + 1), !.alloc_used = amount],
           Extent(Page(p.next_page + 1), 0, amount))}

\* The outcomes of amqp_pool_alloc, those included in which the system has no
\* memory.
Alloc(p, requested) ==
  LET amount == RoundUp(requested)
  IN  IF requested = 0 THEN {Outcome(p, NoMemory)}
      ELSE IF amount > p.pagesize THEN AllocLarge(p, amount)
      ELSE IF p.alloc_block # NoBlock /\ p.alloc_used + amount <= p.pagesize THEN AllocInPage(p, amount)
      ELSE IF p.next_page >= p.pages THEN AllocNewPage(p, amount)
      ELSE AllocNextPage(p, amount)

Disjoint(x, y) == x.block # y.block \/ x.to <= y.from \/ y.to <= x.from
==============================================================================
