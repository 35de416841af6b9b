------------------------- MODULE PageBlocksInvariant -------------------------
(***************************************************************************)
(* The inductive invariant of PageBlocks.  That every step preserves it,   *)
(* and that the safety properties of PageBlocks are consequences of it, is *)
(* proved in PageBlocksProofs.                                             *)
(***************************************************************************)
EXTENDS PageBlocks

\* The lists of a page, and the blocks that `used` counts.
AllLists(pg) == pg.free \cup pg.local_free \cup pg.thread_free \cup pg.fresh
UsedBlocks(p, pg) == BlocksOf(p) \ (pg.free \cup pg.local_free \cup pg.fresh)

\* The lists of a page hold its own blocks, each once, and `used` counts the rest.
PageLists(p, pg) ==
  /\ AllLists(pg) \subseteq BlocksOf(p)
  /\ pg.free \cap (pg.local_free \cup pg.thread_free \cup pg.fresh) = {}
  /\ pg.local_free \cap (pg.thread_free \cup pg.fresh) = {}
  /\ pg.thread_free \cap pg.fresh = {}
  /\ pg.used = Cardinality(UsedBlocks(p, pg))

Lists == \A p \in Pages : PageLists(p, page[p])

\* Where a block is when it is on no list of its page.
Listed(b)      == b \in AllLists(page[PageOf[b]])
Delayed_(b, h) == b \in thread_delayed_free[h]
Held(t, b)     == remote[t].pc \in {"push", "load", "delay"} /\ remote[t].blk = b
ByOwner(b)     == b \in owner.list \/ b = owner.blk

\* Each block is on a list of its page, with the client, on a delayed list, in the
\* hands of a thread or of the owner; no two of these.
Placed ==
  \A b \in Blocks :
    /\ Listed(b) \/ b \in live \/ (\E h \in Heaps : Delayed_(b, h))
         \/ (\E t \in Remotes : Held(t, b)) \/ ByOwner(b)
    /\ b \in live => ~Listed(b)
    /\ ByOwner(b) => ~Listed(b) /\ b \notin live
    /\ b \in owner.list => b # owner.blk
    /\ \A h \in Heaps : Delayed_(b, h) =>
         /\ ~Listed(b) /\ b \notin live /\ ~ByOwner(b)
         /\ \A g \in Heaps : Delayed_(b, g) => g = h
    /\ \A t \in Remotes : Held(t, b) =>
         /\ ~Listed(b) /\ b \notin live /\ ~ByOwner(b)
         /\ \A h \in Heaps : ~Delayed_(b, h)
         /\ \A u \in Remotes : Held(u, b) => u = t

\* The heap of a page is one of the owner's; a page has one exactly while it is in
\* a queue, or abandoned and being reclaimed.
InQueue(p) == page[p].place \in {"queue", "full"}
Reclaiming(p) == owner.pc \in {"rflag", "rcollect"} /\ owner.page = p

Homes ==
  \A p \in Pages :
    /\ page[p].xheap # NoHeap => page[p].xheap \in heaps
    /\ page[p].xheap # NoHeap <=> InQueue(p) \/ Reclaiming(p)
    /\ page[p].place = "none" => page[p] = Cleared(p)
    /\ Reclaiming(p) => page[p].place = "abandoned"
    /\ page[p].place = "abandoned" /\ (owner.pc = "rcollect" => owner.page # p)
         => page[p].delayed = "NEVER"

\* The heaps of the owner in each call.
OwnHeaps ==
  /\ backing \notin NoReclaim
  /\ IF owner.pc = "gone" THEN heaps = {} ELSE backing \in heaps
  /\ owner.op \notin {"none", "reclaim"} => owner.heap \in heaps
  /\ owner.op \in {"absorb", "absorbed"} => owner.heap # backing
  /\ owner.op = "exit" => heaps = {owner.heap}

\* The points of a call.
Stages ==
  /\ owner.pc \in {"idle", "gone", "filled"} => owner.op = "none"
  /\ owner.pc \in {"find", "pick", "tofull"} => owner.op \in {"malloc", "retry"}
  /\ owner.pc \in {"rflag", "rcollect"} => owner.op \in {"malloc", "retry", "reclaim"}
  /\ owner.pc = "never" => owner.op \in {"abandon", "exit"}
  /\ owner.pc \in {"visit", "acollect"} => owner.op \in Collecting
  /\ owner.pc \in {"append", "appflag"} => owner.op = "absorb"
  /\ owner.pc \in {"fnever", "fend"} => owner.op = "fabandon"
  /\ owner.list # {} => owner.pc \in {"dloop", "dfree"}

\* A page that is to be allocated from is in its queue.
Candidate ==
  owner.cand # NoPage =>
    /\ owner.pc \in {"find", "pick", "tofull"}
    /\ owner.cand \in owner.seen /\ page[owner.cand].place = "queue"

\* One thread frees into a page in state FREEING, and pushes on its heap, or on
\* the heap that it had when the owner began to absorb it.
InFreeing(t) == remote[t].pc \in {"load", "delay", "reset"}

FreeingOne ==
  /\ \A t \in Remotes : InFreeing(t) => page[PageOf[remote[t].blk]].delayed = "FREEING"
  /\ \A t, u \in Remotes :
       InFreeing(t) /\ InFreeing(u) /\ PageOf[remote[t].blk] = PageOf[remote[u].blk] => t = u
  /\ \A p \in Pages : page[p].delayed = "FREEING" =>
       /\ page[p].xheap # NoHeap
       /\ \E t \in Remotes : InFreeing(t) /\ PageOf[remote[t].blk] = p
  /\ \A t \in Remotes : remote[t].pc = "reset" =>
       remote[t].blk \in owner.list \/ \E h \in Heaps : Delayed_(remote[t].blk, h)
  /\ \A t \in Remotes : remote[t].pc = "delay" =>
       \/ remote[t].heap = page[PageOf[remote[t].blk]].xheap
       \/ /\ owner.pc = "appflag" /\ owner.page = PageOf[remote[t].blk]
          /\ remote[t].heap = owner.heap

\* Delayed blocks are of pages in a heap: in that of the list, but for an absorb.
Absorbing(h) == owner.op \in {"absorb", "absorbed"} /\ owner.heap = h

DelayedOwned ==
  /\ \A h \in Heaps : \A b \in thread_delayed_free[h] :
       /\ h \in heaps
       /\ page[PageOf[b]].xheap # NoHeap
       /\ page[PageOf[b]].xheap = h \/ Absorbing(h)
  /\ \A b \in Blocks : ByOwner(b) =>
       /\ page[PageOf[b]].xheap # NoHeap
       /\ page[PageOf[b]].xheap = owner.heap \/ Absorbing(owner.heap)

\* Some block of the page will be, or is about to be, freed by the owner.
OnDelayed(b) == b \in owner.list \/ \E h \in Heaps : Delayed_(b, h)
Waiting(p) == \E b \in Blocks : PageOf[b] = p /\ OnDelayed(b)

Wakes ==
  \A p \in Pages :
    /\ page[p].delayed = "NO" => Waiting(p)
    /\ page[p].delayed = "USE" /\ page[p].thread_free # {} =>
         \/ Waiting(p) \/ (owner.pc = "dfree" /\ PageOf[owner.blk] = p)
         \/ (owner.pc = "rcollect" /\ owner.page = p)
    /\ /\ page[p].place = "full"
       /\ page[p].free \cup page[p].local_free \cup page[p].thread_free # {}
       => \/ Waiting(p) \/ (owner.pc = "dfree" /\ PageOf[owner.blk] = p)
          \/ page[p].delayed \in {"FREEING", "NEVER"}

\* Abandoning a heap: first all pages are NEVER, then the delayed list is empty.
Leaving ==
  owner.op \in {"abandon", "exit"} =>
    /\ owner.pc # "never" => \A p \in HeapPages(owner.heap) : page[p].delayed = "NEVER"
    /\ owner.pc \in {"dloop", "dfree", "visit", "acollect"} => thread_delayed_free[owner.heap] = {}
    /\ owner.pc \in {"never", "take", "dloop", "dfree"} => owner.seen = {}
    /\ owner.pc = "visit" => owner.seen \cap HeapPages(owner.heap) = {}
    /\ owner.pc = "acollect" => HeapPages(owner.heap) = {}

\* Absorbing a heap.
Moving ==
  /\ owner.pc = "appflag" => InQueue(owner.page) /\ page[owner.page].xheap = backing
  /\ owner.op = "absorbed" => HeapPages(owner.heap) = {}
  /\ owner.op = "absorbed" /\ owner.pc \in {"dloop", "dfree"} /\ owner.all =>
       thread_delayed_free[owner.heap] = {}

\* Force-abandoning a page: no delayed list refers to it any more.
Forcing ==
  owner.op = "fabandon" =>
    /\ owner.pc = "fnever" => InQueue(owner.page)
    /\ owner.pc # "fnever" => page[owner.page].place = "none" \/ page[owner.page].delayed = "NEVER"
    /\ page[owner.page].place # "none" => page[owner.page].xheap = owner.heap
    /\ owner.pc \in {"dloop", "dfree", "fend"} =>
         \A h \in Heaps : \A b \in thread_delayed_free[h] : PageOf[b] # owner.page

IInv ==
  /\ Lists /\ Placed /\ Homes /\ OwnHeaps /\ Stages /\ Candidate
  /\ FreeingOne /\ DelayedOwned /\ Wakes /\ Leaving /\ Moving /\ Forcing
=============================================================================
