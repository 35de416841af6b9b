-------------------------- MODULE PageBlocksProofs --------------------------
(***************************************************************************)
(* Theorems about PageBlocks, for any number of pages, blocks, heaps and   *)
(* threads: type correctness; that every step preserves IInv of            *)
(* PageBlocksInvariant (the steps of a free and of the owner that stay in  *)
(* a page, those that give up a page, those that move a block, and those   *)
(* that make and delete heaps); and from it the safety invariants, the     *)
(* action property and the refinement of BlockPool.                        *)
(***************************************************************************)
EXTENDS PageBlocksInvariant, FiniteSetTheorems, TLAPS

-----------------------------------------------------------------------------
(* What the operations on one page structure do to its fields.              *)

LEMMA FiniteBlocks ==
  ASSUME NEW S \in SUBSET Blocks
  PROVE  IsFiniteSet(S) /\ Cardinality(S) \in Nat
  BY FS_Subset, FS_CardinalityType, BlocksAssumption

LEMMA ClearedFields ==
  ASSUME NEW p \in Pages
  PROVE  /\ Cleared(p) \in PageRecord
         /\ Cleared(p).free = {} /\ Cleared(p).local_free = {}
         /\ Cleared(p).thread_free = {} /\ Cleared(p).fresh = BlocksOf(p)
         /\ Cleared(p).used = 0 /\ Cleared(p).delayed = "USE"
         /\ Cleared(p).xheap = NoHeap /\ Cleared(p).place = "none"
  BY DEF Cleared, PageRecord, BlocksOf, Delayed, Places

LEMMA CollectFields ==
  ASSUME NEW pg \in PageRecord, NEW force \in BOOLEAN
  PROVE  LET c     == Collect(pg, force)
             freed == pg.local_free \cup pg.thread_free
             move  == pg.free = {} \/ force
         IN /\ c \in PageRecord
            /\ c.used = pg.used - Cardinality(pg.thread_free)
            /\ c.free = IF move THEN pg.free \cup freed ELSE pg.free
            /\ c.local_free = IF move THEN {} ELSE freed
            /\ c.thread_free = {} /\ c.fresh = pg.fresh /\ c.delayed = pg.delayed
            /\ c.xheap = pg.xheap /\ c.place = pg.place
<1> DEFINE freed == pg.local_free \cup pg.thread_free
           move  == pg.free = {} \/ force
           F == IF move THEN pg.free \cup freed ELSE pg.free
           L == IF move THEN {} ELSE freed
           u == pg.used - Cardinality(pg.thread_free)
<1>1. Collect(pg, force) =
        [pg EXCEPT !.thread_free = {}, !.used = u, !.free = F, !.local_free = L]
  BY DEF Collect
<1>2. F \in SUBSET Blocks /\ L \in SUBSET Blocks
  BY DEF PageRecord
<1>3. u \in Int
  BY FiniteBlocks DEF PageRecord
<1> HIDE DEF F, L, u
<1>4. Collect(pg, force) \in PageRecord
  BY <1>1, <1>2, <1>3 DEF PageRecord
<1>5. LET c == Collect(pg, force)
      IN /\ c.used = u /\ c.free = F /\ c.local_free = L /\ c.thread_free = {}
         /\ c.fresh = pg.fresh /\ c.delayed = pg.delayed
         /\ c.xheap = pg.xheap /\ c.place = pg.place
  BY <1>1 DEF PageRecord
<1> QED
  BY <1>4, <1>5 DEF F, L, u

LEMMA PopFields ==
  ASSUME NEW pg \in PageRecord, NEW b
  PROVE  /\ Pop(pg, b) \in PageRecord
         /\ Pop(pg, b).free = pg.free \ {b} /\ Pop(pg, b).used = pg.used + 1
         /\ Pop(pg, b).local_free = pg.local_free
         /\ Pop(pg, b).thread_free = pg.thread_free /\ Pop(pg, b).fresh = pg.fresh
         /\ Pop(pg, b).delayed = pg.delayed /\ Pop(pg, b).xheap = pg.xheap
         /\ Pop(pg, b).place = pg.place
<1> DEFINE u == pg.used + 1
<1>1. Pop(pg, b) = [pg EXCEPT !.free = pg.free \ {b}, !.used = u]
  BY DEF Pop
<1>2. u \in Int
  BY DEF PageRecord
<1> HIDE DEF u
<1>3. /\ Pop(pg, b) \in PageRecord
      /\ Pop(pg, b).free = pg.free \ {b} /\ Pop(pg, b).used = u
      /\ Pop(pg, b).local_free = pg.local_free
      /\ Pop(pg, b).thread_free = pg.thread_free /\ Pop(pg, b).fresh = pg.fresh
      /\ Pop(pg, b).delayed = pg.delayed /\ Pop(pg, b).xheap = pg.xheap
      /\ Pop(pg, b).place = pg.place
  BY <1>1, <1>2 DEF PageRecord
<1> QED
  BY <1>3 DEF u

LEMMA ExtendFields ==
  ASSUME NEW pg \in PageRecord, NEW S \in SUBSET Blocks
  PROVE  LET e == Extend(pg, S)
         IN /\ e \in PageRecord
            /\ e.free = pg.free \cup S /\ e.fresh = pg.fresh \ S
            /\ e.local_free = pg.local_free /\ e.thread_free = pg.thread_free
            /\ e.used = pg.used /\ e.delayed = pg.delayed
            /\ e.xheap = pg.xheap /\ e.place = pg.place
  BY DEF Extend, PageRecord

\* Moving a page between the queues changes nothing else in it.
LEMMA MoveFields ==
  ASSUME NEW pg \in PageRecord
  PROVE  /\ ToFull(pg) \in PageRecord /\ ToFull(pg).place = "full"
         /\ ToQueue(pg) \in PageRecord /\ ToQueue(pg).place = "queue"
         /\ \A r \in {ToFull(pg), ToQueue(pg)} :
              /\ r.free = pg.free /\ r.local_free = pg.local_free
              /\ r.thread_free = pg.thread_free /\ r.fresh = pg.fresh
              /\ r.used = pg.used /\ r.delayed = pg.delayed /\ r.xheap = pg.xheap
BY DEF ToFull, ToQueue, PageRecord, Places

\* pa_segment_check_free leaves a page structure.
LEMMA CheckFreeFields ==
  ASSUME NEW p \in Pages, NEW pg \in PageRecord
  PROVE  CheckFree(p, pg) \in PageRecord
BY CollectFields, ClearedFields DEF CheckFree

\* What pa_free_block_local leaves: the block on local_free, or the page retired.
LEMMA FreeLocalFields ==
  ASSUME NEW p \in Pages, NEW pg \in PageRecord, NEW b \in Blocks
  PROVE  LET r == FreeLocal(p, pg, b)
             local == pg.local_free \cup {b}
             freed == local \cup pg.thread_free
         IN /\ r \in PageRecord
            /\ \/ /\ pg.used # 1
                  /\ r.free = pg.free /\ r.local_free = local
                  /\ r.thread_free = pg.thread_free /\ r.fresh = pg.fresh
                  /\ r.used = pg.used - 1 /\ r.delayed = pg.delayed /\ r.xheap = pg.xheap
                  /\ r.place = IF pg.place = "full" THEN "queue" ELSE pg.place
               \/ /\ pg.used = 1
                  /\ r.free = IF pg.free = {} THEN freed ELSE pg.free
                  /\ r.local_free = IF pg.free = {} THEN {} ELSE freed
                  /\ r.thread_free = {} /\ r.fresh = pg.fresh
                  /\ r.used = 0 - Cardinality(pg.thread_free)
                  /\ r.delayed = pg.delayed /\ r.xheap = pg.xheap
                  /\ r.place = pg.place /\ pg.place = "queue"
               \/ pg.used = 1 /\ r = Cleared(p)
<1> DEFINE local == pg.local_free \cup {b}
           u     == pg.used - 1
           f     == [pg EXCEPT !.local_free = local, !.used = u]
<1>1. FreeLocal(p, pg, b) = IF u = 0 THEN Retire(p, Collect(f, FALSE))
                            ELSE IF f.place = "full" THEN ToQueue(f) ELSE f
  <2>1. f.used = u
    BY DEF PageRecord
  <2> QED
    BY <2>1 DEF FreeLocal
<1>2. u \in Int /\ local \in SUBSET Blocks
  BY DEF PageRecord
<1> HIDE DEF u, local
<1>3. /\ f \in PageRecord /\ f.local_free = local /\ f.used = u
      /\ f.free = pg.free /\ f.thread_free = pg.thread_free /\ f.fresh = pg.fresh
      /\ f.delayed = pg.delayed /\ f.xheap = pg.xheap /\ f.place = pg.place
  BY <1>2 DEF PageRecord
<1> HIDE DEF f
<1>4. CASE u = 0
  <2>1. FreeLocal(p, pg, b) = Retire(p, Collect(f, FALSE))
    BY <1>1, <1>4
  <2>2. \/ FreeLocal(p, pg, b) = Collect(f, FALSE) /\ Collect(f, FALSE).place = "queue"
        \/ FreeLocal(p, pg, b) = Cleared(p)
    BY <2>1 DEF Retire
  <2>3. pg.used = 1
    BY <1>4 DEF u, PageRecord
  <2>4. CASE FreeLocal(p, pg, b) = Cleared(p)
    BY <2>3, <2>4, ClearedFields
  <2>5. CASE FreeLocal(p, pg, b) = Collect(f, FALSE) /\ Collect(f, FALSE).place = "queue"
    <3> DEFINE c == Collect(f, FALSE)
    <3>1. /\ c \in PageRecord /\ c.used = f.used - Cardinality(f.thread_free)
          /\ c.free = IF f.free = {} THEN f.free \cup (f.local_free \cup f.thread_free) ELSE f.free
          /\ c.local_free = IF f.free = {} THEN {} ELSE f.local_free \cup f.thread_free
          /\ c.thread_free = {} /\ c.fresh = f.fresh /\ c.delayed = f.delayed
          /\ c.xheap = f.xheap /\ c.place = f.place
      BY <1>3, CollectFields
    <3> HIDE DEF c
    <3>2. FreeLocal(p, pg, b) = c /\ c.place = "queue"
      BY <2>5 DEF c
    <3> QED
      BY <3>1, <3>2, <2>3, <1>3, <1>4 DEF local
  <2> QED
    BY <2>2, <2>4, <2>5
<1>5. CASE u # 0
  <2>1. FreeLocal(p, pg, b) = IF f.place = "full" THEN ToQueue(f) ELSE f
    BY <1>1, <1>5
  <2>2. u = pg.used - 1 /\ pg.used # 1
    BY <1>5 DEF u, PageRecord
  <2>3. CASE f.place = "full"
    BY <1>3, <2>1, <2>2, <2>3, MoveFields DEF local
  <2>4. CASE f.place # "full"
    BY <1>3, <2>1, <2>2, <2>4 DEF local
  <2> QED
    BY <2>3, <2>4
<1> QED
  BY <1>4, <1>5

-----------------------------------------------------------------------------
(* Type correctness.                                                        *)

\* The initial state of the threads, pages and heaps is well typed.
LEMMA InitTypeOK == Init => TypeOK
<1> SUFFICES ASSUME Init PROVE TypeOK
  OBVIOUS
<1>1. page \in [Pages -> PageRecord]
  BY ClearedFields DEF Init
<1>2. /\ thread_delayed_free \in [Heaps -> SUBSET Blocks]
      /\ heaps \subseteq Heaps /\ backing \in Heaps /\ live \subseteq Blocks
  BY DEF Init
<1>3. /\ remote \in [Remotes -> RemoteRecord]
      /\ \A t \in Remotes : remote[t].pc = "idle"
  BY DEF Init, RemoteIdle, RemoteRecord
<1>4. /\ owner \in OwnerRecord
      /\ owner.pc = "idle" /\ owner.op = "none" /\ owner.blk = NoBlock
  BY DEF Init, Idle, OwnerRecord, OwnerPcs, OwnerOps
<1> QED
  BY <1>1, <1>2, <1>3, <1>4, NullAssumption DEF TypeOK, WithPage

\* What TypeOK says of the shared state, of the other threads and of the owner.
SharedOK ==
  /\ page \in [Pages -> PageRecord]
  /\ thread_delayed_free \in [Heaps -> SUBSET Blocks]
  /\ heaps \subseteq Heaps /\ backing \in Heaps
  /\ live \subseteq Blocks

RemoteOK ==
  /\ remote \in [Remotes -> RemoteRecord]
  /\ \A t \in Remotes :
       /\ remote[t].pc # "idle" => remote[t].blk \in Blocks
       /\ remote[t].pc = "delay" => remote[t].heap \in Heaps

OwnerOK ==
  /\ owner \in OwnerRecord
  /\ owner.pc = "dfree" <=> owner.blk \in Blocks
  /\ owner.pc \in WithPage \/ owner.op = "fabandon" => owner.page \in Pages
  /\ owner.op \notin {"none", "reclaim"} => owner.heap \in Heaps
  /\ owner.op = "none" => owner.pc \in {"idle", "gone", "filled"}
  /\ owner.op = "reclaim" => owner.pc \in {"rflag", "rcollect"}
  /\ owner.op = "fabandon" => owner.pc \in {"fnever", "take", "dloop", "dfree", "fend"}

LEMMA TypeOKParts == TypeOK <=> SharedOK /\ RemoteOK /\ OwnerOK
  BY DEF TypeOK, SharedOK, RemoteOK, OwnerOK

\* Where an idle owner starts a call.
LEMMA IdleFields ==
  /\ Idle \in OwnerRecord
  /\ Idle.pc = "idle" /\ Idle.op = "none" /\ Idle.heap = NoHeap /\ Idle.page = NoPage
  /\ Idle.cand = NoPage /\ Idle.seen = {} /\ Idle.blk = NoBlock /\ Idle.list = {}
  /\ Idle.all = TRUE
  BY DEF Idle, OwnerRecord, OwnerPcs, OwnerOps

LEMMA IdleOK == owner' = Idle => OwnerOK'
  BY IdleFields, NullAssumption DEF OwnerOK, WithPage

\* Type correctness is preserved by the frees of other threads.
LEMMA RemoteTypeOK ==
  ASSUME TypeOK, NEW t \in Remotes,
         RemoteStep(t) \/ \E b \in Blocks : RemoteFree(t, b)
  PROVE  TypeOK'
<1> USE DEF RemoteRecord
<1>0. SharedOK /\ RemoteOK /\ OwnerOK
  BY TypeOKParts
<1>1. ASSUME NEW b \in Blocks, RemoteFree(t, b) PROVE TypeOK'
  BY <1>0, <1>1 DEF RemoteFree, TypeOK, SharedOK, RemoteOK, OwnerOK
<1>2. CASE RemotePush(t)
  <2>1. PageOf[remote[t].blk] \in Pages /\ remote[t].blk \in Blocks
    BY <1>0, <1>2, BlocksAssumption DEF RemotePush, RemoteOK
  <2>2. page' \in [Pages -> PageRecord]
    BY <1>0, <1>2, <2>1 DEF RemotePush, SharedOK, PageRecord, Delayed
  <2>3. RemoteOK'
    BY <1>0, <1>2, <2>1 DEF RemotePush, RemoteOK, RemoteIdle
  <2> QED
    BY <1>0, <1>2, <2>2, <2>3 DEF RemotePush, TypeOK, SharedOK, RemoteOK, OwnerOK
<1>3. CASE RemoteLoadHeap(t)
  <2>1. PageOf[remote[t].blk] \in Pages
    BY <1>0, <1>3, BlocksAssumption DEF RemoteLoadHeap, RemoteOK
  <2>2. page[PageOf[remote[t].blk]].xheap \in Heaps \cup {NoHeap}
    BY <1>0, <2>1 DEF SharedOK, PageRecord
  <2>3. RemoteOK'
    BY <1>0, <1>3, <2>2 DEF RemoteLoadHeap, RemoteOK
  <2> QED
    BY <1>0, <1>3, <2>3 DEF RemoteLoadHeap, TypeOK, SharedOK, RemoteOK, OwnerOK
<1>4. CASE RemoteDelay(t)
  BY <1>0, <1>4 DEF RemoteDelay, TypeOK, SharedOK, RemoteOK, OwnerOK
<1>5. CASE RemoteReset(t)
  <2>0. PageOf[remote[t].blk] \in Pages
    BY <1>0, <1>5, BlocksAssumption DEF RemoteReset, RemoteOK
  <2>1. page' \in [Pages -> PageRecord]
    BY <1>0, <1>5, <2>0 DEF RemoteReset, SharedOK, PageRecord, Delayed
  <2>2. RemoteOK'
    BY <1>0, <1>5 DEF RemoteReset, RemoteOK, RemoteIdle
  <2> QED
    BY <1>0, <1>5, <2>1, <2>2 DEF RemoteReset, TypeOK, SharedOK, RemoteOK, OwnerOK
<1> QED
  BY <1>1, <1>2, <1>3, <1>4, <1>5 DEF RemoteStep

\* Type correctness is preserved by allocation and by the owner's frees.
LEMMA MallocTypeOK ==
  ASSUME TypeOK,
         \/ \E h \in Heaps, p \in Pages, b \in Blocks : MallocFast(h, p, b)
         \/ \E b \in Blocks : OwnerFree(b)
         \/ \E h \in Heaps : MallocGeneric(h)
         \/ \E p \in Pages : FindFull(p) \/ FindCandidate(p) \/ MallocFresh(p) \/ CollectRetired(p)
         \/ ToFullCollect \/ MallocFound \/ MallocNoPage
  PROVE  TypeOK'
<1>0. SharedOK /\ RemoteOK /\ OwnerOK
  BY TypeOKParts
<1>page. \A p \in Pages : page[p] \in PageRecord
  BY <1>0 DEF SharedOK
<1>1. ASSUME NEW h \in Heaps, NEW p \in Pages, NEW b \in Blocks, MallocFast(h, p, b)
      PROVE  TypeOK'
  <2>1. Pop(page[p], b) \in PageRecord
    BY <1>page, PopFields
  <2>2. page' \in [Pages -> PageRecord] /\ live' \subseteq Blocks
    BY <1>0, <1>1, <2>1 DEF MallocFast, SharedOK
  <2> QED
    BY <1>0, <1>1, <2>2 DEF MallocFast, TypeOK, SharedOK, RemoteOK, OwnerOK
<1>2. ASSUME NEW b \in Blocks, OwnerFree(b) PROVE TypeOK'
  <2> DEFINE p == PageOf[b]
  <2>1. p \in Pages
    BY BlocksAssumption
  <2> HIDE DEF p
  <2>2. FreeLocal(p, page[p], b) \in PageRecord
    BY <1>page, <2>1, FreeLocalFields
  <2>3. page' \in [Pages -> PageRecord] /\ live' \subseteq Blocks
    BY <1>0, <1>2, <2>2 DEF OwnerFree, SharedOK, p
  <2> QED
    BY <1>0, <1>2, <2>3 DEF OwnerFree, TypeOK, SharedOK, RemoteOK, OwnerOK
<1>3. ASSUME NEW h \in Heaps, MallocGeneric(h) PROVE TypeOK'
  <2>1. OwnerOK'
    BY <1>3, IdleFields, NullAssumption DEF MallocGeneric, OwnerOK, OwnerRecord, OwnerPcs, OwnerOps, WithPage
  <2> QED
    BY <1>0, <1>3, <2>1 DEF MallocGeneric, TypeOK, SharedOK, RemoteOK, OwnerOK
<1>4. ASSUME NEW p \in Pages, FindFull(p) PROVE TypeOK'
  <2>1. Collect(page[p], FALSE) \in PageRecord
    BY <1>page, CollectFields
  <2>2. ToFull(Collect(page[p], FALSE)) \in PageRecord
    BY <2>1, MoveFields
  <2>3. page' \in [Pages -> PageRecord]
    BY <1>0, <1>4, <2>2 DEF FindFull, SharedOK
  <2>4. OwnerOK'
    BY <1>0, <1>4 DEF FindFull, OwnerOK, OwnerRecord, OwnerPcs, WithPage
  <2> QED
    BY <1>0, <1>4, <2>3, <2>4 DEF FindFull, TypeOK, SharedOK, RemoteOK, OwnerOK
<1>5. ASSUME NEW p \in Pages, FindCandidate(p) PROVE TypeOK'
  <2>1. Collect(page[p], FALSE) \in PageRecord
    BY <1>page, CollectFields
  <2>2. page' \in [Pages -> PageRecord]
    BY <1>0, <1>5, <2>1 DEF FindCandidate, SharedOK
  <2>3. PICK cand \in {owner.cand, p}, pc \in {"find", "pick"} :
          owner' = [owner EXCEPT !.cand = cand, !.pc = pc, !.seen = @ \cup {p}]
    BY <1>5 DEF FindCandidate
  <2>4. cand \in Pages \cup {NoPage}
    BY <1>0 DEF OwnerOK, OwnerRecord
  <2>5. OwnerOK'
    BY <1>0, <1>5, <2>3, <2>4 DEF FindCandidate, OwnerOK, OwnerRecord, OwnerPcs, WithPage
  <2> QED
    BY <1>0, <1>5, <2>2, <2>5 DEF FindCandidate, TypeOK, SharedOK, RemoteOK, OwnerOK
<1>6. CASE ToFullCollect
  <2>1. owner.page \in Pages
    BY <1>0, <1>6 DEF ToFullCollect, OwnerOK, WithPage
  <2>2. Collect(page[owner.page], FALSE) \in PageRecord
    BY <1>page, <2>1, CollectFields
  <2>3. page' \in [Pages -> PageRecord]
    BY <1>0, <1>6, <2>2 DEF ToFullCollect, SharedOK
  <2>4. OwnerOK'
    <3>1. CASE owner.pc = "filled"
      BY <1>6, <3>1, IdleOK DEF ToFullCollect
    <3>2. CASE owner.pc = "tofull"
      <4>1. owner' = [owner EXCEPT !.pc = "find", !.page = NoPage]
        BY <1>6, <3>2 DEF ToFullCollect
      <4> QED
        BY <1>0, <3>2, <4>1 DEF OwnerOK, OwnerRecord, OwnerPcs, WithPage
    <3> QED
      BY <1>6, <3>1, <3>2 DEF ToFullCollect
  <2> QED
    BY <1>0, <1>6, <2>3, <2>4 DEF ToFullCollect, TypeOK, SharedOK, RemoteOK, OwnerOK
<1>7. ASSUME NEW p \in Pages, NEW pg \in PageRecord, NEW b \in Blocks, TakeBlock(p, pg, b)
      PROVE  TypeOK'
  <2>1. Pop(pg, b) \in PageRecord
    BY PopFields
  <2>2. ToFull(Pop(pg, b)) \in PageRecord
    BY <2>1, MoveFields
  <2>3. page' \in [Pages -> PageRecord] /\ live' \subseteq Blocks
    BY <1>0, <1>7, <2>1, <2>2 DEF TakeBlock, SharedOK
  <2>4. OwnerOK'
    <3>1. CASE owner' = Idle
      BY <3>1, IdleOK
    <3>2. CASE owner' = [Idle EXCEPT !.pc = "filled", !.page = p]
      BY <3>2, IdleFields, NullAssumption DEF OwnerOK, OwnerRecord, OwnerPcs, WithPage
    <3> QED
      BY <1>7, <3>1, <3>2 DEF TakeBlock
  <2> QED
    BY <1>0, <1>7, <2>3, <2>4 DEF TakeBlock, TypeOK, SharedOK, RemoteOK, OwnerOK
<1>8. CASE MallocFound
  <2> DEFINE p == owner.cand
  <2>1. p \in Pages
    BY <1>0, <1>8 DEF MallocFound, OwnerOK, OwnerRecord
  <2>2. PICK S \in Extensions(page[p]) : \E b \in page[p].free \cup S :
          TakeBlock(p, Extend(page[p], S), b)
    BY <1>8 DEF MallocFound
  <2>3. S \in SUBSET Blocks /\ page[p].free \in SUBSET Blocks
    BY <1>page, <2>1, <2>2 DEF Extensions, PageRecord
  <2>4. Extend(page[p], S) \in PageRecord
    BY <1>page, <2>1, <2>3, ExtendFields
  <2> QED
    BY <1>7, <2>1, <2>2, <2>3, <2>4
<1>9. ASSUME NEW p \in Pages, MallocFresh(p) PROVE TypeOK'
  <2> DEFINE pg == InitPage(page[p], owner.heap)
  <2>1. pg \in PageRecord
    BY <1>0, <1>page DEF InitPage, OwnerOK, OwnerRecord, PageRecord, Places
  <2>2. PICK S \in Extensions(pg) : \E b \in S : TakeBlock(p, Extend(pg, S), b)
    BY <1>9 DEF MallocFresh
  <2> HIDE DEF pg
  <2>3. S \in SUBSET Blocks
    BY <2>1, <2>2 DEF Extensions, PageRecord
  <2>4. Extend(pg, S) \in PageRecord
    BY <2>1, <2>3, ExtendFields
  <2> QED
    BY <1>7, <2>2, <2>3, <2>4
<1>10. CASE MallocNoPage
  <2>1. OwnerOK'
    <3>1. CASE owner' = Idle
      BY <3>1, IdleOK
    <3>2. CASE owner' = [owner EXCEPT !.op = "oom", !.pc = "take", !.seen = {}] /\ owner.op = "malloc"
      BY <1>0, <1>10, <3>2 DEF MallocNoPage, NothingFound, OwnerOK, OwnerRecord, OwnerPcs, OwnerOps, WithPage
    <3> QED
      BY <1>10, <3>1, <3>2 DEF MallocNoPage
  <2> QED
    BY <1>0, <1>10, <2>1 DEF MallocNoPage, TypeOK, SharedOK, RemoteOK, OwnerOK
<1>11. ASSUME NEW p \in Pages, CollectRetired(p) PROVE TypeOK'
  <2>1. page' \in [Pages -> PageRecord]
    BY <1>0, <1>11, ClearedFields DEF CollectRetired, SharedOK
  <2> QED
    BY <1>0, <1>11, <2>1 DEF CollectRetired, TypeOK, SharedOK, RemoteOK, OwnerOK
<1> QED
  BY <1>1, <1>2, <1>3, <1>4, <1>5, <1>6, <1>8, <1>9, <1>10, <1>11

\* Type correctness is preserved by the delayed frees of the owner.
LEMMA DelayedTypeOK ==
  ASSUME TypeOK,
         \/ DelayedTake \/ DelayedFree \/ DelayedDone
         \/ \E b \in Blocks : DelayedUse(b) \/ DelayedGiveUp(b)
  PROVE  TypeOK'
<1>0. SharedOK /\ RemoteOK /\ OwnerOK
  BY TypeOKParts
<1> USE DEF OwnerOK, OwnerRecord, OwnerPcs, WithPage
<1>1. CASE DelayedTake
  <2>1. owner.heap \in Heaps /\ owner.op # "none"
    BY <1>0, <1>1 DEF DelayedTake
  <2>2. thread_delayed_free[owner.heap] \in SUBSET Blocks
    BY <1>0, <2>1 DEF SharedOK
  <2>3. OwnerOK'
    BY <1>0, <1>1, <2>1, <2>2 DEF DelayedTake
  <2> QED
    BY <1>0, <1>1, <2>3 DEF DelayedTake, TypeOK, SharedOK, RemoteOK
<1>2. CASE DelayedFree
  <2> DEFINE p == PageOf[owner.blk]
  <2>1. owner.blk \in Blocks /\ p \in Pages
    BY <1>0, <1>2, BlocksAssumption DEF DelayedFree
  <2>2. page[p] \in PageRecord
    BY <1>0, <2>1 DEF SharedOK
  <2> HIDE DEF p
  <2>3. FreeLocal(p, Collect(page[p], FALSE), owner.blk) \in PageRecord
    BY <2>1, <2>2, CollectFields, FreeLocalFields
  <2>4. page' \in [Pages -> PageRecord]
    BY <1>0, <1>2, <2>3 DEF DelayedFree, SharedOK, p
  <2>5. OwnerOK'
    BY <1>0, <1>2, NullAssumption DEF DelayedFree
  <2> QED
    BY <1>0, <1>2, <2>4, <2>5 DEF DelayedFree, TypeOK, SharedOK, RemoteOK
<1>3. CASE DelayedDone
  <2>1. OwnerOK'
    <3> DEFINE goto(pc, op) == owner' = [owner EXCEPT !.pc = pc, !.op = op]
    <3>0. owner.pc = "dloop" /\ owner.op \notin {"none", "reclaim"}
      BY <1>0, <1>3 DEF DelayedDone
    <3>1. CASE goto("take", owner.op)
      BY <1>0, <3>0, <3>1
    <3>2. CASE owner.op = "malloc" /\ goto("find", "malloc")
      BY <1>0, <3>0, <3>2
    <3>6. CASE owner.op = "malloc" /\ goto("take", "mcollect")
      <4>1. owner.heap \in Heaps /\ owner.blk \notin Blocks
        BY <1>0, <3>0, <3>6
      <4> QED
        BY <1>0, <3>0, <3>6, <4>1 DEF OwnerOps
    <3>3. CASE owner.op = "absorb" /\ goto("append", "absorb")
      BY <1>0, <3>0, <3>3
    <3>4. CASE owner.op # "fabandon" /\ goto("visit", owner.op)
      BY <1>0, <3>0, <3>4
    <3>5. CASE owner.op = "fabandon" /\ goto("fend", "fabandon")
      BY <1>0, <3>0, <3>5
    <3> QED
      BY <1>3, <3>1, <3>2, <3>3, <3>4, <3>5, <3>6 DEF DelayedDone, Goto, Collecting, Forced
  <2> QED
    BY <1>0, <1>3, <2>1 DEF DelayedDone, TypeOK, SharedOK, RemoteOK
<1>4. ASSUME NEW b \in Blocks, DelayedUse(b) PROVE TypeOK'
  <2> DEFINE p == PageOf[b]
  <2>1. page[p] \in PageRecord
    BY <1>0, BlocksAssumption DEF SharedOK
  <2>2. UseDelayed(page[p]) \in PageRecord
    BY <2>1 DEF UseDelayed, PageRecord, Delayed
  <2>3. page' \in [Pages -> PageRecord]
    BY <1>0, <1>4, <2>2 DEF DelayedUse, SharedOK
  <2>4. OwnerOK'
    BY <1>0, <1>4 DEF DelayedUse
  <2> QED
    BY <1>0, <1>4, <2>3, <2>4 DEF DelayedUse, TypeOK, SharedOK, RemoteOK
<1>5. ASSUME NEW b \in Blocks, DelayedGiveUp(b) PROVE TypeOK'
  <2>1. OwnerOK'
    BY <1>0, <1>5 DEF DelayedGiveUp
  <2>2. thread_delayed_free' \in [Heaps -> SUBSET Blocks]
    BY <1>0, <1>5 DEF DelayedGiveUp, SharedOK
  <2> QED
    BY <1>0, <1>5, <2>1, <2>2 DEF DelayedGiveUp, TypeOK, SharedOK, RemoteOK
<1> QED
  BY <1>1, <1>2, <1>3, <1>4, <1>5

\* Type correctness is preserved by collecting, deleting and absorbing heaps.
LEMMA HeapTypeOK ==
  ASSUME TypeOK,
         \/ \E h \in Heaps : \/ HeapCollect(h) \/ HeapAbandon(h) \/ HeapAbsorb(h)
                             \/ HeapDestroy(h) \/ HeapNew(h) \/ ThreadInit(h)
         \/ \E p \in Pages : NeverDelayed(p) \/ VisitPage(p) \/ CollectAbandoned(p) \/ AppendHeap(p)
         \/ NeverDone \/ VisitDone \/ CollectDone \/ AppendFlag \/ AppendDone \/ AbsorbDone
  PROVE  TypeOK'
<1>0. SharedOK /\ RemoteOK /\ OwnerOK
  BY TypeOKParts
<1>page. \A p \in Pages : page[p] \in PageRecord
  BY <1>0 DEF SharedOK
<1> USE DEF OwnerOK, OwnerRecord, OwnerPcs, OwnerOps, WithPage
<1>1. ASSUME NEW h \in Heaps, HeapCollect(h) PROVE TypeOK'
  <2>1. OwnerOK'
    BY <1>1, IdleFields, NullAssumption, ZenonT(60) DEF HeapCollect
  <2> QED
    BY <1>0, <1>1, <2>1 DEF HeapCollect, TypeOK, SharedOK, RemoteOK
<1>2. ASSUME NEW h \in Heaps, HeapAbandon(h) PROVE TypeOK'
  <2>1. OwnerOK'
    BY <1>2, IdleFields, NullAssumption, ZenonT(60) DEF HeapAbandon
  <2> QED
    BY <1>0, <1>2, <2>1 DEF HeapAbandon, TypeOK, SharedOK, RemoteOK
<1>3. ASSUME NEW h \in Heaps, HeapAbsorb(h) PROVE TypeOK'
  <2>1. OwnerOK'
    <3>1. CASE HeapPages(h) = {}
      BY <1>0, <1>3, <3>1 DEF HeapAbsorb, HeapFree
    <3>2. CASE HeapPages(h) # {}
      <4>1. owner' = [Idle EXCEPT !.pc = "take", !.op = "absorb", !.heap = h]
        BY <1>3, <3>2 DEF HeapAbsorb, HeapFree
      <4> QED
        BY <4>1, IdleFields, NullAssumption
    <3> QED
      BY <3>1, <3>2
  <2> QED
    BY <1>0, <1>3, <2>1 DEF HeapAbsorb, HeapFree, TypeOK, SharedOK, RemoteOK
<1>4. ASSUME NEW h \in Heaps, HeapDestroy(h) PROVE TypeOK'
  <2>1. page' \in [Pages -> PageRecord]
    BY <1>page, <1>4, ClearedFields DEF HeapDestroy, ResetPages, HeapFree
  <2> QED
    BY <1>0, <1>4, <2>1 DEF HeapDestroy, ResetPages, HeapFree, TypeOK, SharedOK, RemoteOK
<1>5. ASSUME NEW h \in Heaps, HeapNew(h) PROVE TypeOK'
  BY <1>0, <1>5 DEF HeapNew, TypeOK, SharedOK, RemoteOK
<1>6. ASSUME NEW h \in Heaps, ThreadInit(h) PROVE TypeOK'
  <2>1. OwnerOK'
    BY <1>6, IdleOK DEF ThreadInit
  <2> QED
    BY <1>0, <1>6, <2>1 DEF ThreadInit, TypeOK, SharedOK, RemoteOK
<1>7. ASSUME NEW p \in Pages, NeverDelayed(p) PROVE TypeOK'
  <2>1. [page[p] EXCEPT !.delayed = "NEVER"] \in PageRecord
    BY <1>page DEF PageRecord, Delayed
  <2>2. page' \in [Pages -> PageRecord]
    BY <1>0, <1>7, <2>1 DEF NeverDelayed, SharedOK
  <2> QED
    BY <1>0, <1>7, <2>2 DEF NeverDelayed, TypeOK, SharedOK, RemoteOK
<1>8. ASSUME NEW p \in Pages, VisitPage(p) PROVE TypeOK'
  <2> DEFINE c == Collect(page[p], owner.op \in Forced)
  <2>1. c \in PageRecord
    <3>1. (owner.op \in Forced) \in BOOLEAN
      OBVIOUS
    <3> QED
      BY <3>1, <1>page, CollectFields
  <2>2. Abandoned(c) \in PageRecord
    <3> HIDE DEF c
    <3> QED  BY <2>1 DEF Abandoned, PageRecord, Places
  <2>3. PICK r \in PageRecord : page' = [page EXCEPT ![p] = r]
    <3>1. \/ page' = [page EXCEPT ![p] = Cleared(p)]
          \/ page' = [page EXCEPT ![p] = Abandoned(c)]
          \/ page' = [page EXCEPT ![p] = c]
      BY <1>8 DEF VisitPage
    <3> HIDE DEF c
    <3> QED
      BY <3>1, <2>1, <2>2, ClearedFields
  <2>4. page' \in [Pages -> PageRecord]
    BY <1>0, <2>3 DEF SharedOK
  <2>5. OwnerOK'
    BY <1>0, <1>8 DEF VisitPage
  <2> QED
    BY <1>0, <1>8, <2>4, <2>5 DEF VisitPage, TypeOK, SharedOK, RemoteOK
<1>9. ASSUME NEW p \in Pages, AppendHeap(p) PROVE TypeOK'
  <2>1. [page[p] EXCEPT !.xheap = backing] \in PageRecord
    BY <1>0, <1>page DEF SharedOK, PageRecord
  <2>2. page' \in [Pages -> PageRecord]
    BY <1>0, <1>9, <2>1 DEF AppendHeap, SharedOK
  <2>3. OwnerOK'
    BY <1>0, <1>9 DEF AppendHeap
  <2> QED
    <3>1. SharedOK' /\ RemoteOK'
      BY <1>0, <1>9, <2>2 DEF AppendHeap, SharedOK, RemoteOK
    <3> QED
      BY <2>3, <3>1 DEF TypeOK, SharedOK, RemoteOK
<1>10. CASE NeverDone
  <2>1. OwnerOK'
    BY <1>0, <1>10 DEF NeverDone, Goto
  <2> QED
    BY <1>0, <1>10, <2>1 DEF NeverDone, TypeOK, SharedOK, RemoteOK
<1>11. CASE VisitDone
  <2>1. OwnerOK'
    BY <1>0, <1>11 DEF VisitDone
  <2> QED
    BY <1>0, <1>11, <2>1 DEF VisitDone, TypeOK, SharedOK, RemoteOK
<1>16. ASSUME NEW p \in Pages, CollectAbandoned(p) PROVE TypeOK'
  <2>1. page' \in [Pages -> PageRecord]
    BY <1>0, <1>page, <1>16, CheckFreeFields DEF CollectAbandoned, SharedOK
  <2>2. OwnerOK'
    BY <1>0, <1>16 DEF CollectAbandoned
  <2> QED
    BY <1>0, <1>16, <2>1, <2>2 DEF CollectAbandoned, TypeOK, SharedOK, RemoteOK
<1>17. CASE CollectDone
  <2>1. OwnerOK'
    <3>1. CASE owner' = Idle
      BY <3>1, IdleOK
    <3>2. CASE owner' = [Idle EXCEPT !.pc = "gone"]
      BY <3>2, IdleFields, NullAssumption
    <3>3. CASE owner' = [owner EXCEPT !.pc = "find", !.op = "malloc", !.seen = {}]
               /\ owner.op = "mcollect"
      BY <1>0, <1>17, <3>3 DEF CollectDone, HeapFree
    <3>4. CASE owner' = [owner EXCEPT !.pc = "find", !.op = "retry", !.seen = {}]
               /\ owner.op = "oom"
      BY <1>0, <1>17, <3>4 DEF CollectDone, HeapFree
    <3> QED
      BY <1>17, <3>1, <3>2, <3>3, <3>4 DEF CollectDone, HeapFree
  <2>2. heaps' \subseteq Heaps
    BY <1>0, <1>17 DEF CollectDone, HeapFree, SharedOK
  <2> QED
    BY <1>0, <1>17, <2>1, <2>2 DEF CollectDone, HeapFree, TypeOK, SharedOK, RemoteOK
<1>12. CASE AppendFlag
  <2>1. owner.page \in Pages /\ owner.op # "fabandon"
    BY <1>0, <1>12 DEF AppendFlag
  <2>2. UseDelayed(page[owner.page]) \in PageRecord
    BY <1>page, <2>1 DEF UseDelayed, PageRecord, Delayed
  <2>3. page' \in [Pages -> PageRecord]
    BY <1>0, <1>12, <2>2 DEF AppendFlag, SharedOK
  <2>4. OwnerOK'
    BY <1>0, <1>12, <2>1 DEF AppendFlag
  <2> QED
    BY <1>0, <1>12, <2>3, <2>4 DEF AppendFlag, TypeOK, SharedOK, RemoteOK
<1>13. CASE AppendDone
  <2>1. OwnerOK'
    BY <1>0, <1>13 DEF AppendDone, Goto
  <2> QED
    BY <1>0, <1>13, <2>1 DEF AppendDone, TypeOK, SharedOK, RemoteOK
<1>14. CASE AbsorbDone
  <2>1. OwnerOK'
    BY <1>14, IdleOK DEF AbsorbDone, ResetPages, HeapFree
  <2> QED
    BY <1>0, <1>14, <2>1 DEF AbsorbDone, ResetPages, HeapFree, TypeOK, SharedOK, RemoteOK
<1> QED
  BY <1>1, <1>2, <1>3, <1>4, <1>5, <1>6, <1>7, <1>8, <1>9, <1>10, <1>11, <1>12,
     <1>13, <1>14, <1>16, <1>17

\* Type correctness is preserved by abandoning, reclaiming and checking pages.
LEMMA AbandonTypeOK ==
  ASSUME TypeOK,
         \/ \E p \in Pages, h \in Heaps : Reclaim(p, h)
         \/ \E p \in Pages : AbandonedCheck(p) \/ ForceAbandon(p)
         \/ ReclaimFlag \/ ReclaimCollect \/ ForceAbandonNever \/ ForceAbandonDone
  PROVE  TypeOK'
<1>0. SharedOK /\ RemoteOK /\ OwnerOK
  BY TypeOKParts
<1>page. \A p \in Pages : page[p] \in PageRecord
  BY <1>0 DEF SharedOK
<1>collect. \A p \in Pages : Collect(page[p], FALSE) \in PageRecord
  BY <1>page, CollectFields
<1> USE DEF OwnerOK, OwnerRecord, OwnerPcs, OwnerOps, WithPage
<1>1. ASSUME NEW p \in Pages, NEW h \in Heaps, Reclaim(p, h) PROVE TypeOK'
  <2>1. [page[p] EXCEPT !.xheap = h] \in PageRecord
    BY <1>page DEF PageRecord
  <2>2. page' \in [Pages -> PageRecord]
    BY <1>0, <1>1, <2>1 DEF Reclaim, SharedOK
  <2>3. OwnerOK'
    <3>1. CASE owner.op = "none"
      BY <1>0, <1>1, <3>1 DEF Reclaim, NothingFound
    <3>2. CASE owner.op # "none"
      BY <1>0, <1>1, <3>2 DEF Reclaim, NothingFound
    <3> QED
      BY <3>1, <3>2
  <2> QED
    <3>1. SharedOK' /\ RemoteOK'
      BY <1>0, <1>1, <2>2 DEF Reclaim, SharedOK, RemoteOK
    <3> QED
      BY <2>3, <3>1 DEF TypeOK, SharedOK, RemoteOK
<1>2. ASSUME NEW p \in Pages, AbandonedCheck(p) PROVE TypeOK'
  <2>1. page' \in [Pages -> PageRecord]
    BY <1>0, <1>page, <1>2, CheckFreeFields DEF AbandonedCheck, SharedOK
  <2> QED
    BY <1>0, <1>2, <2>1 DEF AbandonedCheck, TypeOK, SharedOK, RemoteOK
<1>3. ASSUME NEW p \in Pages, ForceAbandon(p) PROVE TypeOK'
  <2>1. page' \in [Pages -> PageRecord]
    BY <1>0, <1>3, <1>collect DEF ForceAbandon, SharedOK
  <2>2. page[p].xheap \in Heaps
    BY <1>0, <1>3 DEF ForceAbandon, SharedOK
  <2>3. OwnerOK'
    BY <1>3, <2>2, IdleFields, NullAssumption DEF ForceAbandon
  <2> QED
    BY <1>0, <1>3, <2>1, <2>3 DEF ForceAbandon, TypeOK, SharedOK, RemoteOK
<1>4. CASE ReclaimFlag
  <2>1. [page[owner.page] EXCEPT !.delayed = "USE"] \in PageRecord
    BY <1>0, <1>4, <1>page DEF ReclaimFlag, PageRecord, Delayed
  <2>2. page' \in [Pages -> PageRecord]
    BY <1>0, <1>4, <2>1 DEF ReclaimFlag, SharedOK
  <2>3. OwnerOK'
    BY <1>0, <1>4 DEF ReclaimFlag, Goto
  <2> QED
    BY <1>0, <1>4, <2>2, <2>3 DEF ReclaimFlag, TypeOK, SharedOK, RemoteOK
<1>5. CASE ReclaimCollect
  <2> DEFINE p == owner.page
             c == Collect(page[p], FALSE)
  <2>1. p \in Pages
    BY <1>0, <1>5 DEF ReclaimCollect
  <2>2. c \in PageRecord
    BY <2>1, <1>collect
  <2>3. ToQueue(c) \in PageRecord
    BY <2>2, MoveFields
  <2>4. page' = [page EXCEPT ![p] = Cleared(p)]
        \/ page' = [page EXCEPT ![p] = ToQueue(c)]
    BY <1>5 DEF ReclaimCollect
  <2>5. page' \in [Pages -> PageRecord]
    <3> HIDE DEF c, p
    <3> QED  BY <1>0, <2>1, <2>3, <2>4, ClearedFields DEF SharedOK
  <2>6. OwnerOK'
    <3>1. CASE owner.op = "reclaim"
      BY <1>5, <3>1, IdleOK DEF ReclaimCollect
    <3>2. CASE owner.op # "reclaim"
      BY <1>0, <1>5, <3>2 DEF ReclaimCollect
    <3> QED
      BY <3>1, <3>2
  <2> QED
    BY <1>0, <1>5, <2>5, <2>6 DEF ReclaimCollect, TypeOK, SharedOK, RemoteOK
<1>6. CASE ForceAbandonNever
  <2>1. [page[owner.page] EXCEPT !.delayed = "NEVER"] \in PageRecord
    BY <1>0, <1>6, <1>page DEF ForceAbandonNever, PageRecord, Delayed
  <2>2. page' \in [Pages -> PageRecord]
    BY <1>0, <1>6, <2>1 DEF ForceAbandonNever, SharedOK
  <2>3. OwnerOK'
    BY <1>0, <1>6 DEF ForceAbandonNever, Goto
  <2> QED
    BY <1>0, <1>6, <2>2, <2>3 DEF ForceAbandonNever, TypeOK, SharedOK, RemoteOK
<1>7. CASE ForceAbandonDone
  <2> DEFINE p == owner.page
  <2>1. p \in Pages
    BY <1>0, <1>7 DEF ForceAbandonDone
  <2>2. Abandoned(page[p]) \in PageRecord
    BY <1>page, <2>1 DEF Abandoned, PageRecord, Places
  <2>3. \/ page' = [page EXCEPT ![p] = page[p]]
        \/ page' = [page EXCEPT ![p] = Cleared(p)]
        \/ page' = [page EXCEPT ![p] = Abandoned(page[p])]
    BY <1>7 DEF ForceAbandonDone
  <2>4. page' \in [Pages -> PageRecord]
    <3> HIDE DEF p
    <3> QED  BY <1>0, <1>page, <2>1, <2>2, <2>3, ClearedFields DEF SharedOK
  <2>5. OwnerOK'
    BY <1>7, IdleOK DEF ForceAbandonDone
  <2> QED
    BY <1>0, <1>7, <2>4, <2>5 DEF ForceAbandonDone, TypeOK, SharedOK, RemoteOK
<1> QED
  BY <1>1, <1>2, <1>3, <1>4, <1>5, <1>6, <1>7

LEMMA NextTypeOK == TypeOK /\ [Next]_vars => TypeOK'
<1> SUFFICES ASSUME TypeOK, [Next]_vars PROVE TypeOK'
  OBVIOUS
<1>1. CASE OwnerStep
  BY <1>1, MallocTypeOK, DelayedTypeOK, HeapTypeOK, AbandonTypeOK DEF OwnerStep
<1>2. CASE OwnerCall
  BY <1>2, MallocTypeOK, HeapTypeOK, AbandonTypeOK DEF OwnerCall
<1>3. CASE \E t \in Remotes, b \in Blocks : RemoteFree(t, b)
  BY <1>3, RemoteTypeOK
<1>4. CASE \E t \in Remotes : RemoteStep(t)
  BY <1>4, RemoteTypeOK
<1>5. CASE UNCHANGED vars
  BY <1>5 DEF vars, TypeOK
<1> QED
  BY <1>1, <1>2, <1>3, <1>4, <1>5 DEF Next

\* Every state the allocator and its clients reach is well typed: what a thread
\* holds at each point of pa_free, pa_malloc, pa_heap_delete and the other calls
\* is a block, page or heap, so no step of the protocol uses a null.
THEOREM TypeCorrect == Spec => []TypeOK
<1>1. Init => TypeOK
  BY InitTypeOK
<1>2. TypeOK /\ [Next]_vars => TypeOK'
  BY NextTypeOK
<1> QED
  BY <1>1, <1>2, PTL DEF Spec

-----------------------------------------------------------------------------
(* The lists of a page under the operations on a page structure.            *)

LEMMA UsedFinite ==
  ASSUME NEW p \in Pages, NEW pg \in PageRecord
  PROVE  /\ UsedBlocks(p, pg) \in SUBSET Blocks
         /\ IsFiniteSet(UsedBlocks(p, pg)) /\ Cardinality(UsedBlocks(p, pg)) \in Nat
<1>1. UsedBlocks(p, pg) \in SUBSET Blocks
  BY DEF UsedBlocks, BlocksOf
<1> QED
  BY <1>1, FiniteBlocks

\* In a page without used blocks all blocks are on its lists.
LEMMA UnusedListed ==
  ASSUME NEW p \in Pages, NEW pg \in PageRecord, PageLists(p, pg), pg.used = 0
  PROVE  AllLists(pg) = BlocksOf(p) /\ pg.thread_free = {}
<1>1. UsedBlocks(p, pg) = {}
  BY UsedFinite, FS_EmptySet DEF PageLists
<1> QED
  BY <1>1 DEF PageLists, AllLists, UsedBlocks

\* A block that is on no list of its page is counted in `used`, which is
\* positive then.
LEMMA OffListUsed ==
  ASSUME NEW p \in Pages, NEW pg \in PageRecord, PageLists(p, pg),
         NEW b \in BlocksOf(p), b \notin AllLists(pg)
  PROVE  pg.used \in Nat /\ pg.used > 0
<1>1. b \in UsedBlocks(p, pg)
  BY DEF UsedBlocks, AllLists
<1>2. pg.used = Cardinality(UsedBlocks(p, pg)) /\ pg.used \in Nat
  BY UsedFinite DEF PageLists
<1>3. pg.used # 0
  BY <1>1, <1>2, UsedFinite, FS_EmptySet
<1> QED
  BY <1>2, <1>3

LEMMA ClearedLists ==
  ASSUME NEW p \in Pages
  PROVE  PageLists(p, Cleared(p)) /\ AllLists(Cleared(p)) = BlocksOf(p)
<1>1. UsedBlocks(p, Cleared(p)) = {}
  BY ClearedFields DEF UsedBlocks
<1>2. Cleared(p).used = Cardinality(UsedBlocks(p, Cleared(p)))
  BY <1>1, ClearedFields, FS_EmptySet
<1> QED
  BY <1>2, ClearedFields DEF PageLists, AllLists

\* Two records with the same lists and the same count.
LEMMA SameLists ==
  ASSUME NEW p \in Pages, NEW pg \in PageRecord, NEW r \in PageRecord, PageLists(p, pg),
         r.free = pg.free, r.local_free = pg.local_free,
         r.thread_free = pg.thread_free, r.fresh = pg.fresh, r.used = pg.used
  PROVE  PageLists(p, r) /\ AllLists(r) = AllLists(pg)
BY DEF PageLists, AllLists, UsedBlocks

\* _pa_page_free_collect moves blocks between the lists of the page, and takes
\* those of thread_free out of the count.
LEMMA CollectLists ==
  ASSUME NEW p \in Pages, NEW pg \in PageRecord, NEW force \in BOOLEAN, PageLists(p, pg)
  PROVE  LET c == Collect(pg, force)
         IN PageLists(p, c) /\ AllLists(c) = AllLists(pg)
<1> DEFINE c == Collect(pg, force)
           freed == pg.local_free \cup pg.thread_free
           move  == pg.free = {} \/ force
           U == UsedBlocks(p, pg)
           T == pg.thread_free
<1>1. /\ c \in PageRecord
      /\ c.used = pg.used - Cardinality(T)
      /\ c.free = IF move THEN pg.free \cup freed ELSE pg.free
      /\ c.local_free = IF move THEN {} ELSE freed
      /\ c.thread_free = {} /\ c.fresh = pg.fresh
  <2>1. CASE force = TRUE
    BY <2>1, CollectFields
  <2>2. CASE force = FALSE
    BY <2>2, CollectFields
  <2> QED
    BY <2>1, <2>2
<1> HIDE DEF c
<1>2. AllLists(c) = AllLists(pg)
  BY <1>1 DEF AllLists
<1>3. UsedBlocks(p, c) = U \ T
  BY <1>1 DEF UsedBlocks, PageLists, AllLists
<1>4. Cardinality(U \ T) = Cardinality(U) - Cardinality(U \cap T)
  BY UsedFinite, FS_Difference
<1>5. U \cap T = T
  BY DEF UsedBlocks, PageLists, AllLists
<1>6. c.used = Cardinality(UsedBlocks(p, c))
  BY <1>1, <1>3, <1>4, <1>5 DEF PageLists
<1>7. PageLists(p, c)
  BY <1>1, <1>2, <1>6 DEF PageLists, AllLists
<1> QED
  BY <1>2, <1>7 DEF c

LEMMA PopLists ==
  ASSUME NEW p \in Pages, NEW pg \in PageRecord, PageLists(p, pg), NEW b \in pg.free
  PROVE  PageLists(p, Pop(pg, b)) /\ AllLists(Pop(pg, b)) = AllLists(pg) \ {b}
<1> DEFINE c == Pop(pg, b)
           U == UsedBlocks(p, pg)
<1>1. /\ c \in PageRecord /\ c.free = pg.free \ {b} /\ c.used = pg.used + 1
      /\ c.local_free = pg.local_free /\ c.thread_free = pg.thread_free
      /\ c.fresh = pg.fresh
  BY PopFields
<1> HIDE DEF c
<1>2. b \in BlocksOf(p) /\ b \notin pg.local_free \cup pg.thread_free \cup pg.fresh
  BY DEF PageLists, AllLists
<1>3. UsedBlocks(p, c) = U \cup {b} /\ b \notin U
  BY <1>1, <1>2 DEF UsedBlocks
<1>4. Cardinality(U \cup {b}) = Cardinality(U) + 1
  BY <1>3, UsedFinite, FS_AddElement
<1>5. c.used = Cardinality(UsedBlocks(p, c))
  BY <1>1, <1>3, <1>4 DEF PageLists
<1>6. AllLists(c) = AllLists(pg) \ {b}
  BY <1>1, <1>2 DEF AllLists
<1>7. PageLists(p, c)
  BY <1>1, <1>5, <1>6 DEF PageLists
<1> QED
  BY <1>6, <1>7 DEF c

LEMMA ExtendLists ==
  ASSUME NEW p \in Pages, NEW pg \in PageRecord, PageLists(p, pg), NEW S \in SUBSET pg.fresh
  PROVE  PageLists(p, Extend(pg, S)) /\ AllLists(Extend(pg, S)) = AllLists(pg)
<1> DEFINE e == Extend(pg, S)
<1>0. S \in SUBSET Blocks
  BY DEF PageRecord
<1>1. /\ e \in PageRecord /\ e.free = pg.free \cup S /\ e.fresh = pg.fresh \ S
      /\ e.local_free = pg.local_free /\ e.thread_free = pg.thread_free
      /\ e.used = pg.used
  BY <1>0, ExtendFields
<1> HIDE DEF e
<1>2. UsedBlocks(p, e) = UsedBlocks(p, pg)
  BY <1>1 DEF UsedBlocks
<1>3. AllLists(e) = AllLists(pg)
  BY <1>1 DEF AllLists
<1> QED
  BY <1>1, <1>2, <1>3 DEF PageLists, e

\* pa_free_block_local puts the block on a list of its page, also when the page
\* is freed: then it was the last used block.
LEMMA FreeLocalLists ==
  ASSUME NEW p \in Pages, NEW pg \in PageRecord, PageLists(p, pg),
         NEW b \in BlocksOf(p), b \notin AllLists(pg)
  PROVE  LET r == FreeLocal(p, pg, b)
         IN PageLists(p, r) /\ AllLists(r) = AllLists(pg) \cup {b}
<1> DEFINE r == FreeLocal(p, pg, b)
           local == pg.local_free \cup {b}
           freed == local \cup pg.thread_free
           U == UsedBlocks(p, pg)
           Goal == PageLists(p, r) /\ AllLists(r) = AllLists(pg) \cup {b}
<1> SUFFICES Goal
  OBVIOUS
<1>0. b \in Blocks
  BY DEF BlocksOf
<1>1. /\ r \in PageRecord
      /\ \/ /\ pg.used # 1
            /\ r.free = pg.free /\ r.local_free = local
            /\ r.thread_free = pg.thread_free /\ r.fresh = pg.fresh
            /\ r.used = pg.used - 1
         \/ /\ pg.used = 1
            /\ r.free = IF pg.free = {} THEN freed ELSE pg.free
            /\ r.local_free = IF pg.free = {} THEN {} ELSE freed
            /\ r.thread_free = {} /\ r.fresh = pg.fresh
            /\ r.used = 0 - Cardinality(pg.thread_free)
         \/ pg.used = 1 /\ r = Cleared(p)
  BY <1>0, FreeLocalFields
<1> HIDE DEF r
<1>2. b \in U
  BY DEF UsedBlocks, AllLists
<1>3. CASE /\ r.free = pg.free /\ r.local_free = local
           /\ r.thread_free = pg.thread_free /\ r.fresh = pg.fresh
           /\ r.used = pg.used - 1
  <2>1. UsedBlocks(p, r) = U \ {b}
    BY <1>3 DEF UsedBlocks
  <2>2. Cardinality(U \ {b}) = Cardinality(U) - 1
    BY <1>2, UsedFinite, FS_RemoveElement
  <2>3. r.used = Cardinality(UsedBlocks(p, r))
    BY <1>3, <2>1, <2>2 DEF PageLists
  <2>4. AllLists(r) = AllLists(pg) \cup {b}
    BY <1>3 DEF AllLists
  <2>5. PageLists(p, r)
    BY <1>3, <2>3, <2>4 DEF PageLists, AllLists
  <2> QED
    BY <2>4, <2>5
<1>4. pg.used = 1 => U = {b} /\ pg.thread_free = {}
  <2>1. SUFFICES ASSUME pg.used = 1 PROVE U = {b} /\ pg.thread_free = {}
    OBVIOUS
  <2>2. \E x : U = {x}
    BY <2>1, UsedFinite, FS_Singleton DEF PageLists
  <2>3. U = {b}
    BY <1>2, <2>2
  <2>4. pg.thread_free \subseteq U /\ b \notin pg.thread_free
    BY DEF PageLists, UsedBlocks, AllLists
  <2> QED
    BY <2>3, <2>4
<1>5. CASE /\ pg.used = 1
           /\ r.free = IF pg.free = {} THEN freed ELSE pg.free
           /\ r.local_free = IF pg.free = {} THEN {} ELSE freed
           /\ r.thread_free = {} /\ r.fresh = pg.fresh
           /\ r.used = 0 - Cardinality(pg.thread_free)
  <2>1. UsedBlocks(p, r) = {} /\ r.used = 0
    BY <1>4, <1>5, FS_EmptySet DEF UsedBlocks
  <2>2. r.used = Cardinality(UsedBlocks(p, r))
    BY <2>1, FS_EmptySet
  <2>3. AllLists(r) = AllLists(pg) \cup {b}
    BY <1>5 DEF AllLists
  <2>4. PageLists(p, r)
    BY <1>5, <2>2, <2>3 DEF PageLists, AllLists
  <2> QED
    BY <2>3, <2>4
<1>6. CASE pg.used = 1 /\ r = Cleared(p)
  <2>1. BlocksOf(p) = AllLists(pg) \cup {b}
    BY <1>4, <1>6 DEF UsedBlocks, PageLists, AllLists
  <2> QED
    BY <1>6, <2>1, ClearedLists
<1> QED
  BY <1>1, <1>3, <1>5, <1>6

\* pa_segment_check_free clears only a page without used blocks.
LEMMA CheckFreeLists ==
  ASSUME NEW p \in Pages, NEW pg \in PageRecord, PageLists(p, pg)
  PROVE  LET r == CheckFree(p, pg)
         IN PageLists(p, r) /\ AllLists(r) = AllLists(pg)
<1> DEFINE c == Collect(pg, FALSE)
<1>1. c \in PageRecord /\ PageLists(p, c) /\ AllLists(c) = AllLists(pg)
  BY CollectFields, CollectLists
<1>2. CheckFree(p, pg) = IF c.used = 0 THEN Cleared(p) ELSE c
  BY DEF CheckFree
<1> HIDE DEF c
<1> QED
  BY <1>1, <1>2, UnusedListed, ClearedLists

-----------------------------------------------------------------------------
(* Consequences of the invariant, and what steps leave alone.               *)

\* If all blocks of a page are on its lists, nobody else has one of them.
LEMMA EmptyPage ==
  ASSUME TypeOK, Placed, FreeingOne,
         NEW p \in Pages, AllLists(page[p]) = BlocksOf(p)
  PROVE  /\ \A b \in BlocksOf(p) :
              /\ b \notin live /\ ~ByOwner(b)
              /\ \A h \in Heaps : ~Delayed_(b, h)
              /\ \A t \in Remotes : ~Held(t, b)
         /\ \A t \in Remotes : InFreeing(t) => PageOf[remote[t].blk] # p
         /\ page[p].delayed # "FREEING" /\ ~Waiting(p)
<1>1. \A b \in BlocksOf(p) : b \in Blocks /\ PageOf[b] = p /\ Listed(b)
  BY DEF BlocksOf, Listed
<1>2. \A b \in BlocksOf(p) :
         /\ b \notin live /\ ~ByOwner(b)
         /\ \A h \in Heaps : ~Delayed_(b, h)
         /\ \A t \in Remotes : ~Held(t, b)
  BY <1>1 DEF Placed
<1>3. ASSUME NEW t \in Remotes, InFreeing(t), PageOf[remote[t].blk] = p PROVE FALSE
  <2>1. remote[t].blk \in BlocksOf(p)
    BY <1>3 DEF TypeOK, InFreeing, BlocksOf
  <2>2. Held(t, remote[t].blk) \/ OnDelayed(remote[t].blk)
    BY <1>3 DEF FreeingOne, InFreeing, Held, OnDelayed
  <2> QED
    BY <1>2, <2>1, <2>2 DEF OnDelayed, ByOwner
<1>4. ~Waiting(p)
  BY <1>2 DEF Waiting, OnDelayed, ByOwner, BlocksOf
<1>5. page[p].delayed # "FREEING"
  BY <1>3 DEF FreeingOne
<1> QED
  BY <1>2, <1>3, <1>4, <1>5

\* An unallocated page is cleared, so a page that has a block out is allocated.
LEMMA OffListPlaced ==
  ASSUME TypeOK, Homes, NEW b \in Blocks, ~Listed(b)
  PROVE  PageOf[b] \in Pages /\ page[PageOf[b]].place # "none"
<1>1. PageOf[b] \in Pages /\ b \in BlocksOf(PageOf[b])
  BY BlocksAssumption DEF BlocksOf
<1> QED
  BY <1>1, ClearedLists DEF Homes, Listed

\* One page gets another record with lists in order.
LEMMA ListsStep ==
  ASSUME TypeOK, Lists, NEW p \in Pages, NEW r \in PageRecord,
         page' = [page EXCEPT ![p] = r], PageLists(p, r)
  PROVE  Lists'
<1>1. \A q \in Pages : page'[q] = IF q = p THEN r ELSE page[q]
  BY DEF TypeOK
<1> QED
  BY <1>1 DEF Lists

\* No block moves.
LEMMA PlacedFrame ==
  ASSUME TypeOK, Placed, \A q \in Pages : AllLists(page'[q]) = AllLists(page[q]),
         live' = live, thread_delayed_free' = thread_delayed_free,
         \A t \in Remotes, b \in Blocks : Held(t, b)' <=> Held(t, b),
         owner'.list = owner.list, owner'.blk = owner.blk
  PROVE  Placed'
<1>1. \A b \in Blocks : Listed(b)' <=> Listed(b)
  BY BlocksAssumption DEF Listed, AllLists
<1>2. \A b \in Blocks : ByOwner(b)' <=> ByOwner(b)
  BY DEF ByOwner
<1>3. \A b \in Blocks, h \in Heaps : Delayed_(b, h)' <=> Delayed_(b, h)
  BY DEF Delayed_
<1> QED
  BY <1>1, <1>2, <1>3 DEF Placed

LEMMA PageStep ==
  ASSUME TypeOK, Lists, Placed, NEW p \in Pages, NEW r \in PageRecord,
         page' = [page EXCEPT ![p] = r],
         PageLists(p, r), AllLists(r) = AllLists(page[p]),
         UNCHANGED <<live, thread_delayed_free, remote>>,
         owner'.list = owner.list, owner'.blk = owner.blk
  PROVE  Lists' /\ Placed'
<1>1. \A q \in Pages : AllLists(page'[q]) = AllLists(page[q])
  BY DEF TypeOK
<1>2. \A t \in Remotes, b \in Blocks : Held(t, b)' <=> Held(t, b)
  BY DEF Held
<1> QED
  BY <1>1, <1>2, ListsStep, PlacedFrame

\* No thread enters or leaves the protocol of a page in state FREEING.
LEMMA FreeingFrame ==
  ASSUME TypeOK, FreeingOne,
         \A t \in Remotes : InFreeing(t) => remote'[t] = remote[t],
         \A t \in Remotes : InFreeing(t)' <=> InFreeing(t),
         \A q \in Pages : page'[q].delayed = "FREEING" <=> page[q].delayed = "FREEING",
         \A q \in Pages : page[q].delayed = "FREEING" => page'[q].xheap = page[q].xheap,
         \A b \in Blocks : page[PageOf[b]].delayed = "FREEING" /\ OnDelayed(b) => OnDelayed(b)',
         owner.pc = "appflag" /\ page[owner.page].delayed = "FREEING" =>
           owner'.pc = "appflag" /\ owner'.page = owner.page /\ owner'.heap = owner.heap
  PROVE  FreeingOne'
<1>1. \A t \in Remotes : InFreeing(t) => remote[t].blk \in Blocks /\ PageOf[remote[t].blk] \in Pages
  BY BlocksAssumption DEF InFreeing, TypeOK
<1>2. \A t \in Remotes : InFreeing(t)' => page'[PageOf[remote'[t].blk]].delayed = "FREEING"
  BY <1>1 DEF FreeingOne
<1>3. \A t, u \in Remotes :
         InFreeing(t)' /\ InFreeing(u)' /\ PageOf[remote'[t].blk] = PageOf[remote'[u].blk] => t = u
  BY DEF FreeingOne
<1>4. \A q \in Pages : page'[q].delayed = "FREEING" =>
         page'[q].xheap # NoHeap /\ \E t \in Remotes : InFreeing(t)' /\ PageOf[remote'[t].blk] = q
  BY DEF FreeingOne
<1>5. ASSUME NEW t \in Remotes, remote'[t].pc = "reset"
      PROVE  remote'[t].blk \in owner'.list \/ \E h \in Heaps : remote'[t].blk \in thread_delayed_free'[h]
  <2>1. InFreeing(t)
    BY <1>5 DEF InFreeing
  <2>2. remote'[t] = remote[t] /\ page[PageOf[remote[t].blk]].delayed = "FREEING"
    BY <2>1 DEF FreeingOne
  <2>3. OnDelayed(remote[t].blk)
    BY <1>5, <2>2 DEF FreeingOne, OnDelayed
  <2>4. \E c \in Blocks : c = remote[t].blk /\ OnDelayed(c)'
    BY <1>1, <2>1, <2>2, <2>3
  <2> QED
    BY <2>2, <2>4 DEF OnDelayed, Delayed_
<1>6. ASSUME NEW t \in Remotes, remote'[t].pc = "delay"
      PROVE  \/ remote'[t].heap = page'[PageOf[remote'[t].blk]].xheap
             \/ /\ owner'.pc = "appflag" /\ owner'.page = PageOf[remote'[t].blk]
                /\ remote'[t].heap = owner'.heap
  <2>1. InFreeing(t)
    BY <1>6 DEF InFreeing
  <2>2. remote'[t] = remote[t] /\ page[PageOf[remote[t].blk]].delayed = "FREEING"
    BY <2>1 DEF FreeingOne
  <2> QED
    BY <1>1, <1>6, <2>1, <2>2 DEF FreeingOne
<1> QED
  BY <1>2, <1>3, <1>4, <1>5, <1>6 DEF FreeingOne, Delayed_

-----------------------------------------------------------------------------
(* The steps of the other threads.                                          *)

LEMMA RemoteFreeInv ==
  ASSUME TypeOK, IInv, NEW t \in Remotes, NEW b \in Blocks, RemoteFree(t, b)
  PROVE  IInv'
<1> USE DEF IInv, RemoteFree
<1>1. \A u \in Remotes : remote'[u] = IF u = t THEN [pc |-> "push", blk |-> b, heap |-> NoHeap]
                                      ELSE remote[u]
  BY DEF TypeOK
<1>2. Lists'
  BY DEF Lists, PageLists, UsedBlocks, AllLists, BlocksOf
<1>3. Placed'
  <2>1. \A c \in Blocks : Listed(c)' <=> Listed(c)
    BY DEF Listed
  <2>2. \A c \in Blocks : ByOwner(c)' <=> ByOwner(c)
    BY DEF ByOwner
  <2>3. \A c \in Blocks, h \in Heaps : Delayed_(c, h)' <=> Delayed_(c, h)
    BY DEF Delayed_
  <2>4. \A u \in Remotes, c \in Blocks : Held(u, c)' <=> IF u = t THEN c = b ELSE Held(u, c)
    BY <1>1 DEF Held
  <2>5. \A c \in Blocks : ~Held(t, c)
    BY DEF Held
  <2>6. \A c \in Blocks : c \in live' <=> c \in live /\ c # b
    OBVIOUS
  <2> QED
    BY <2>1, <2>2, <2>3, <2>4, <2>5, <2>6 DEF Placed
<1>4. FreeingOne'
  <2>1. \A u \in Remotes : InFreeing(u)' <=> InFreeing(u)
    BY <1>1 DEF InFreeing
  <2>2. \A u \in Remotes : InFreeing(u) => remote'[u] = remote[u]
    BY <1>1 DEF InFreeing
  <2>3. \A u \in Remotes : u # t => remote'[u] = remote[u]
    BY <1>1
  <2>4. remote'[t].pc = "push" /\ remote[t].pc = "idle"
    BY <1>1
  <2> QED
    BY <2>1, <2>2, <2>3, <2>4 DEF FreeingOne, Delayed_
<1>5. /\ Homes' /\ OwnHeaps' /\ Stages' /\ Candidate' /\ DelayedOwned'
      /\ Leaving' /\ Moving' /\ Forcing'
  BY DEF Homes, InQueue, Reclaiming, Cleared, BlocksOf, OwnHeaps, Stages, Candidate,
         DelayedOwned, ByOwner, Absorbing, Leaving, Moving, Forcing, HeapPages
<1>6. Wakes'
  BY DEF Wakes, Waiting, OnDelayed, Delayed_
<1> QED
  BY <1>2, <1>3, <1>4, <1>5, <1>6

LEMMA RemotePushInv ==
  ASSUME TypeOK, IInv, NEW t \in Remotes, RemotePush(t)
  PROVE  IInv'
<1> DEFINE b == remote[t].blk
           p == PageOf[b]
<1> USE DEF IInv
<1>0. /\ b \in Blocks /\ p \in Pages /\ b \in BlocksOf(p) /\ remote[t].pc = "push"
      /\ page[p] \in PageRecord
  BY BlocksAssumption DEF RemotePush, TypeOK, BlocksOf
<1>1. Held(t, b) /\ ~Listed(b) /\ ~InFreeing(t)
  BY <1>0 DEF Placed, Held, InFreeing
<1>2. page[p].place # "none"
  BY <1>0, <1>1, OffListPlaced
<1>3. ASSUME page[p].delayed = "USE",
             page' = [page EXCEPT ![p].delayed = "FREEING"],
             remote' = [remote EXCEPT ![t].pc = "load"]
      PROVE  IInv'
  <2> DEFINE r == [page[p] EXCEPT !.delayed = "FREEING"]
  <2>1. /\ r \in PageRecord /\ r.free = page[p].free /\ r.local_free = page[p].local_free
        /\ r.thread_free = page[p].thread_free /\ r.fresh = page[p].fresh
        /\ r.used = page[p].used /\ r.xheap = page[p].xheap /\ r.place = page[p].place
        /\ r.delayed = "FREEING" /\ page' = [page EXCEPT ![p] = r]
    BY <1>0, <1>3 DEF PageRecord, Delayed
  <2> HIDE DEF r, p, b
  <2>2. \A q \in Pages : page'[q] = IF q = p THEN r ELSE page[q]
    BY <2>1 DEF TypeOK
  <2>3. PageLists(p, page[p])
    BY <1>0 DEF Lists
  <2>4. PageLists(p, r) /\ AllLists(r) = AllLists(page[p])
    BY <1>0, <2>1, <2>3, SameLists
  <2>5. UNCHANGED <<thread_delayed_free, heaps, backing, live, owner>>
    BY DEF RemotePush
  <2>6. \A u \in Remotes : /\ remote'[u].blk = remote[u].blk /\ remote'[u].heap = remote[u].heap
                           /\ remote'[u].pc = IF u = t THEN "load" ELSE remote[u].pc
    BY <1>3 DEF TypeOK, RemoteRecord
  <2>7. Lists'
    BY <1>0, <2>1, <2>4, ListsStep
  <2>8. Placed'
    <3>1. \A q \in Pages : AllLists(page'[q]) = AllLists(page[q])
      BY <2>2, <2>4
    <3>2. \A u \in Remotes, c \in Blocks : Held(u, c)' <=> Held(u, c)
      BY <1>0, <2>6 DEF Held
    <3> QED
      BY <2>5, <3>1, <3>2, PlacedFrame
  <2>9. page[p].xheap # NoHeap
    BY <1>0, <1>2, <1>3 DEF Homes, TypeOK, PageRecord, Places, InQueue, Reclaiming
  <2>10. Homes'
    BY <1>0, <1>2, <1>3, <2>1, <2>2, <2>5 DEF Homes, InQueue, Reclaiming, Cleared, BlocksOf
  <2>11. OwnHeaps' /\ Stages'
    BY <2>5 DEF OwnHeaps, Stages
  <2>12. Candidate'
    BY <2>1, <2>2, <2>5 DEF Candidate, TypeOK, OwnerRecord
  <2>13. FreeingOne'
    <3>1. \A u \in Remotes : InFreeing(u)' <=> InFreeing(u) \/ u = t
      BY <2>6 DEF InFreeing
    <3>2. \A u \in Remotes : InFreeing(u) => remote[u].blk \in Blocks /\ PageOf[remote[u].blk] # p
      BY <1>3, BlocksAssumption DEF InFreeing, FreeingOne, TypeOK
    <3>3. \A u \in Remotes : remote[u].pc # "idle" => PageOf[remote[u].blk] \in Pages
      BY BlocksAssumption DEF TypeOK
    <3>4. p = PageOf[remote[t].blk]
      BY DEF p, b
    <3>11. \A u \in Remotes : InFreeing(u) => PageOf[remote[u].blk] \in Pages
      BY <3>3 DEF InFreeing
    <3>5. ASSUME NEW u \in Remotes, InFreeing(u)'
          PROVE  page'[PageOf[remote'[u].blk]].delayed = "FREEING"
      <4> DEFINE q == PageOf[remote[u].blk]
      <4>1. remote'[u].blk = remote[u].blk
        BY <2>6
      <4>2. CASE u = t
        BY <1>0, <2>1, <2>2, <3>4, <4>1, <4>2
      <4>3. CASE u # t
        <5>1. q \in Pages /\ page[q].delayed = "FREEING"
          BY <3>1, <3>5, <3>11, <4>3 DEF FreeingOne
        <5> QED
          BY <2>1, <2>2, <4>1, <5>1
      <4> QED
        BY <4>2, <4>3
    <3>6. \A u, v \in Remotes :
             InFreeing(u)' /\ InFreeing(v)' /\ PageOf[remote'[u].blk] = PageOf[remote'[v].blk] => u = v
      BY <2>6, <3>1, <3>2, <3>4 DEF FreeingOne
    <3>7. \A q \in Pages : page'[q].delayed = "FREEING" =>
             page'[q].xheap # NoHeap /\ \E u \in Remotes : InFreeing(u)' /\ PageOf[remote'[u].blk] = q
      BY <2>1, <2>2, <2>6, <2>9, <3>1, <3>4 DEF FreeingOne
    <3>8. \A u \in Remotes : remote'[u].pc \in {"delay", "reset"} => u # t /\ remote[u].pc = remote'[u].pc
      BY <2>6
    <3>9. \A u \in Remotes : remote'[u].pc = "reset" =>
             remote'[u].blk \in owner'.list \/ \E h \in Heaps : remote'[u].blk \in thread_delayed_free'[h]
      BY <2>5, <2>6, <3>8 DEF FreeingOne, Delayed_
    <3>10. \A u \in Remotes : remote'[u].pc = "delay" =>
             \/ remote'[u].heap = page'[PageOf[remote'[u].blk]].xheap
             \/ /\ owner'.pc = "appflag" /\ owner'.page = PageOf[remote'[u].blk]
                /\ remote'[u].heap = owner'.heap
      BY <2>1, <2>2, <2>5, <2>6, <3>3, <3>8 DEF FreeingOne
    <3> QED
      BY <3>5, <3>6, <3>7, <3>9, <3>10 DEF FreeingOne, Delayed_
  <2>14. DelayedOwned'
    BY <2>1, <2>2, <2>5, BlocksAssumption DEF DelayedOwned, ByOwner, Absorbing, TypeOK
  <2>15. Wakes'
    BY <2>1, <2>2, <2>5 DEF Wakes, Waiting, OnDelayed, Delayed_
  <2>16. Leaving'
    BY <1>3, <2>1, <2>2, <2>5 DEF Leaving, HeapPages
  <2>17. Moving'
    BY <1>3, <2>1, <2>2, <2>5 DEF Moving, HeapPages, InQueue, TypeOK, WithPage
  <2>18. Forcing'
    BY <1>3, <2>1, <2>2, <2>5 DEF Forcing, InQueue, TypeOK, WithPage
  <2> QED
    BY <2>7, <2>8, <2>10, <2>11, <2>12, <2>13, <2>14, <2>15,
       <2>16, <2>17, <2>18
<1>4. ASSUME page[p].delayed # "USE",
             page' = [page EXCEPT ![p].thread_free = @ \cup {b}],
             remote' = [remote EXCEPT ![t] = RemoteIdle]
      PROVE  IInv'
  <2> DEFINE tf == page[p].thread_free \cup {b}
             r == [page[p] EXCEPT !.thread_free = tf]
  <2>0. tf \in SUBSET Blocks
    BY <1>0 DEF PageRecord
  <2> HIDE DEF tf
  <2>1. /\ r \in PageRecord /\ r.free = page[p].free /\ r.local_free = page[p].local_free
        /\ r.thread_free = tf /\ r.fresh = page[p].fresh
        /\ r.used = page[p].used /\ r.xheap = page[p].xheap /\ r.place = page[p].place
        /\ r.delayed = page[p].delayed /\ page' = [page EXCEPT ![p] = r]
    BY <1>0, <1>4, <2>0 DEF PageRecord, tf
  <2> HIDE DEF r, p, b
  <2>2. \A q \in Pages : page'[q] = IF q = p THEN r ELSE page[q]
    BY <2>1 DEF TypeOK
  <2>3. PageLists(p, page[p]) /\ b \notin AllLists(page[p])
    BY <1>0, <1>1 DEF Lists, Listed, p
  <2>4. PageLists(p, r) /\ AllLists(r) = AllLists(page[p]) \cup {b}
    BY <1>0, <2>1, <2>3 DEF PageLists, AllLists, UsedBlocks, tf
  <2>5. UNCHANGED <<thread_delayed_free, heaps, backing, live, owner>>
    BY DEF RemotePush
  <2>6. \A u \in Remotes : remote'[u] = IF u = t THEN RemoteIdle ELSE remote[u]
    BY <1>4 DEF TypeOK
  <2>7. Lists'
    BY <1>0, <2>1, <2>4, ListsStep
  <2>8. Placed'
    <3>1. \A c \in Blocks : Listed(c)' <=> Listed(c) \/ c = b
      BY <1>0, <2>2, <2>4, BlocksAssumption DEF Listed, p
    <3>2. \A u \in Remotes, c \in Blocks : Held(u, c)' <=> Held(u, c) /\ u # t
      BY <2>6 DEF Held, RemoteIdle
    <3>3. \A c \in Blocks : ByOwner(c)' <=> ByOwner(c)
      BY <2>5 DEF ByOwner
    <3>4. \A c \in Blocks, h \in Heaps : Delayed_(c, h)' <=> Delayed_(c, h)
      BY <2>5 DEF Delayed_
    <3>5. \A c \in Blocks : Held(t, c) <=> c = b
      BY <1>0 DEF Held, b
    <3> QED
      BY <1>0, <2>5, <3>1, <3>2, <3>3, <3>4, <3>5 DEF Placed
  <2>9. Homes'
    BY <1>0, <1>2, <1>4, <2>1, <2>2, <2>5 DEF Homes, InQueue, Reclaiming, Cleared, BlocksOf
  <2>10. OwnHeaps' /\ Stages'
    BY <2>5 DEF OwnHeaps, Stages
  <2>11. Candidate'
    BY <2>1, <2>2, <2>5 DEF Candidate, TypeOK, OwnerRecord
  <2>12. FreeingOne'
    <3>1. \A u \in Remotes : InFreeing(u) => remote'[u] = remote[u]
      BY <1>1, <2>6
    <3>2. \A u \in Remotes : InFreeing(u)' <=> InFreeing(u)
      BY <1>1, <2>6 DEF InFreeing, RemoteIdle
    <3>3. \A q \in Pages : page'[q].delayed = page[q].delayed /\ page'[q].xheap = page[q].xheap
      BY <2>1, <2>2
    <3>4. \A c \in Blocks : OnDelayed(c)' <=> OnDelayed(c)
      BY <2>5 DEF OnDelayed, Delayed_
    <3> QED
      BY <2>5, <3>1, <3>2, <3>3, <3>4, FreeingFrame
  <2>13. DelayedOwned'
    BY <2>1, <2>2, <2>5, BlocksAssumption DEF DelayedOwned, ByOwner, Absorbing, TypeOK
  <2>14. Wakes'
    <3>1. page[p].delayed = "NO" => Waiting(p)
      BY <1>0 DEF Wakes
    <3>2. page[p].delayed \in {"FREEING", "NO", "NEVER"}
      BY <1>0, <1>4 DEF PageRecord, Delayed
    <3> QED
      BY <2>1, <2>2, <2>5, <3>1, <3>2 DEF Wakes, Waiting, OnDelayed, Delayed_
  <2>16. Leaving'
    BY <2>1, <2>2, <2>5 DEF Leaving, HeapPages
  <2>17. Moving'
    BY <2>1, <2>2, <2>5 DEF Moving, HeapPages, InQueue, TypeOK, WithPage
  <2>18. Forcing'
    BY <2>1, <2>2, <2>5 DEF Forcing, InQueue, TypeOK, WithPage
  <2> QED
    BY <2>7, <2>8, <2>9, <2>10, <2>11, <2>12, <2>13, <2>14, <2>16, <2>17, <2>18
<1> QED
  BY <1>3, <1>4 DEF RemotePush

LEMMA RemoteLoadHeapInv ==
  ASSUME TypeOK, IInv, NEW t \in Remotes, RemoteLoadHeap(t)
  PROVE  IInv'
<1> USE DEF IInv
<1> DEFINE p == PageOf[remote[t].blk]
           h == page[p].xheap
<1>0. remote[t].blk \in Blocks /\ p \in Pages /\ remote[t].pc = "load"
  BY BlocksAssumption DEF RemoteLoadHeap, TypeOK
<1>1. InFreeing(t) /\ page[p].delayed = "FREEING" /\ h # NoHeap
  BY <1>0 DEF InFreeing, FreeingOne
<1>2. UNCHANGED <<page, thread_delayed_free, heaps, backing, live, owner>>
  BY DEF RemoteLoadHeap
<1>3. \A u \in Remotes : /\ remote'[u].blk = remote[u].blk
                         /\ remote'[u].pc = IF u = t THEN "delay" ELSE remote[u].pc
                         /\ remote'[u].heap = IF u = t THEN h ELSE remote[u].heap
  BY <1>1 DEF RemoteLoadHeap, TypeOK, RemoteRecord
<1> HIDE DEF p, h
<1>4. Lists'
  BY <1>2 DEF Lists, PageLists, UsedBlocks, AllLists, BlocksOf
<1>5. Placed'
  <2>1. \A u \in Remotes, c \in Blocks : Held(u, c)' <=> Held(u, c)
    BY <1>0, <1>3 DEF Held
  <2> QED
    BY <1>2, <2>1, PlacedFrame
<1>6. /\ Homes' /\ OwnHeaps' /\ Stages' /\ Candidate' /\ DelayedOwned'
      /\ Leaving' /\ Moving' /\ Forcing'
  BY <1>2 DEF Homes, InQueue, Reclaiming, Cleared, BlocksOf, OwnHeaps, Stages, Candidate,
         DelayedOwned, ByOwner, Absorbing, Leaving, Moving, Forcing, HeapPages
<1>7. Wakes'
  BY <1>2 DEF Wakes, Waiting, OnDelayed, Delayed_
<1>8. FreeingOne'
  <2>1. \A u \in Remotes : InFreeing(u)' <=> InFreeing(u)
    BY <1>0, <1>3 DEF InFreeing
  <2>2. \A u \in Remotes : remote'[u].pc = "reset" => remote[u].pc = "reset"
    BY <1>3
  <2>3. \A u \in Remotes : remote'[u].pc = "delay" /\ u # t => remote[u].pc = "delay"
    BY <1>3
  <2>4. \A u \in Remotes : InFreeing(u)' => page'[PageOf[remote'[u].blk]].delayed = "FREEING"
    BY <1>2, <1>3, <2>1 DEF FreeingOne
  <2>5. \A u, v \in Remotes :
           InFreeing(u)' /\ InFreeing(v)' /\ PageOf[remote'[u].blk] = PageOf[remote'[v].blk] => u = v
    BY <1>3, <2>1 DEF FreeingOne
  <2>6. \A q \in Pages : page'[q].delayed = "FREEING" =>
           page'[q].xheap # NoHeap /\ \E u \in Remotes : InFreeing(u)' /\ PageOf[remote'[u].blk] = q
    BY <1>2, <1>3, <2>1 DEF FreeingOne
  <2>7. \A u \in Remotes : remote'[u].pc = "reset" =>
           remote'[u].blk \in owner'.list \/ \E g \in Heaps : remote'[u].blk \in thread_delayed_free'[g]
    BY <1>2, <1>3, <2>2 DEF FreeingOne, Delayed_
  <2>8. \A u \in Remotes : remote'[u].pc = "delay" =>
           \/ remote'[u].heap = page'[PageOf[remote'[u].blk]].xheap
           \/ /\ owner'.pc = "appflag" /\ owner'.page = PageOf[remote'[u].blk]
              /\ remote'[u].heap = owner'.heap
    BY <1>2, <1>3, <2>3 DEF FreeingOne, h, p
  <2> QED
    BY <2>4, <2>5, <2>6, <2>7, <2>8 DEF FreeingOne, Delayed_
<1> QED
  BY <1>4, <1>5, <1>6, <1>7, <1>8

\* The heap that a thread pushes on is one of the owner's, and no stage of a call
\* relies on its delayed list being empty.
LEMMA RemoteDelayInv ==
  ASSUME TypeOK, IInv, NEW t \in Remotes, RemoteDelay(t)
  PROVE  IInv'
<1> USE DEF IInv
<1> DEFINE b == remote[t].blk
           p == PageOf[b]
           h == remote[t].heap
<1>0. b \in Blocks /\ p \in Pages /\ h \in Heaps /\ remote[t].pc = "delay"
  BY BlocksAssumption DEF RemoteDelay, TypeOK
<1>1. InFreeing(t) /\ page[p].delayed = "FREEING" /\ page[p].xheap # NoHeap /\ Held(t, b)
  BY <1>0 DEF InFreeing, FreeingOne, Held
<1>2. UNCHANGED <<page, heaps, backing, live, owner>>
  BY DEF RemoteDelay
<1>3. \A u \in Remotes : /\ remote'[u].blk = remote[u].blk
                         /\ remote'[u].pc = IF u = t THEN "reset" ELSE remote[u].pc
                         /\ remote'[u].heap = IF u = t THEN NoHeap ELSE remote[u].heap
  BY DEF RemoteDelay, TypeOK, RemoteRecord
<1>4. \A g \in Heaps : thread_delayed_free'[g] =
         IF g = h THEN thread_delayed_free[g] \cup {b} ELSE thread_delayed_free[g]
  BY DEF RemoteDelay, TypeOK
<1>5. \A c \in Blocks, g \in Heaps : Delayed_(c, g)' <=> Delayed_(c, g) \/ (c = b /\ g = h)
  BY <1>4 DEF Delayed_
<1>6. \/ h = page[p].xheap
      \/ owner.pc = "appflag" /\ owner.page = p /\ h = owner.heap
  BY <1>0 DEF FreeingOne
<1> HIDE DEF p, h, b
<1>7. page[p].xheap = h => p \in HeapPages(h) \/ Reclaiming(p)
  BY <1>0, <1>1 DEF Homes, InQueue, HeapPages
<1>8. Lists'
  BY <1>2 DEF Lists, PageLists, UsedBlocks, AllLists, BlocksOf
<1>9. Placed'
  <2>1. \A u \in Remotes, c \in Blocks : Held(u, c)' <=> Held(u, c) /\ u # t
    BY <1>0, <1>3 DEF Held
  <2>2. \A c \in Blocks : Listed(c)' <=> Listed(c)
    BY <1>2 DEF Listed
  <2>3. \A c \in Blocks : ByOwner(c)' <=> ByOwner(c)
    BY <1>2 DEF ByOwner
  <2>4. \A c \in Blocks : Held(t, c) => c = b
    BY DEF Held, b
  <2> QED
    BY <1>0, <1>1, <1>2, <1>5, <2>1, <2>2, <2>3, <2>4 DEF Placed
<1>10. Homes' /\ OwnHeaps' /\ Stages' /\ Candidate'
  BY <1>2 DEF Homes, InQueue, Reclaiming, Cleared, BlocksOf, OwnHeaps, Stages, Candidate
<1>11. FreeingOne'
  <2>1. \A u \in Remotes : InFreeing(u)' <=> InFreeing(u)
    BY <1>0, <1>3 DEF InFreeing
  <2>2. \A u \in Remotes : remote'[u].pc = "reset" /\ u # t => remote[u].pc = "reset"
    BY <1>3
  <2>3. \A u \in Remotes : remote'[u].pc = "delay" => remote[u].pc = "delay" /\ u # t
    BY <1>3
  <2>4. \A u \in Remotes : InFreeing(u)' => page'[PageOf[remote'[u].blk]].delayed = "FREEING"
    BY <1>2, <1>3, <2>1 DEF FreeingOne
  <2>5. \A u, v \in Remotes :
           InFreeing(u)' /\ InFreeing(v)' /\ PageOf[remote'[u].blk] = PageOf[remote'[v].blk] => u = v
    BY <1>3, <2>1 DEF FreeingOne
  <2>6. \A q \in Pages : page'[q].delayed = "FREEING" =>
           page'[q].xheap # NoHeap /\ \E u \in Remotes : InFreeing(u)' /\ PageOf[remote'[u].blk] = q
    BY <1>2, <1>3, <2>1 DEF FreeingOne
  <2>7. \A u \in Remotes : remote'[u].pc = "reset" =>
           remote'[u].blk \in owner'.list \/ \E g \in Heaps : remote'[u].blk \in thread_delayed_free'[g]
    <3>1. b \in thread_delayed_free'[h]
      BY <1>0, <1>4
    <3>2. \A u \in Remotes : remote[u].pc = "reset" =>
             remote[u].blk \in owner.list \/ \E g \in Heaps : remote[u].blk \in thread_delayed_free'[g]
      <4>1. \A g \in Heaps : \A c : c \in thread_delayed_free[g] => c \in thread_delayed_free'[g]
        BY <1>4
      <4>2. \A u \in Remotes : remote[u].pc = "reset" =>
               remote[u].blk \in owner.list \/ \E g \in Heaps : remote[u].blk \in thread_delayed_free[g]
        BY DEF FreeingOne, Delayed_
      <4> QED
        BY <4>1, <4>2
    <3>3. remote'[t].blk = b
      BY <1>3 DEF b
    <3> QED
      BY <1>0, <1>2, <1>3, <2>2, <3>1, <3>2, <3>3
  <2>8. \A u \in Remotes : remote'[u].pc = "delay" =>
           \/ remote'[u].heap = page'[PageOf[remote'[u].blk]].xheap
           \/ /\ owner'.pc = "appflag" /\ owner'.page = PageOf[remote'[u].blk]
              /\ remote'[u].heap = owner'.heap
    BY <1>2, <1>3, <2>3 DEF FreeingOne
  <2> QED
    BY <2>4, <2>5, <2>6, <2>7, <2>8 DEF FreeingOne, Delayed_
<1>12. DelayedOwned'
  <2>1. h \in heaps /\ (page[p].xheap = h \/ Absorbing(h))
    BY <1>0, <1>1, <1>6 DEF Homes, OwnHeaps, Stages, Absorbing
  <2> QED
    <3>1. \A g \in Heaps : \A c \in thread_delayed_free'[g] :
             /\ g \in heaps /\ page[PageOf[c]].xheap # NoHeap
             /\ page[PageOf[c]].xheap = g \/ Absorbing(g)
      BY <1>1, <1>4, <2>1 DEF DelayedOwned, p
    <3> QED
      BY <1>2, <3>1 DEF DelayedOwned, ByOwner, Absorbing
<1>13. Wakes'
  BY <1>2, <1>5 DEF Wakes, Waiting, OnDelayed
<1>14. Leaving'
  <2>1. h = owner.heap => owner.op \notin {"abandon", "exit"} \/ owner.pc \notin {"dloop", "dfree", "visit", "acollect"}
    BY <1>0, <1>1, <1>6, <1>7 DEF Leaving, Stages, Reclaiming
  <2> QED
    BY <1>0, <1>2, <1>4, <2>1 DEF Leaving, HeapPages, TypeOK
<1>15. Moving'
  <2>1. h = owner.heap => owner.op # "absorbed" \/ owner.pc \notin {"dloop", "dfree"}
    BY <1>0, <1>1, <1>6, <1>7 DEF Moving, Stages, Reclaiming
  <2> QED
    <3>1. owner.op = "absorbed" => owner.heap \in Heaps
      BY DEF TypeOK
    <3>2. owner.op = "absorbed" /\ owner.pc \in {"dloop", "dfree"} =>
            thread_delayed_free'[owner.heap] = thread_delayed_free[owner.heap]
      BY <1>4, <2>1, <3>1
    <3> QED
      BY <1>2, <3>2 DEF Moving, HeapPages, InQueue
<1>16. Forcing'
  <2>1. p = owner.page => owner.op # "fabandon" \/ owner.pc = "fnever"
    BY <1>0, <1>1, ClearedFields DEF Forcing, Homes
  <2>2. owner.op = "fabandon" /\ owner.pc \in {"dloop", "dfree", "fend"} =>
          \A g \in Heaps : \A c \in thread_delayed_free'[g] : PageOf[c] # owner.page
    BY <1>4, <2>1 DEF Forcing, p
  <2> QED
    BY <1>2, <2>2 DEF Forcing, InQueue
<1> QED
  BY <1>8, <1>9, <1>10, <1>11, <1>12, <1>13, <1>14, <1>15, <1>16

LEMMA RemoteResetInv ==
  ASSUME TypeOK, IInv, NEW t \in Remotes, RemoteReset(t)
  PROVE  IInv'
<1> USE DEF IInv
<1> DEFINE b == remote[t].blk
           p == PageOf[b]
           r == [page[p] EXCEPT !.delayed = "NO"]
<1>0. /\ b \in Blocks /\ p \in Pages /\ remote[t].pc = "reset" /\ page[p] \in PageRecord
      /\ PageOf[b] = p
  BY BlocksAssumption DEF RemoteReset, TypeOK
<1>1. /\ r \in PageRecord /\ r.free = page[p].free /\ r.local_free = page[p].local_free
      /\ r.thread_free = page[p].thread_free /\ r.fresh = page[p].fresh
      /\ r.used = page[p].used /\ r.xheap = page[p].xheap /\ r.place = page[p].place
      /\ r.delayed = "NO" /\ page' = [page EXCEPT ![p] = r]
  BY <1>0 DEF PageRecord, Delayed, RemoteReset
<1>2. InFreeing(t) /\ page[p].delayed = "FREEING" /\ page[p].xheap # NoHeap /\ OnDelayed(b)
  BY <1>0 DEF InFreeing, FreeingOne, OnDelayed
<1>3. UNCHANGED <<thread_delayed_free, heaps, backing, live, owner>>
  BY DEF RemoteReset
<1>4. \A u \in Remotes : remote'[u] = IF u = t THEN RemoteIdle ELSE remote[u]
  BY DEF RemoteReset, TypeOK
<1> HIDE DEF r, p, b
<1>5. \A q \in Pages : page'[q] = IF q = p THEN r ELSE page[q]
  BY <1>1 DEF TypeOK
<1>6. page[p].place # "none" /\ (page[p].place = "abandoned" => Reclaiming(p))
  BY <1>0, <1>2, ClearedFields DEF Homes, InQueue
<1>7. Lists' /\ Placed'
  <2>1. PageLists(p, page[p])
    BY <1>0 DEF Lists
  <2>2. PageLists(p, r) /\ AllLists(r) = AllLists(page[p])
    BY <1>0, <1>1, <2>1, SameLists
  <2>3. \A q \in Pages : AllLists(page'[q]) = AllLists(page[q])
    BY <1>5, <2>2
  <2>4. \A u \in Remotes, c \in Blocks : Held(u, c)' <=> Held(u, c)
    BY <1>0, <1>4 DEF Held, RemoteIdle
  <2>5. Placed'
    BY <1>3, <2>3, <2>4, PlacedFrame
  <2> QED
    BY <1>0, <1>1, <2>2, <2>5, ListsStep
<1>8. Homes'
  <2>1. page[p].place = "abandoned" => owner.pc = "rcollect" /\ owner.page = p
    BY <1>0, <1>2, <1>6 DEF Homes
  <2> QED
    BY <1>0, <1>1, <1>3, <1>5, <1>6, <2>1 DEF Homes, InQueue, Reclaiming, Cleared, BlocksOf
<1>9. OwnHeaps' /\ Stages'
  BY <1>3 DEF OwnHeaps, Stages
<1>10. Candidate'
  BY <1>1, <1>3, <1>5 DEF Candidate, TypeOK, OwnerRecord
<1>11. FreeingOne'
  <2>1. \A u \in Remotes : InFreeing(u)' <=> InFreeing(u) /\ u # t
    BY <1>4 DEF InFreeing, RemoteIdle
  <2>2. \A u \in Remotes : InFreeing(u) /\ u # t =>
           PageOf[remote[u].blk] \in Pages /\ PageOf[remote[u].blk] # p /\ remote'[u] = remote[u]
    BY <1>2, <1>4, BlocksAssumption DEF FreeingOne, InFreeing, TypeOK, p, b
  <2>3. \A u \in Remotes : remote'[u].pc \in {"delay", "reset"} => InFreeing(u)'
    BY DEF InFreeing
  <2>4. \A u \in Remotes : InFreeing(u)' => page'[PageOf[remote'[u].blk]].delayed = "FREEING"
    BY <1>5, <2>1, <2>2 DEF FreeingOne
  <2>5. \A u, v \in Remotes :
           InFreeing(u)' /\ InFreeing(v)' /\ PageOf[remote'[u].blk] = PageOf[remote'[v].blk] => u = v
    BY <2>1, <2>2 DEF FreeingOne
  <2>6. \A q \in Pages : page'[q].delayed = "FREEING" =>
           page'[q].xheap # NoHeap /\ \E u \in Remotes : InFreeing(u)' /\ PageOf[remote'[u].blk] = q
    BY <1>1, <1>5, <2>1, <2>2 DEF FreeingOne, p, b
  <2>7. \A u \in Remotes : remote'[u].pc = "reset" =>
           remote'[u].blk \in owner'.list \/ \E g \in Heaps : remote'[u].blk \in thread_delayed_free'[g]
    BY <1>3, <2>1, <2>2, <2>3 DEF FreeingOne, Delayed_
  <2>8. \A u \in Remotes : remote'[u].pc = "delay" =>
           \/ remote'[u].heap = page'[PageOf[remote'[u].blk]].xheap
           \/ /\ owner'.pc = "appflag" /\ owner'.page = PageOf[remote'[u].blk]
              /\ remote'[u].heap = owner'.heap
    BY <1>3, <1>5, <2>1, <2>2, <2>3 DEF FreeingOne
  <2> QED
    BY <2>4, <2>5, <2>6, <2>7, <2>8 DEF FreeingOne, Delayed_
<1>12. DelayedOwned'
  BY <1>1, <1>3, <1>5, BlocksAssumption DEF DelayedOwned, ByOwner, Absorbing, TypeOK
<1>13. Wakes'
  <2>1. Waiting(p)
    BY <1>0, <1>2 DEF Waiting
  <2>2. \A q \in Pages : Waiting(q)' <=> Waiting(q)
    BY <1>3 DEF Waiting, OnDelayed, Delayed_
  <2>3. \A q \in Pages \ {p} : page'[q] = page[q]
    BY <1>5
  <2> QED
    BY <1>1, <1>3, <1>5, <2>1, <2>2, <2>3 DEF Wakes
<1>14. Leaving'
  BY <1>1, <1>2, <1>3, <1>5 DEF Leaving, HeapPages
<1>15. Moving'
  BY <1>1, <1>3, <1>5 DEF Moving, HeapPages, InQueue, TypeOK, WithPage
<1>16. Forcing'
  BY <1>1, <1>2, <1>3, <1>5, <1>6 DEF Forcing, InQueue, TypeOK, WithPage
<1> QED
  BY <1>7, <1>8, <1>9, <1>10, <1>11, <1>12, <1>13, <1>14, <1>15, <1>16

LEMMA RemoteInv ==
  ASSUME TypeOK, IInv, NEW t \in Remotes,
         RemoteStep(t) \/ \E b \in Blocks : RemoteFree(t, b)
  PROVE  IInv'
BY RemoteFreeInv, RemotePushInv, RemoteLoadHeapInv, RemoteDelayInv, RemoteResetInv DEF RemoteStep

-----------------------------------------------------------------------------
(* Steps of the owner that leave pages, lists and threads alone.            *)

LEMMA OwnerControl ==
  ASSUME TypeOK, TypeOK', IInv, UNCHANGED <<page, thread_delayed_free, live, remote>>,
         owner.pc \notin {"appflag", "rflag", "rcollect", "dfree"},
         owner'.pc \notin {"appflag", "rflag", "rcollect", "dfree"},
         owner.list = {}, owner'.list = {}, owner'.blk = owner.blk,
         \A p \in Pages : page[p].xheap # NoHeap => page[p].xheap \in heaps',
         \A h \in Heaps : thread_delayed_free[h] # {} => h \in heaps',
         \A h \in Heaps : Absorbing(h) => Absorbing(h)' \/ thread_delayed_free[h] = {}
  PROVE  Lists' /\ Placed' /\ Homes' /\ FreeingOne' /\ DelayedOwned' /\ Wakes'
<1> USE DEF IInv
<1>1. Lists'
  BY DEF Lists, PageLists, UsedBlocks, AllLists, BlocksOf
<1>2. Placed'
  <2>1. \A t \in Remotes, b \in Blocks : Held(t, b)' <=> Held(t, b)
    BY DEF Held
  <2> QED
    BY <2>1, PlacedFrame
<1>3. Homes'
  BY DEF Homes, InQueue, Reclaiming, Cleared, BlocksOf
<1>4. \A b \in Blocks : OnDelayed(b)' <=> OnDelayed(b)
  BY DEF OnDelayed, Delayed_
<1>5. FreeingOne'
  <2>1. \A t \in Remotes : InFreeing(t)' <=> InFreeing(t)
    BY DEF InFreeing
  <2> QED
    BY <1>4, <2>1, FreeingFrame
<1>6. DelayedOwned'
  <2>1. \A h \in Heaps : \A b \in thread_delayed_free[h] :
           h \in heaps' /\ (page[PageOf[b]].xheap = h \/ Absorbing(h)')
    BY DEF DelayedOwned
  <2>2. \A b \in Blocks : ~ByOwner(b)'
    BY DEF ByOwner, TypeOK
  <2> QED
    BY <2>1, <2>2 DEF DelayedOwned
<1>7. Wakes'
  <2>1. \A p \in Pages : Waiting(p)' <=> Waiting(p)
    BY <1>4 DEF Waiting
  <2> QED
    BY <2>1 DEF Wakes
<1> QED
  BY <1>1, <1>2, <1>3, <1>5, <1>6, <1>7

\* The owner starts a call that works on heap h.
LEMMA CallInv ==
  ASSUME TypeOK, TypeOK', IInv, NEW h \in heaps, owner.pc = "idle",
         UNCHANGED <<page, thread_delayed_free, heaps, backing, live, remote>>,
         owner'.heap = h, owner'.cand = NoPage, owner'.list = {}, owner'.blk = NoBlock,
         owner'.seen = {},
         \/ owner'.op = "malloc" /\ owner'.pc \in {"find", "take"}
         \/ owner'.op \in {"collect", "force"} /\ owner'.pc = "take"
         \/ owner'.op = "abandon" /\ owner'.pc = "never"
         \/ owner'.op = "exit" /\ owner'.pc = "never" /\ heaps = {h}
         \/ owner'.op = "absorb" /\ owner'.pc = "take" /\ h # backing
  PROVE  IInv'
<1> USE DEF IInv
<1>1. owner.op = "none" /\ owner.list = {} /\ owner.blk \notin Blocks
  BY DEF Stages, TypeOK
<1>2. owner.blk = NoBlock
  BY <1>1 DEF TypeOK, OwnerRecord
<1>3. Lists' /\ Placed' /\ Homes' /\ FreeingOne' /\ DelayedOwned' /\ Wakes'
  <2>1. \A p \in Pages : page[p].xheap # NoHeap => page[p].xheap \in heaps'
    BY DEF Homes
  <2>2. \A g \in Heaps : thread_delayed_free[g] # {} => g \in heaps'
    BY DEF DelayedOwned
  <2>3. \A g \in Heaps : ~Absorbing(g)
    BY <1>1 DEF Absorbing
  <2> QED
    BY <1>1, <1>2, <2>1, <2>2, <2>3, OwnerControl
<1>4. OwnHeaps' /\ Stages' /\ Candidate'
  BY DEF OwnHeaps, Stages, Candidate
<1>5. Leaving' /\ Moving' /\ Forcing'
  BY DEF Leaving, Moving, Forcing
<1> QED
  BY <1>3, <1>4, <1>5

LEMMA MallocGenericInv ==
  ASSUME TypeOK, TypeOK', IInv, NEW h \in Heaps, MallocGeneric(h)
  PROVE  IInv'
<1>1. PICK pc \in {"find", "take"} : owner' = [Idle EXCEPT !.pc = pc, !.op = "malloc", !.heap = h]
  BY DEF MallocGeneric
<1>2. /\ owner'.pc \in {"find", "take"} /\ owner'.op = "malloc" /\ owner'.heap = h
      /\ owner'.cand = NoPage /\ owner'.list = {} /\ owner'.blk = NoBlock /\ owner'.seen = {}
  BY <1>1 DEF Idle
<1> QED
  BY <1>2, CallInv DEF MallocGeneric

LEMMA HeapCollectInv ==
  ASSUME TypeOK, TypeOK', IInv, NEW h \in Heaps, HeapCollect(h)
  PROVE  IInv'
<1>1. PICK op \in {"collect", "force"} : owner' = [Idle EXCEPT !.pc = "take", !.op = op, !.heap = h]
  BY DEF HeapCollect
<1>2. /\ owner'.pc = "take" /\ owner'.op \in {"collect", "force"} /\ owner'.heap = h
      /\ owner'.cand = NoPage /\ owner'.list = {} /\ owner'.blk = NoBlock /\ owner'.seen = {}
  BY <1>1 DEF Idle
<1> QED
  BY <1>2, CallInv DEF HeapCollect

LEMMA HeapAbandonInv ==
  ASSUME TypeOK, TypeOK', IInv, NEW h \in Heaps, HeapAbandon(h)
  PROVE  IInv'
<1>1. PICK op \in {"abandon", "exit"} :
        /\ op = "exit" => heaps = {backing}
        /\ owner' = [Idle EXCEPT !.pc = "never", !.op = op, !.heap = h]
  BY DEF HeapAbandon
<1>2. /\ owner'.pc = "never" /\ owner'.op = op /\ owner'.heap = h
      /\ owner'.cand = NoPage /\ owner'.list = {} /\ owner'.blk = NoBlock /\ owner'.seen = {}
  BY <1>1 DEF Idle
<1>3. op = "exit" => heaps = {h}
  BY <1>1 DEF HeapAbandon
<1> QED
  BY <1>2, <1>3, CallInv DEF HeapAbandon

\* In a heap that is not being worked on, a delayed block is of a page of the heap.
LEMMA DelayedOfHeap ==
  ASSUME TypeOK, IInv, NEW h \in Heaps, ~Absorbing(h), NEW b \in thread_delayed_free[h],
         owner.pc \notin {"rflag", "rcollect"}
  PROVE  PageOf[b] \in HeapPages(h)
<1>1. page[PageOf[b]].xheap = h /\ h # NoHeap /\ b \in Blocks
  BY NullAssumption DEF IInv, DelayedOwned, TypeOK
<1>2. PageOf[b] \in Pages
  BY <1>1, BlocksAssumption
<1> QED
  BY <1>1, <1>2 DEF IInv, Homes, InQueue, Reclaiming, HeapPages

\* A heap without pages is removed: nothing refers to it.
LEMMA NoPagesUnused ==
  ASSUME TypeOK, IInv, NEW h \in Heaps, ~Absorbing(h), HeapPages(h) = {},
         owner.pc \notin {"rflag", "rcollect"}
  PROVE  thread_delayed_free[h] = {} /\ \A p \in Pages : page[p].xheap # h
<1>1. thread_delayed_free[h] = {}
  BY DelayedOfHeap
<1>2. \A p \in Pages : page[p].xheap # h
  BY NullAssumption DEF IInv, Homes, InQueue, Reclaiming, HeapPages
<1> QED
  BY <1>1, <1>2

LEMMA HeapAbsorbInv ==
  ASSUME TypeOK, TypeOK', IInv, NEW h \in Heaps, HeapAbsorb(h)
  PROVE  IInv'
<1>0. /\ owner.pc = "idle" /\ h \in heaps /\ h # backing
      /\ UNCHANGED <<page, thread_delayed_free, backing, live, remote>>
  BY DEF HeapAbsorb
<1>1. CASE HeapPages(h) # {}
  <2>1. heaps' = heaps /\ owner' = [Idle EXCEPT !.pc = "take", !.op = "absorb", !.heap = h]
    BY <1>1 DEF HeapAbsorb
  <2>2. /\ owner'.pc = "take" /\ owner'.op = "absorb" /\ owner'.heap = h
        /\ owner'.cand = NoPage /\ owner'.list = {} /\ owner'.blk = NoBlock /\ owner'.seen = {}
    BY <2>1 DEF Idle
  <2> QED
    BY <1>0, <2>1, <2>2, CallInv
<1>2. CASE HeapPages(h) = {}
  <2> USE DEF IInv
  <2>1. heaps' = heaps \ {h} /\ owner' = owner
    BY <1>2 DEF HeapAbsorb, HeapFree
  <2>2. owner.op = "none" /\ owner.list = {}
    BY <1>0 DEF Stages
  <2>3. \A g \in Heaps : ~Absorbing(g)
    BY <2>2 DEF Absorbing
  <2>4. thread_delayed_free[h] = {} /\ \A p \in Pages : page[p].xheap # h
    BY <1>0, <1>2, <2>3, NoPagesUnused
  <2>5. Lists' /\ Placed' /\ Homes' /\ FreeingOne' /\ DelayedOwned' /\ Wakes'
    <3>1. \A p \in Pages : page[p].xheap # NoHeap => page[p].xheap \in heaps'
      BY <2>1, <2>4 DEF Homes
    <3>2. \A g \in Heaps : thread_delayed_free[g] # {} => g \in heaps'
      BY <2>1, <2>4 DEF DelayedOwned
    <3> QED
      BY <1>0, <2>1, <2>2, <2>3, <3>1, <3>2, OwnerControl
  <2>6. OwnHeaps' /\ Stages' /\ Candidate'
    BY <1>0, <2>1, <2>2 DEF OwnHeaps, Stages, Candidate
  <2>7. Leaving' /\ Moving' /\ Forcing'
    BY <1>0, <2>1, <2>2 DEF Leaving, Moving, Forcing
  <2> QED
    BY <2>5, <2>6, <2>7
<1> QED
  BY <1>1, <1>2

LEMMA MallocNoPageInv ==
  ASSUME TypeOK, TypeOK', IInv, MallocNoPage
  PROVE  IInv'
<1> USE DEF IInv
<1>0. /\ owner.pc = "find" /\ owner.cand = NoPage /\ owner.list = {}
      /\ owner.op \in {"malloc", "retry"}
      /\ UNCHANGED <<page, thread_delayed_free, heaps, backing, live, remote>>
  BY DEF MallocNoPage, NothingFound, Stages
<1>1. /\ owner'.list = {} /\ owner'.cand = NoPage
      /\ \/ owner'.op = "oom" /\ owner'.pc = "take" /\ owner'.heap = owner.heap
         \/ owner'.op = "none" /\ owner'.pc = "idle"
  <2>1. CASE owner' = Idle
    BY <2>1, IdleFields
  <2>2. CASE owner' = [owner EXCEPT !.op = "oom", !.pc = "take", !.seen = {}]
    BY <1>0, <2>2 DEF TypeOK, OwnerRecord
  <2> QED
    BY <2>1, <2>2 DEF MallocNoPage
<1>2. owner'.blk = owner.blk
  BY <1>0, <1>1 DEF TypeOK, OwnerRecord
<1>3. Lists' /\ Placed' /\ Homes' /\ FreeingOne' /\ DelayedOwned' /\ Wakes'
  <2>1. \A p \in Pages : page[p].xheap # NoHeap => page[p].xheap \in heaps'
    BY <1>0 DEF Homes
  <2>2. \A g \in Heaps : thread_delayed_free[g] # {} => g \in heaps'
    BY <1>0 DEF DelayedOwned
  <2>3. \A g \in Heaps : ~Absorbing(g)
    BY <1>0 DEF Absorbing
  <2> QED
    BY <1>0, <1>1, <1>2, <2>1, <2>2, <2>3, OwnerControl
<1>4. OwnHeaps' /\ Stages' /\ Candidate'
  BY <1>0, <1>1 DEF OwnHeaps, Stages, Candidate
<1>5. Leaving' /\ Moving' /\ Forcing'
  BY <1>1 DEF Leaving, Moving, Forcing
<1> QED
  BY <1>3, <1>4, <1>5

\* The owner goes on to another stage of its call, which finds what it relies on.
LEMMA ContinueInv ==
  ASSUME TypeOK, TypeOK', IInv,
         UNCHANGED <<page, thread_delayed_free, heaps, backing, live, remote>>,
         owner.pc \in {"dloop", "never", "visit", "acollect", "append"},
         owner'.pc \in {"find", "take", "append", "visit", "acollect", "fend"},
         owner.list = {}, owner'.list = {}, owner'.blk = owner.blk, owner'.cand = owner.cand,
         owner'.heap = owner.heap, owner'.page = owner.page, owner.op # "none",
         \A h \in Heaps : Absorbing(h) => Absorbing(h)',
         Stages' /\ Leaving' /\ Moving' /\ Forcing',
         owner.op # owner'.op => owner'.op \notin {"abandon", "exit", "absorb", "fabandon", "none", "reclaim"},
         owner'.op = "absorbed" => owner.op \in {"absorb", "absorbed"}
  PROVE  IInv'
<1> USE DEF IInv
<1>1. Lists' /\ Placed' /\ Homes' /\ FreeingOne' /\ DelayedOwned' /\ Wakes'
  <2>1. \A p \in Pages : page[p].xheap # NoHeap => page[p].xheap \in heaps'
    BY DEF Homes
  <2>2. \A g \in Heaps : thread_delayed_free[g] # {} => g \in heaps'
    BY DEF DelayedOwned
  <2> QED
    BY <2>1, <2>2, OwnerControl
<1>2. OwnHeaps'
  BY DEF OwnHeaps, TypeOK
<1>3. Candidate'
  BY DEF Candidate
<1> QED
  BY <1>1, <1>2, <1>3

LEMMA NeverDoneInv ==
  ASSUME TypeOK, TypeOK', IInv, NeverDone
  PROVE  IInv'
<1>0. /\ owner.pc = "never" /\ \A p \in HeapPages(owner.heap) : page[p].delayed = "NEVER"
      /\ UNCHANGED <<page, thread_delayed_free, heaps, backing, live, remote>>
      /\ owner.op \in {"abandon", "exit"} /\ owner.list = {} /\ owner.seen = {}
  BY DEF NeverDone, IInv, Stages, Leaving
<1>1. /\ owner'.pc = "take" /\ owner'.op = owner.op /\ owner'.list = owner.list
      /\ owner'.blk = owner.blk /\ owner'.cand = owner.cand /\ owner'.heap = owner.heap
      /\ owner'.page = owner.page /\ owner'.seen = owner.seen
  BY DEF NeverDone, Goto, TypeOK, OwnerRecord
<1>2. Stages' /\ Leaving' /\ Moving' /\ Forcing'
  BY <1>0, <1>1 DEF Stages, Leaving, Moving, Forcing, HeapPages
<1>3. \A h \in Heaps : Absorbing(h) => Absorbing(h)'
  BY <1>1 DEF Absorbing
<1> QED
  BY <1>0, <1>1, <1>2, <1>3, ContinueInv

LEMMA AppendDoneInv ==
  ASSUME TypeOK, TypeOK', IInv, AppendDone
  PROVE  IInv'
<1>0. /\ owner.pc = "append" /\ HeapPages(owner.heap) = {}
      /\ UNCHANGED <<page, thread_delayed_free, heaps, backing, live, remote>>
      /\ owner.op = "absorb" /\ owner.list = {}
  BY DEF AppendDone, IInv, Stages
<1>1. /\ owner'.pc = "take" /\ owner'.op = "absorbed" /\ owner'.list = owner.list
      /\ owner'.blk = owner.blk /\ owner'.cand = owner.cand /\ owner'.heap = owner.heap
      /\ owner'.page = owner.page
  BY DEF AppendDone, Goto, TypeOK, OwnerRecord, OwnerOps
<1>2. Stages' /\ Leaving' /\ Moving' /\ Forcing'
  BY <1>0, <1>1 DEF Stages, Leaving, Moving, Forcing, HeapPages
<1>3. \A h \in Heaps : Absorbing(h) => Absorbing(h)'
  BY <1>1 DEF Absorbing
<1> QED
  BY <1>0, <1>1, <1>2, <1>3, ContinueInv

\* When all pages of a heap that is abandoned were visited, none is left in it.
LEMMA VisitDoneInv ==
  ASSUME TypeOK, TypeOK', IInv, VisitDone
  PROVE  IInv'
<1>0. /\ owner.pc = "visit" /\ HeapPages(owner.heap) \subseteq owner.seen
      /\ UNCHANGED <<page, thread_delayed_free, heaps, backing, live, remote>>
      /\ owner.op \in Collecting /\ owner.list = {}
      /\ owner' = [owner EXCEPT !.pc = "acollect", !.seen = {}]
  BY DEF VisitDone, IInv, Stages
<1>1. /\ owner'.pc = "acollect" /\ owner'.op = owner.op /\ owner'.list = owner.list
      /\ owner'.blk = owner.blk /\ owner'.cand = owner.cand /\ owner'.heap = owner.heap
      /\ owner'.page = owner.page
  BY <1>0 DEF TypeOK, OwnerRecord
<1>2. owner.op \in {"abandon", "exit"} => HeapPages(owner.heap) = {}
  BY <1>0 DEF IInv, Leaving
<1>3. Stages' /\ Moving' /\ Forcing'
  BY <1>0, <1>1 DEF Stages, Moving, Forcing, Collecting, Forced
<1>4. Leaving'
  BY <1>0, <1>1, <1>2 DEF IInv, Leaving, HeapPages
<1>5. \A h \in Heaps : Absorbing(h) => Absorbing(h)'
  BY <1>1 DEF Absorbing
<1> QED
  BY <1>0, <1>1, <1>3, <1>4, <1>5, ContinueInv DEF Collecting, Forced

LEMMA DelayedDoneInv ==
  ASSUME TypeOK, TypeOK', IInv, DelayedDone
  PROVE  IInv'
<1>0. /\ owner.pc = "dloop" /\ owner.list = {}
      /\ UNCHANGED <<page, thread_delayed_free, heaps, backing, live, remote>>
      /\ owner.op # "none"
  BY DEF DelayedDone, TypeOK
<1> DEFINE To(pc, op) ==
             \/ pc = "take" /\ op = owner.op
             \/ pc = "find" /\ op = "malloc" /\ owner.op = "malloc"
             \/ pc = "take" /\ op = "mcollect" /\ owner.op = "malloc"
             \/ pc = "append" /\ op = "absorb" /\ owner.op = "absorb"
             \/ pc = "visit" /\ op = owner.op /\ owner.op \in Collecting
             \/ pc = "fend" /\ op = "fabandon" /\ owner.op = "fabandon"
<1>a. \E pc, op : To(pc, op) /\ owner' = [owner EXCEPT !.pc = pc, !.op = op]
  BY DEF DelayedDone, Goto
<1>b. PICK pc, op : To(pc, op) /\ owner' = [owner EXCEPT !.pc = pc, !.op = op]
  BY <1>a
<1>c. owner'.pc = pc /\ owner'.op = op
  BY <1>b DEF TypeOK, OwnerRecord
<1>1. To(owner'.pc, owner'.op)
  BY <1>b, <1>c
<1>2. /\ owner'.list = owner.list /\ owner'.blk = owner.blk /\ owner'.cand = owner.cand
      /\ owner'.heap = owner.heap /\ owner'.page = owner.page /\ owner'.seen = owner.seen
  BY <1>b DEF TypeOK, OwnerRecord
<1>3. Stages'
  BY <1>0, <1>1, <1>2 DEF Stages
<1>4. Leaving'
  BY <1>0, <1>1, <1>2 DEF IInv, Leaving, HeapPages, Collecting, Forced
<1>5. Moving'
  BY <1>0, <1>1, <1>2 DEF IInv, Moving, HeapPages, Collecting, Forced
<1>6. Forcing'
  BY <1>0, <1>1, <1>2 DEF IInv, Forcing, Collecting, Forced
<1>7. \A h \in Heaps : Absorbing(h) => Absorbing(h)'
  BY <1>1, <1>2 DEF Absorbing
<1> QED
  BY <1>0, <1>1, <1>2, <1>3, <1>4, <1>5, <1>6, <1>7, ContinueInv DEF Collecting, Forced

\* The heap that an abandon removes has no pages and nothing on its delayed list.
LEMMA CollectDoneInv ==
  ASSUME TypeOK, TypeOK', IInv, CollectDone
  PROVE  IInv'
<1> USE DEF IInv
<1>0. /\ owner.pc = "acollect" /\ owner.list = {} /\ owner.blk = NoBlock
      /\ owner.op \in Collecting
      /\ UNCHANGED <<page, thread_delayed_free, backing, live, remote>>
  BY DEF CollectDone, Stages, TypeOK, OwnerRecord
<1>1. owner.cand = NoPage
  BY <1>0 DEF Candidate
<1>2. CASE owner.op \in {"mcollect", "oom"}
  <2>1. heaps' = heaps
    BY <1>2 DEF CollectDone
  <2>2. owner' = IF owner.op = "mcollect" THEN [owner EXCEPT !.pc = "find", !.op = "malloc", !.seen = {}]
                 ELSE [owner EXCEPT !.pc = "find", !.op = "retry", !.seen = {}]
    BY <1>2 DEF CollectDone
  <2>3. /\ owner'.pc = "find" /\ owner'.op \in {"malloc", "retry"} /\ owner'.list = owner.list
        /\ owner'.blk = owner.blk /\ owner'.cand = owner.cand /\ owner'.heap = owner.heap
        /\ owner'.page = owner.page
    BY <2>2 DEF TypeOK, OwnerRecord
  <2>4. Stages' /\ Leaving' /\ Moving' /\ Forcing'
    BY <1>0, <2>3 DEF Stages, Leaving, Moving, Forcing
  <2>5. \A h \in Heaps : ~Absorbing(h)
    BY <1>2 DEF Absorbing
  <2> QED
    BY <1>0, <1>2, <2>1, <2>3, <2>4, <2>5, ContinueInv
<1>3. CASE owner.op \notin {"mcollect", "oom"}
  <2>1. /\ owner'.pc = IF owner.op = "exit" THEN "gone" ELSE "idle"
        /\ owner'.op = "none" /\ owner'.list = {} /\ owner'.blk = NoBlock /\ owner'.cand = NoPage
    BY <1>3, IdleFields DEF CollectDone, OwnerRecord
  <2>2. \A h \in Heaps : ~Absorbing(h)
    BY <1>0 DEF Absorbing, Collecting, Forced
  <2>3. heaps' = IF owner.op = "exit" THEN {}
                 ELSE IF owner.op = "abandon" /\ owner.heap # backing THEN heaps \ {owner.heap}
                 ELSE heaps
    BY <1>3 DEF CollectDone, HeapFree
  <2>4. owner.op \in {"abandon", "exit"} =>
          /\ thread_delayed_free[owner.heap] = {}
          /\ \A p \in Pages : page[p].xheap # owner.heap
    <3>1. SUFFICES ASSUME owner.op \in {"abandon", "exit"}
                   PROVE  /\ thread_delayed_free[owner.heap] = {}
                          /\ \A p \in Pages : page[p].xheap # owner.heap
      OBVIOUS
    <3>2. owner.heap \in Heaps /\ HeapPages(owner.heap) = {}
      BY <1>0, <3>1 DEF Leaving, TypeOK
    <3> QED
      BY <1>0, <2>2, <3>2, NoPagesUnused
  <2>5. owner.op = "exit" => heaps = {owner.heap}
    BY DEF OwnHeaps
  <2>6. Lists' /\ Placed' /\ Homes' /\ FreeingOne' /\ DelayedOwned' /\ Wakes'
    <3>1. \A p \in Pages : page[p].xheap # NoHeap => page[p].xheap \in heaps'
      BY <2>3, <2>4, <2>5 DEF Homes
    <3>2. \A g \in Heaps : thread_delayed_free[g] # {} => g \in heaps'
      BY <2>3, <2>4, <2>5 DEF DelayedOwned
    <3> QED
      BY <1>0, <2>1, <2>2, <3>1, <3>2, OwnerControl
  <2>7. OwnHeaps' /\ Stages' /\ Candidate'
    BY <1>0, <2>1, <2>3 DEF OwnHeaps, Stages, Candidate
  <2>8. Leaving' /\ Moving' /\ Forcing'
    BY <2>1 DEF Leaving, Moving, Forcing
  <2> QED
    BY <2>6, <2>7, <2>8
<1> QED
  BY <1>2, <1>3

-----------------------------------------------------------------------------
(* Steps of the owner on one page that move no block.                       *)

\* The blocks of a page that its owner can take over at once.
Freed(pg) == pg.free \cup pg.local_free \cup pg.thread_free

\* Record r is page p after a collect: freed, when no block of it is used, or with
\* the same heap and flag, and in the full queue only without freed blocks.
Tidied(p, r) ==
  /\ PageLists(p, r) /\ AllLists(r) = AllLists(page[p])
  /\ \/ r = Cleared(p)
     \/ /\ r.xheap = page[p].xheap /\ r.delayed = page[p].delayed
        /\ r.thread_free = {}
        /\ \/ r.place = page[p].place /\ Freed(r) = Freed(page[p])
           \/ page[p].place = "queue" /\ r.place = "full" /\ Freed(r) = {}

LEMMA CollectTidied ==
  ASSUME TypeOK, Lists, NEW p \in Pages, NEW force \in BOOLEAN
  PROVE  LET c == Collect(page[p], force)
         IN /\ c \in PageRecord /\ Tidied(p, c)
            /\ c.used = 0 => Tidied(p, Cleared(p))
            /\ c.place = page[p].place /\ c.xheap = page[p].xheap
            /\ c.delayed = page[p].delayed /\ c.thread_free = {}
<1> DEFINE c == Collect(page[p], force)
           freed == page[p].local_free \cup page[p].thread_free
           move  == page[p].free = {} \/ force
           Goal == /\ c \in PageRecord /\ Tidied(p, c)
                   /\ c.used = 0 => Tidied(p, Cleared(p))
                   /\ c.place = page[p].place /\ c.xheap = page[p].xheap
                   /\ c.delayed = page[p].delayed /\ c.thread_free = {}
<1> SUFFICES Goal
  OBVIOUS
<1>1. page[p] \in PageRecord /\ PageLists(p, page[p])
  BY DEF TypeOK, Lists
<1>2. /\ c \in PageRecord
      /\ c.free = IF move THEN page[p].free \cup freed ELSE page[p].free
      /\ c.local_free = IF move THEN {} ELSE freed
      /\ c.thread_free = {} /\ c.delayed = page[p].delayed
      /\ c.xheap = page[p].xheap /\ c.place = page[p].place
  <2>1. CASE force = TRUE
    BY <1>1, <2>1, CollectFields
  <2>2. CASE force = FALSE
    BY <1>1, <2>2, CollectFields
  <2> QED
    BY <2>1, <2>2
<1>3. PageLists(p, c) /\ AllLists(c) = AllLists(page[p])
  BY <1>1, CollectLists
<1> HIDE DEF c
<1>4. Freed(c) = Freed(page[p])
  BY <1>2 DEF Freed
<1>5. Tidied(p, c)
  BY <1>2, <1>3, <1>4 DEF Tidied
<1>6. c.used = 0 => Tidied(p, Cleared(p))
  BY <1>2, <1>3, UnusedListed, ClearedLists DEF Tidied
<1> QED
  BY <1>2, <1>5, <1>6

\* pa_segment_check_free is a collect that frees the page if it can.
LEMMA CheckFreeTidied ==
  ASSUME TypeOK, Lists, NEW p \in Pages
  PROVE  LET r == CheckFree(p, page[p])
         IN /\ r \in PageRecord /\ Tidied(p, r)
            /\ r = Cleared(p) \/ (r.xheap = page[p].xheap /\ r.delayed = page[p].delayed
                                    /\ r.place = page[p].place)
<1> DEFINE c == Collect(page[p], FALSE)
<1>1. CheckFree(p, page[p]) = IF c.used = 0 THEN Cleared(p) ELSE c
  BY DEF CheckFree
<1>2. /\ c \in PageRecord /\ Tidied(p, c)
      /\ c.used = 0 => Tidied(p, Cleared(p))
      /\ c.place = page[p].place /\ c.xheap = page[p].xheap /\ c.delayed = page[p].delayed
  BY CollectTidied
<1> HIDE DEF c
<1> QED
  BY <1>1, <1>2, ClearedFields

\* A page that is freed in a collect has nobody to wait for.
LEMMA TidiedCleared ==
  ASSUME TypeOK, IInv, NEW p \in Pages, Tidied(p, Cleared(p))
  PROVE  /\ page[p].delayed # "FREEING" /\ ~Waiting(p)
         /\ \A b \in Blocks : PageOf[b] = p =>
              ~ByOwner(b) /\ (\A h \in Heaps : ~Delayed_(b, h)) /\ b \notin live
                /\ \A t \in Remotes : ~Held(t, b)
         /\ \A t \in Remotes : InFreeing(t) => PageOf[remote[t].blk] # p
<1>1. AllLists(page[p]) = BlocksOf(p)
  BY ClearedLists DEF Tidied
<1> QED
  BY <1>1, EmptyPage DEF IInv, BlocksOf

\* Collecting a page disturbs no thread, no list and no queue.
LEMMA TidyStep ==
  ASSUME TypeOK, TypeOK', IInv, NEW p \in Pages, NEW r \in PageRecord,
         page' = [page EXCEPT ![p] = r], Tidied(p, r),
         UNCHANGED <<thread_delayed_free, heaps, backing, live, remote>>,
         owner.pc \notin {"appflag", "rflag", "rcollect", "dfree"},
         owner'.pc \notin {"appflag", "rflag", "rcollect", "dfree"},
         owner.list = {}, owner'.list = {}, owner'.blk = owner.blk,
         \A h \in Heaps : Absorbing(h) => Absorbing(h)'
  PROVE  Lists' /\ Placed' /\ Homes' /\ FreeingOne' /\ DelayedOwned' /\ Wakes'
<1> USE DEF IInv
<1>1. \A q \in Pages : page'[q] = IF q = p THEN r ELSE page[q]
  BY DEF TypeOK
<1>2. Lists' /\ Placed'
  BY PageStep DEF Tidied
<1>3. \A b \in Blocks : OnDelayed(b)' <=> OnDelayed(b)
  BY DEF OnDelayed, Delayed_
<1>4. \A b \in Blocks : ~ByOwner(b)'
  BY DEF ByOwner, TypeOK
<1>5. \A q \in Pages : Waiting(q)' <=> Waiting(q)
  BY <1>3 DEF Waiting
<1>6. Homes'
  <2>1. \A q \in Pages : q # p => page'[q] = page[q]
    BY <1>1
  <2>2. CASE r = Cleared(p)
    BY <1>1, <2>2, ClearedFields DEF Homes, InQueue, Reclaiming
  <2>3. CASE r # Cleared(p)
    <3>1. /\ r.xheap = page[p].xheap /\ r.delayed = page[p].delayed
          /\ r.place = page[p].place \/ (page[p].place = "queue" /\ r.place = "full")
      BY <2>3 DEF Tidied
    <3>2. page[p].place = "none" => r.place # "none"
      <4>1. SUFFICES ASSUME page[p].place = "none" PROVE FALSE
        BY <3>1
      <4>2. page[p] = Cleared(p)
        BY <4>1 DEF Homes
      <4>3. /\ r.xheap = NoHeap /\ r.delayed = "USE" /\ r.thread_free = {} /\ r.place = "none"
            /\ AllLists(r) = BlocksOf(p) /\ Freed(r) = {} /\ PageLists(p, r)
        BY <2>3, <4>1, <4>2, ClearedFields DEF Tidied, AllLists, Freed
      <4>4. r.free = {} /\ r.local_free = {} /\ r.fresh = BlocksOf(p)
        BY <4>3 DEF AllLists, Freed
      <4>5. r.used = 0
        BY <4>3, <4>4, FS_EmptySet DEF PageLists, UsedBlocks
      <4> QED
        BY <2>3, <4>3, <4>4, <4>5 DEF Cleared, PageRecord
    <3> QED
      BY <1>1, <3>1, <3>2 DEF Homes, InQueue, Reclaiming, Cleared, BlocksOf
  <2> QED
    BY <2>2, <2>3
<1>7. CASE r = Cleared(p)
  <2>1. /\ page[p].delayed # "FREEING" /\ ~Waiting(p)
        /\ \A b \in Blocks : PageOf[b] = p => \A h \in Heaps : ~Delayed_(b, h)
        /\ \A t \in Remotes : InFreeing(t) => PageOf[remote[t].blk] # p
    BY <1>7, TidiedCleared
  <2>2. FreeingOne'
    <3>1. \A t \in Remotes : InFreeing(t)' <=> InFreeing(t)
      BY DEF InFreeing
    <3>2. /\ \A q \in Pages : page'[q].delayed = "FREEING" <=> page[q].delayed = "FREEING"
          /\ \A q \in Pages : page[q].delayed = "FREEING" => page'[q].xheap = page[q].xheap
      BY <1>1, <1>7, <2>1, ClearedFields
    <3> QED
      BY <1>3, <3>1, <3>2, FreeingFrame
  <2>3. DelayedOwned'
    <3>1. \A h \in Heaps : \A b \in thread_delayed_free[h] : b \in Blocks /\ PageOf[b] \in Pages /\ PageOf[b] # p
      BY <2>1, BlocksAssumption DEF TypeOK, Delayed_
    <3>2. \A h \in Heaps : \A b \in thread_delayed_free'[h] :
             /\ h \in heaps' /\ page'[PageOf[b]].xheap # NoHeap
             /\ page'[PageOf[b]].xheap = h \/ Absorbing(h)'
      BY <1>1, <3>1 DEF DelayedOwned
    <3> QED
      BY <1>4, <3>2 DEF DelayedOwned
  <2>4. Wakes'
    BY <1>1, <1>5, <1>7, ClearedFields DEF Wakes
  <2> QED
    BY <1>2, <1>6, <2>2, <2>3, <2>4
<1>8. CASE r # Cleared(p)
  <2>1. /\ r.xheap = page[p].xheap /\ r.delayed = page[p].delayed /\ r.thread_free = {}
        /\ \/ r.place = page[p].place /\ Freed(r) = Freed(page[p])
           \/ page[p].place = "queue" /\ r.place = "full" /\ Freed(r) = {}
    BY <1>8 DEF Tidied
  <2>2. FreeingOne'
    <3>1. \A t \in Remotes : InFreeing(t)' <=> InFreeing(t)
      BY DEF InFreeing
    <3>2. \A q \in Pages : page'[q].delayed = page[q].delayed /\ page'[q].xheap = page[q].xheap
      BY <1>1, <2>1
    <3> QED
      BY <1>3, <3>1, <3>2, FreeingFrame
  <2>3. DelayedOwned'
    <3>1. \A h \in Heaps : \A b \in thread_delayed_free[h] : PageOf[b] \in Pages
      BY BlocksAssumption DEF TypeOK
    <3>2. \A h \in Heaps : \A b \in thread_delayed_free'[h] :
             /\ h \in heaps' /\ page'[PageOf[b]].xheap # NoHeap
             /\ page'[PageOf[b]].xheap = h \/ Absorbing(h)'
      BY <1>1, <2>1, <3>1 DEF DelayedOwned
    <3> QED
      BY <1>4, <3>2 DEF DelayedOwned
  <2>4. Wakes'
    BY <1>1, <1>5, <2>1 DEF Wakes, Freed
  <2> QED
    BY <1>2, <1>6, <2>2, <2>3, <2>4
<1> QED
  BY <1>7, <1>8

\* A search, and the collect that ends the move to the full queue.
LEMMA FindFullInv ==
  ASSUME TypeOK, TypeOK', IInv, NEW p \in Pages, FindFull(p)
  PROVE  IInv'
<1> USE DEF IInv
<1> DEFINE c == Collect(page[p], FALSE)
           r == ToFull(c)
<1>0. /\ owner.pc = "find" /\ owner.list = {} /\ owner.op \in {"malloc", "retry"}
      /\ page[p].place = "queue" /\ page[p].xheap = owner.heap /\ p \notin owner.seen
      /\ c.free = {} /\ page' = [page EXCEPT ![p] = r]
      /\ owner' = [owner EXCEPT !.pc = "tofull", !.page = p]
      /\ UNCHANGED <<thread_delayed_free, heaps, backing, live, remote>>
  BY DEF FindFull, Unvisited, QueuePages, HeapPages, Stages
<1>1. /\ c \in PageRecord /\ Tidied(p, c) /\ c.thread_free = {} /\ c.place = "queue"
      /\ c.xheap = page[p].xheap /\ c.delayed = page[p].delayed
  BY <1>0, CollectTidied
<1>2. c.local_free = {}
  <2>1. page[p] \in PageRecord
    BY DEF TypeOK
  <2>2. /\ page[p].free = {} => c.local_free = {}
        /\ page[p].free # {} => c.free = page[p].free
    BY <2>1, CollectFields
  <2> QED
    BY <1>0, <2>2
<1> HIDE DEF c
<1>3. /\ r \in PageRecord /\ r.place = "full" /\ r.free = {} /\ r.local_free = {}
      /\ r.thread_free = {} /\ r.fresh = c.fresh /\ r.used = c.used
      /\ r.xheap = page[p].xheap /\ r.delayed = page[p].delayed
  BY <1>0, <1>1, <1>2, MoveFields
<1> HIDE DEF r
<1>4. Tidied(p, r)
  <2>1. PageLists(p, r) /\ AllLists(r) = AllLists(page[p])
    BY <1>0, <1>1, <1>2, <1>3, SameLists DEF Tidied
  <2> QED
    BY <1>0, <1>3, <2>1 DEF Tidied, Freed
<1>5. /\ owner'.pc = "tofull" /\ owner'.page = p /\ owner'.op = owner.op
      /\ owner'.heap = owner.heap /\ owner'.list = owner.list /\ owner'.blk = owner.blk
      /\ owner'.cand = owner.cand /\ owner'.seen = owner.seen
  BY <1>0 DEF TypeOK, OwnerRecord
<1>6. Lists' /\ Placed' /\ Homes' /\ FreeingOne' /\ DelayedOwned' /\ Wakes'
  <2>1. \A h \in Heaps : ~Absorbing(h)
    BY <1>0 DEF Absorbing
  <2> QED
    BY <1>0, <1>3, <1>4, <1>5, <2>1, TidyStep
<1>7. OwnHeaps' /\ Stages'
  BY <1>0, <1>5 DEF OwnHeaps, Stages
<1>8. Candidate'
  <2>1. owner.cand # NoPage => owner.cand \in Pages /\ owner.cand # p
    BY <1>0 DEF Candidate, TypeOK, OwnerRecord
  <2> QED
    BY <1>0, <1>5, <2>1 DEF Candidate
<1>9. Leaving' /\ Moving' /\ Forcing'
  BY <1>0, <1>5 DEF Leaving, Moving, Forcing
<1> QED
  BY <1>6, <1>7, <1>8, <1>9

LEMMA FindCandidateInv ==
  ASSUME TypeOK, TypeOK', IInv, NEW p \in Pages, FindCandidate(p)
  PROVE  IInv'
<1> USE DEF IInv
<1> DEFINE c == Collect(page[p], FALSE)
<1>0. /\ owner.pc = "find" /\ owner.list = {} /\ owner.op \in {"malloc", "retry"}
      /\ page[p].place = "queue" /\ page' = [page EXCEPT ![p] = c]
      /\ UNCHANGED <<thread_delayed_free, heaps, backing, live, remote>>
  BY DEF FindCandidate, Unvisited, QueuePages, HeapPages, Stages
<1>1. c \in PageRecord /\ Tidied(p, c) /\ c.place = "queue"
  BY <1>0, CollectTidied
<1>2. PICK cand \in {owner.cand, p}, pc \in {"find", "pick"} :
        owner' = [owner EXCEPT !.cand = cand, !.pc = pc, !.seen = @ \cup {p}]
  BY DEF FindCandidate
<1> HIDE DEF c
<1>5. /\ owner'.pc \in {"find", "pick"} /\ owner'.op = owner.op
      /\ owner'.heap = owner.heap /\ owner'.list = owner.list /\ owner'.blk = owner.blk
      /\ owner'.cand \in {owner.cand, p} /\ owner'.seen = owner.seen \cup {p}
  BY <1>2 DEF TypeOK, OwnerRecord
<1>6. Lists' /\ Placed' /\ Homes' /\ FreeingOne' /\ DelayedOwned' /\ Wakes'
  <2>1. \A h \in Heaps : ~Absorbing(h)
    BY <1>0 DEF Absorbing
  <2> QED
    BY <1>0, <1>1, <1>5, <2>1, TidyStep
<1>7. OwnHeaps' /\ Stages'
  BY <1>0, <1>5 DEF OwnHeaps, Stages
<1>8. Candidate'
  <2>1. owner.cand \in Pages \cup {NoPage}
    BY DEF TypeOK, OwnerRecord
  <2>2. \A q \in Pages : page'[q].place = page[q].place
    BY <1>0, <1>1 DEF TypeOK
  <2> QED
    BY <1>0, <1>5, <2>1, <2>2 DEF Candidate
<1>9. Leaving' /\ Moving' /\ Forcing'
  BY <1>0, <1>5 DEF Leaving, Moving, Forcing
<1> QED
  BY <1>6, <1>7, <1>8, <1>9

LEMMA ToFullCollectInv ==
  ASSUME TypeOK, TypeOK', IInv, ToFullCollect
  PROVE  IInv'
<1> USE DEF IInv
<1> DEFINE p == owner.page
           c == Collect(page[p], FALSE)
<1>0. /\ owner.pc \in {"tofull", "filled"} /\ owner.list = {} /\ p \in Pages
      /\ owner.blk = NoBlock /\ page' = [page EXCEPT ![p] = c]
      /\ UNCHANGED <<thread_delayed_free, heaps, backing, live, remote>>
  BY DEF ToFullCollect, Stages, TypeOK, WithPage, OwnerRecord
<1>1. c \in PageRecord /\ Tidied(p, c) /\ c.place = page[p].place
  BY <1>0, CollectTidied
<1> HIDE DEF c, p
<1>5. /\ owner'.list = {} /\ owner'.blk = NoBlock
      /\ \/ owner'.pc = "idle" /\ owner'.op = "none" /\ owner'.cand = NoPage
         \/ /\ owner'.pc = "find" /\ owner.pc = "tofull" /\ owner'.op = owner.op
            /\ owner'.heap = owner.heap /\ owner'.cand = owner.cand /\ owner'.seen = owner.seen
  <2>1. CASE owner.pc = "filled"
    BY <2>1, IdleFields DEF ToFullCollect
  <2>2. CASE owner.pc = "tofull"
    <3>1. owner' = [owner EXCEPT !.pc = "find", !.page = NoPage]
      BY <2>2 DEF ToFullCollect
    <3> QED
      BY <1>0, <2>2, <3>1 DEF TypeOK, OwnerRecord
  <2> QED
    BY <1>0, <2>1, <2>2
<1>6. Lists' /\ Placed' /\ Homes' /\ FreeingOne' /\ DelayedOwned' /\ Wakes'
  <2>1. \A h \in Heaps : ~Absorbing(h)
    BY <1>0 DEF Absorbing, Stages
  <2> QED
    BY <1>0, <1>1, <1>5, <2>1, TidyStep
<1>7. OwnHeaps' /\ Stages'
  BY <1>0, <1>5 DEF OwnHeaps, Stages
<1>8. Candidate'
  <2>1. owner.cand \in Pages \cup {NoPage}
    BY DEF TypeOK, OwnerRecord
  <2>2. \A q \in Pages : page'[q].place = page[q].place
    BY <1>0, <1>1 DEF TypeOK
  <2> QED
    BY <1>0, <1>5, <2>1, <2>2 DEF Candidate
<1>9. Leaving' /\ Moving' /\ Forcing'
  BY <1>0, <1>5 DEF Stages, Leaving, Moving, Forcing
<1> QED
  BY <1>6, <1>7, <1>8, <1>9

\* Without a call under way, a page is collected or freed.
LEMMA QuietTidy ==
  ASSUME TypeOK, TypeOK', IInv, NEW p \in Pages, NEW r \in PageRecord,
         page' = [page EXCEPT ![p] = r], Tidied(p, r), owner.pc \in {"idle", "gone"},
         UNCHANGED <<thread_delayed_free, heaps, backing, live, remote, owner>>
  PROVE  IInv'
<1> USE DEF IInv
<1>0. owner.op = "none" /\ owner.list = {} /\ owner.cand = NoPage
  BY DEF Stages, Candidate
<1>1. Lists' /\ Placed' /\ Homes' /\ FreeingOne' /\ DelayedOwned' /\ Wakes'
  <2>1. \A h \in Heaps : ~Absorbing(h)
    BY <1>0 DEF Absorbing
  <2> QED
    BY <1>0, <2>1, TidyStep
<1>2. OwnHeaps' /\ Stages' /\ Candidate' /\ Leaving' /\ Moving' /\ Forcing'
  BY <1>0 DEF OwnHeaps, Stages, Candidate, Leaving, Moving, Forcing
<1> QED
  BY <1>1, <1>2

LEMMA CollectRetiredInv ==
  ASSUME TypeOK, TypeOK', IInv, NEW p \in Pages, CollectRetired(p)
  PROVE  IInv'
<1>1. page[p] \in PageRecord /\ PageLists(p, page[p]) /\ page[p].used = 0
  BY DEF TypeOK, IInv, Lists, CollectRetired
<1>2. Tidied(p, Cleared(p))
  BY <1>1, UnusedListed, ClearedLists DEF Tidied
<1> QED
  BY <1>2, ClearedFields, QuietTidy DEF CollectRetired

LEMMA AbandonedCheckInv ==
  ASSUME TypeOK, TypeOK', IInv, NEW p \in Pages, AbandonedCheck(p)
  PROVE  IInv'
<1>1. CheckFree(p, page[p]) \in PageRecord /\ Tidied(p, CheckFree(p, page[p]))
  BY CheckFreeTidied DEF IInv
<1> QED
  BY <1>1, QuietTidy DEF AbandonedCheck

LEMMA CollectAbandonedInv ==
  ASSUME TypeOK, TypeOK', IInv, NEW p \in Pages, CollectAbandoned(p)
  PROVE  IInv'
<1> USE DEF IInv
<1> DEFINE r == CheckFree(p, page[p])
<1>0. /\ owner.pc = "acollect" /\ owner.list = {} /\ page[p].place = "abandoned"
      /\ owner.op \in Collecting /\ owner.cand = NoPage
      /\ page' = [page EXCEPT ![p] = r] /\ owner' = [owner EXCEPT !.seen = @ \cup {p}]
      /\ UNCHANGED <<thread_delayed_free, heaps, backing, live, remote>>
  BY DEF CollectAbandoned, Stages, Candidate, AbandonedPages
<1>1. r \in PageRecord /\ Tidied(p, r) /\ (r = Cleared(p) \/ r.place = "abandoned")
  BY <1>0, CheckFreeTidied
<1> HIDE DEF r
<1>2. /\ owner'.pc = "acollect" /\ owner'.list = {} /\ owner'.blk = owner.blk
      /\ owner'.op = owner.op /\ owner'.heap = owner.heap /\ owner'.cand = NoPage
  BY <1>0 DEF TypeOK, OwnerRecord
<1>3. Lists' /\ Placed' /\ Homes' /\ FreeingOne' /\ DelayedOwned' /\ Wakes'
  <2>1. \A h \in Heaps : ~Absorbing(h)
    BY <1>0 DEF Absorbing, Collecting, Forced
  <2> QED
    BY <1>0, <1>1, <1>2, <2>1, TidyStep
<1>4. OwnHeaps' /\ Stages' /\ Candidate'
  BY <1>0, <1>2 DEF OwnHeaps, Stages, Candidate
<1>5. Leaving'
  <2>1. p \notin HeapPages(owner.heap) /\ r.place \notin {"queue", "full"}
    BY <1>0, <1>1, ClearedFields DEF HeapPages
  <2>2. \A q \in Pages : page'[q] = IF q = p THEN r ELSE page[q]
    BY <1>0 DEF TypeOK
  <2>3. HeapPages(owner.heap)' = HeapPages(owner.heap)
    BY <1>2, <2>1, <2>2 DEF HeapPages
  <2> QED
    BY <1>0, <1>2, <2>2, <2>3 DEF Leaving
<1>6. Moving' /\ Forcing'
  BY <1>0, <1>2 DEF Moving, Forcing, Collecting, Forced
<1> QED
  BY <1>3, <1>4, <1>5, <1>6

LEMMA ForceAbandonInv ==
  ASSUME TypeOK, TypeOK', IInv, NEW p \in Pages, ForceAbandon(p)
  PROVE  IInv'
<1> USE DEF IInv
<1> DEFINE c == Collect(page[p], FALSE)
<1>0. /\ owner.pc = "idle" /\ owner.list = {} /\ owner.op = "none" /\ owner.blk = NoBlock
      /\ page[p].place = "full" /\ page[p].xheap \in heaps /\ page' = [page EXCEPT ![p] = c]
      /\ UNCHANGED <<thread_delayed_free, heaps, backing, live, remote>>
  BY DEF ForceAbandon, Stages, TypeOK, OwnerRecord
<1>1. c \in PageRecord /\ Tidied(p, c) /\ c.place = "full" /\ c.xheap = page[p].xheap
  BY <1>0, CollectTidied
<1>2. /\ owner'.pc = "fnever" /\ owner'.op = "fabandon" /\ owner'.page = p
      /\ owner'.heap = page[p].xheap /\ owner'.list = {} /\ owner'.blk = NoBlock
      /\ owner'.cand = NoPage
  BY IdleFields DEF ForceAbandon, OwnerRecord
<1>3. page'[p] = c
  BY <1>0 DEF TypeOK
<1> HIDE DEF c
<1>4. Lists' /\ Placed' /\ Homes' /\ FreeingOne' /\ DelayedOwned' /\ Wakes'
  <2>1. \A h \in Heaps : ~Absorbing(h)
    BY <1>0 DEF Absorbing
  <2> QED
    BY <1>0, <1>1, <1>2, <2>1, TidyStep
<1>5. OwnHeaps' /\ Stages' /\ Candidate'
  BY <1>0, <1>2 DEF OwnHeaps, Stages, Candidate
<1>6. Leaving' /\ Moving' /\ Forcing'
  BY <1>1, <1>2, <1>3 DEF Leaving, Moving, Forcing, InQueue
<1> QED
  BY <1>4, <1>5, <1>6

\* pa_heap_page_collect: the page is collected and freed, or, when its heap is
\* abandoned, given up; then it is in state NEVER and no delayed list refers to it.
LEMMA VisitPageInv ==
  ASSUME TypeOK, TypeOK', IInv, NEW p \in Pages, VisitPage(p)
  PROVE  IInv'
<1> USE DEF IInv
<1> DEFINE c == Collect(page[p], owner.op \in Forced)
           Given == c.used # 0 /\ owner.op \in {"abandon", "exit"}
           r == IF c.used = 0 THEN Cleared(p) ELSE IF Given THEN Abandoned(c) ELSE c
<1>0. /\ owner.pc = "visit" /\ owner.list = {} /\ owner.op \in Collecting
      /\ owner.blk = NoBlock /\ owner.cand = NoPage
      /\ p \in HeapPages(owner.heap)
      /\ owner' = [owner EXCEPT !.seen = @ \cup {p}]
      /\ UNCHANGED <<thread_delayed_free, heaps, backing, live, remote>>
  BY DEF VisitPage, Stages, Candidate, TypeOK, OwnerRecord
<1>1. /\ c \in PageRecord /\ Tidied(p, c)
      /\ c.used = 0 => Tidied(p, Cleared(p))
      /\ c.place = page[p].place /\ c.xheap = page[p].xheap
      /\ c.delayed = page[p].delayed /\ c.thread_free = {}
  <2>1. (owner.op \in Forced) \in BOOLEAN
    OBVIOUS
  <2> QED
    BY <2>1, CollectTidied
<1>2. page' = [page EXCEPT ![p] = r]
  BY DEF VisitPage
<1> HIDE DEF c
<1>3. /\ owner'.pc = "visit" /\ owner'.op = owner.op /\ owner'.heap = owner.heap
      /\ owner'.list = {} /\ owner'.blk = NoBlock /\ owner'.cand = NoPage
      /\ owner'.seen = owner.seen \cup {p} /\ owner'.page = owner.page
  BY <1>0 DEF TypeOK, OwnerRecord
<1>4. \A h \in Heaps : ~Absorbing(h)
  BY <1>0 DEF Absorbing, Collecting, Forced
<1>5. OwnHeaps' /\ Stages' /\ Candidate'
  BY <1>0, <1>3 DEF OwnHeaps, Stages, Candidate
<1>6. Moving' /\ Forcing'
  BY <1>0, <1>3 DEF Moving, Forcing, Collecting, Forced
<1>7. \A h \in Heaps : Absorbing(h) => Absorbing(h)'
  BY <1>4
<1>8. page[p].place \in {"queue", "full"} /\ page[p].xheap = owner.heap
  BY <1>0 DEF HeapPages
<1>9. CASE ~Given
  <2>1. /\ r \in PageRecord /\ Tidied(p, r)
        /\ c.used = 0 \/ r.xheap = page[p].xheap
    BY <1>1, <1>9, ClearedFields
  <2>2. Lists' /\ Placed' /\ Homes' /\ FreeingOne' /\ DelayedOwned' /\ Wakes'
    BY <1>0, <1>2, <1>3, <1>7, <2>1, TidyStep
  <2>3. Leaving'
    <3>1. SUFFICES ASSUME owner.op \in {"abandon", "exit"} PROVE Leaving'
      BY <1>3 DEF Leaving
    <3>2. r.place = "none"
      BY <1>9, <3>1, ClearedFields
    <3>3. \A q \in Pages : page'[q] = IF q = p THEN r ELSE page[q]
      BY <1>2 DEF TypeOK
    <3> QED
      BY <1>0, <1>3, <3>2, <3>3 DEF Leaving, HeapPages
  <2> QED
    BY <1>5, <1>6, <2>2, <2>3
<1>10. CASE Given
  <2>1. /\ r \in PageRecord /\ r.free = c.free /\ r.local_free = c.local_free
        /\ r.thread_free = c.thread_free /\ r.fresh = c.fresh /\ r.used = c.used
        /\ r.delayed = page[p].delayed /\ r.xheap = NoHeap /\ r.place = "abandoned"
    BY <1>1, <1>10 DEF Abandoned, PageRecord, Places
  <2>2. page[p].delayed = "NEVER" /\ thread_delayed_free[owner.heap] = {}
    BY <1>0, <1>10 DEF Leaving
  <2> HIDE DEF r
  <2>3. \A q \in Pages : page'[q] = IF q = p THEN r ELSE page[q]
    BY <1>2 DEF TypeOK
  <2>4. PageLists(p, r) /\ AllLists(r) = AllLists(page[p])
    BY <1>1, <2>1, SameLists DEF Tidied
  <2>5. Lists' /\ Placed'
    BY <1>0, <1>2, <1>3, <2>1, <2>4, PageStep
  <2>6. Homes'
    BY <1>0, <1>3, <1>8, <2>1, <2>2, <2>3 DEF Homes, InQueue, Reclaiming
  <2>7. \A b \in Blocks : OnDelayed(b)' <=> OnDelayed(b)
    BY <1>0, <1>3 DEF OnDelayed, Delayed_
  <2>8. FreeingOne'
    <3>1. \A t \in Remotes : InFreeing(t)' <=> InFreeing(t)
      BY <1>0 DEF InFreeing
    <3> QED
      BY <1>0, <2>1, <2>2, <2>3, <2>7, <3>1, FreeingFrame
  <2>9. DelayedOwned'
    <3>1. \A h \in Heaps : \A b \in thread_delayed_free[h] : PageOf[b] \in Pages /\ PageOf[b] # p
      <4>1. SUFFICES ASSUME NEW h \in Heaps, NEW b \in thread_delayed_free[h], PageOf[b] = p
                     PROVE  FALSE
        BY BlocksAssumption DEF TypeOK
      <4>2. page[p].xheap = h
        BY <1>4, <4>1 DEF DelayedOwned
      <4> QED
        BY <1>8, <2>2, <4>2
    <3>2. \A b \in Blocks : ~ByOwner(b)'
      BY <1>3, NullAssumption DEF ByOwner
    <3>3. \A h \in Heaps : \A b \in thread_delayed_free'[h] :
             /\ h \in heaps' /\ page'[PageOf[b]].xheap # NoHeap
             /\ page'[PageOf[b]].xheap = h \/ Absorbing(h)'
      BY <1>0, <1>4, <2>3, <3>1 DEF DelayedOwned
    <3> QED
      BY <3>2, <3>3 DEF DelayedOwned
  <2>10. Wakes'
    <3>1. \A q \in Pages : Waiting(q)' <=> Waiting(q)
      BY <2>7 DEF Waiting
    <3> QED
      BY <1>0, <1>3, <2>1, <2>2, <2>3, <3>1 DEF Wakes
  <2>11. Leaving'
    BY <1>0, <1>3, <2>1, <2>3 DEF Leaving, HeapPages
  <2> QED
    BY <1>5, <1>6, <2>5, <2>6, <2>8, <2>9, <2>10, <2>11
<1> QED
  BY <1>9, <1>10

-----------------------------------------------------------------------------
(* Steps of the owner that set the flag or the heap of a page.              *)

\* The flag of a page that is not in state FREEING is set by the owner.
LEMMA FlagStep ==
  ASSUME TypeOK, TypeOK', IInv, NEW p \in Pages, NEW d \in Delayed \ {"FREEING"},
         page[p].delayed # "FREEING", page' = [page EXCEPT ![p].delayed = d],
         UNCHANGED <<thread_delayed_free, heaps, backing, live, remote>>,
         owner.pc # "dfree", owner'.pc # "dfree",
         owner.list = {}, owner'.list = {}, owner'.blk = owner.blk,
         owner.pc = "appflag" => owner.page = p,
         \A h \in Heaps : Absorbing(h) => Absorbing(h)'
  PROVE  /\ Lists' /\ Placed' /\ FreeingOne' /\ DelayedOwned'
         /\ \A q \in Pages : q # p => page'[q] = page[q]
         /\ page'[p].delayed = d
         /\ \A q \in Pages :
              /\ page'[q].xheap = page[q].xheap /\ page'[q].place = page[q].place
              /\ page'[q].thread_free = page[q].thread_free
              /\ Freed(page'[q]) = Freed(page[q])
         /\ \A q \in Pages : Waiting(q)' <=> Waiting(q)
<1> USE DEF IInv
<1> DEFINE r == [page[p] EXCEPT !.delayed = d]
<1>1. /\ r \in PageRecord /\ r.free = page[p].free /\ r.local_free = page[p].local_free
      /\ r.thread_free = page[p].thread_free /\ r.fresh = page[p].fresh
      /\ r.used = page[p].used /\ r.xheap = page[p].xheap /\ r.place = page[p].place
      /\ r.delayed = d /\ page' = [page EXCEPT ![p] = r]
  BY DEF TypeOK, PageRecord
<1> HIDE DEF r
<1>2. \A q \in Pages : page'[q] = IF q = p THEN r ELSE page[q]
  BY <1>1 DEF TypeOK
<1>3. PageLists(p, r) /\ AllLists(r) = AllLists(page[p])
  BY <1>1, SameLists DEF TypeOK, Lists
<1>4. Lists' /\ Placed'
  BY <1>1, <1>3, PageStep
<1>5. \A b \in Blocks : OnDelayed(b)' <=> OnDelayed(b)
  BY DEF OnDelayed, Delayed_
<1>6. FreeingOne'
  <2>1. \A t \in Remotes : InFreeing(t)' <=> InFreeing(t)
    BY DEF InFreeing
  <2>2. /\ \A q \in Pages : page'[q].delayed = "FREEING" <=> page[q].delayed = "FREEING"
        /\ \A q \in Pages : page'[q].xheap = page[q].xheap
    BY <1>1, <1>2
  <2> QED
    BY <1>5, <2>1, <2>2, FreeingFrame
<1>7. DelayedOwned'
  <2>1. \A h \in Heaps : \A b \in thread_delayed_free[h] : PageOf[b] \in Pages
    BY BlocksAssumption DEF TypeOK
  <2>2. \A h \in Heaps : \A b \in thread_delayed_free'[h] :
           /\ h \in heaps' /\ page'[PageOf[b]].xheap # NoHeap
           /\ page'[PageOf[b]].xheap = h \/ Absorbing(h)'
    BY <1>1, <1>2, <2>1 DEF DelayedOwned
  <2>3. \A b \in Blocks : ~ByOwner(b)'
    BY DEF ByOwner, TypeOK
  <2> QED
    BY <2>2, <2>3 DEF DelayedOwned
<1>8. \A q \in Pages : Waiting(q)' <=> Waiting(q)
  BY <1>5 DEF Waiting
<1> QED
  BY <1>1, <1>2, <1>4, <1>6, <1>7, <1>8 DEF Freed

LEMMA NeverDelayedInv ==
  ASSUME TypeOK, TypeOK', IInv, NEW p \in Pages, NeverDelayed(p)
  PROVE  IInv'
<1> USE DEF IInv
<1>0. /\ owner.pc = "never" /\ owner.list = {} /\ page[p].delayed # "FREEING"
      /\ page[p].place \in {"queue", "full"}
      /\ page' = [page EXCEPT ![p].delayed = "NEVER"]
      /\ UNCHANGED <<thread_delayed_free, heaps, backing, live, remote, owner>>
  BY DEF NeverDelayed, Stages, HeapPages
<1>1. /\ Lists' /\ Placed' /\ FreeingOne' /\ DelayedOwned'
      /\ \A q \in Pages : q # p => page'[q] = page[q]
      /\ page'[p].delayed = "NEVER"
      /\ \A q \in Pages :
           /\ page'[q].xheap = page[q].xheap /\ page'[q].place = page[q].place
           /\ page'[q].thread_free = page[q].thread_free
           /\ Freed(page'[q]) = Freed(page[q])
      /\ \A q \in Pages : Waiting(q)' <=> Waiting(q)
  <2>1. \A h \in Heaps : Absorbing(h) => Absorbing(h)'
    BY <1>0 DEF Absorbing
  <2>2. "NEVER" \in Delayed \ {"FREEING"}
    BY DEF Delayed
  <2> QED
    BY <1>0, <2>1, <2>2, FlagStep
<1>2. Homes'
  BY <1>0, <1>1 DEF Homes, InQueue, Reclaiming
<1>3. OwnHeaps' /\ Stages' /\ Moving' /\ Forcing'
  BY <1>0 DEF OwnHeaps, Stages, Moving, Forcing
<1>4. Candidate'
  BY <1>0 DEF Candidate
<1>5. Leaving'
  BY <1>0 DEF Leaving
<1>6. Wakes'
  BY <1>0, <1>1 DEF Wakes, Freed
<1> QED
  BY <1>1, <1>2, <1>3, <1>4, <1>5, <1>6

LEMMA AppendFlagInv ==
  ASSUME TypeOK, TypeOK', IInv, AppendFlag
  PROVE  IInv'
<1> USE DEF IInv
<1> DEFINE p == owner.page
           d == IF page[p].delayed = "NEVER" THEN "NEVER" ELSE "USE"
<1>0. /\ owner.pc = "appflag" /\ owner.list = {} /\ owner.op = "absorb" /\ p \in Pages
      /\ page[p].delayed # "FREEING" /\ page[p].place \in {"queue", "full"}
      /\ owner.cand = NoPage
      /\ UNCHANGED <<thread_delayed_free, heaps, backing, live, remote>>
  BY DEF AppendFlag, Stages, Moving, InQueue, TypeOK, WithPage, Candidate
<1>1. page' = [page EXCEPT ![p].delayed = d]
  BY DEF AppendFlag, UseDelayed
<1>2. /\ owner'.pc = "append" /\ owner'.op = owner.op /\ owner'.heap = owner.heap
      /\ owner'.list = {} /\ owner'.blk = owner.blk /\ owner'.cand = NoPage
  BY <1>0 DEF AppendFlag, TypeOK, OwnerRecord
<1> HIDE DEF p
<1>3. d \in Delayed \ {"FREEING"}
  BY DEF Delayed
<1> HIDE DEF d
<1>4. /\ Lists' /\ Placed' /\ FreeingOne' /\ DelayedOwned'
      /\ \A q \in Pages : q # p => page'[q] = page[q]
      /\ page'[p].delayed = d
      /\ \A q \in Pages :
           /\ page'[q].xheap = page[q].xheap /\ page'[q].place = page[q].place
           /\ page'[q].thread_free = page[q].thread_free
           /\ Freed(page'[q]) = Freed(page[q])
      /\ \A q \in Pages : Waiting(q)' <=> Waiting(q)
  <2>1. \A h \in Heaps : Absorbing(h) => Absorbing(h)'
    BY <1>2 DEF Absorbing
  <2> QED
    BY <1>0, <1>1, <1>2, <1>3, <2>1, FlagStep DEF p
<1>5. Homes'
  BY <1>0, <1>2, <1>4 DEF Homes, InQueue, Reclaiming
<1>6. OwnHeaps' /\ Stages' /\ Moving' /\ Forcing' /\ Leaving' /\ Candidate'
  BY <1>0, <1>2 DEF OwnHeaps, Stages, Moving, Forcing, Leaving, Candidate
<1>7. Wakes'
  <2>1. page[p].delayed \in {"USE", "NO", "NEVER"}
    BY <1>0 DEF TypeOK, PageRecord, Delayed
  <2> QED
    BY <1>0, <1>2, <1>4, <2>1 DEF Wakes, Freed, d
<1> QED
  BY <1>4, <1>5, <1>6, <1>7

LEMMA ReclaimFlagInv ==
  ASSUME TypeOK, TypeOK', IInv, ReclaimFlag
  PROVE  IInv'
<1> USE DEF IInv
<1> DEFINE p == owner.page
<1>0. /\ owner.pc = "rflag" /\ owner.list = {} /\ p \in Pages
      /\ owner.op \in {"malloc", "retry", "reclaim"} /\ owner.cand = NoPage
      /\ page[p].delayed # "FREEING" /\ page[p].place = "abandoned"
      /\ UNCHANGED <<thread_delayed_free, heaps, backing, live, remote>>
  BY DEF ReclaimFlag, Stages, Homes, Reclaiming, TypeOK, WithPage, Candidate
<1>1. page' = [page EXCEPT ![p].delayed = "USE"]
  BY DEF ReclaimFlag
<1>2. /\ owner'.pc = "rcollect" /\ owner'.op = owner.op /\ owner'.heap = owner.heap
      /\ owner'.list = {} /\ owner'.blk = owner.blk /\ owner'.cand = NoPage /\ owner'.page = p
  BY <1>0 DEF ReclaimFlag, Goto, TypeOK, OwnerRecord
<1> HIDE DEF p
<1>3. /\ Lists' /\ Placed' /\ FreeingOne' /\ DelayedOwned'
      /\ \A q \in Pages : q # p => page'[q] = page[q]
      /\ page'[p].delayed = "USE"
      /\ \A q \in Pages :
           /\ page'[q].xheap = page[q].xheap /\ page'[q].place = page[q].place
           /\ page'[q].thread_free = page[q].thread_free
           /\ Freed(page'[q]) = Freed(page[q])
      /\ \A q \in Pages : Waiting(q)' <=> Waiting(q)
  <2>1. \A h \in Heaps : Absorbing(h) => Absorbing(h)'
    BY <1>2 DEF Absorbing
  <2>2. "USE" \in Delayed \ {"FREEING"}
    BY DEF Delayed
  <2> QED
    BY <1>0, <1>1, <1>2, <2>1, <2>2, FlagStep
<1>4. Homes'
  BY <1>0, <1>2, <1>3 DEF Homes, InQueue, Reclaiming, p
<1>5. OwnHeaps' /\ Stages' /\ Moving' /\ Forcing' /\ Leaving' /\ Candidate'
  BY <1>0, <1>2 DEF OwnHeaps, Stages, Moving, Forcing, Leaving, Candidate
<1>6. Wakes'
  BY <1>0, <1>2, <1>3 DEF Wakes, Freed
<1> QED
  BY <1>3, <1>4, <1>5, <1>6

LEMMA ForceAbandonNeverInv ==
  ASSUME TypeOK, TypeOK', IInv, ForceAbandonNever
  PROVE  IInv'
<1> USE DEF IInv
<1> DEFINE p == owner.page
<1>0. /\ owner.pc = "fnever" /\ owner.list = {} /\ p \in Pages
      /\ owner.op = "fabandon" /\ owner.cand = NoPage
      /\ page[p].delayed # "FREEING" /\ page[p].place \in {"queue", "full"}
      /\ page[p].xheap = owner.heap
      /\ UNCHANGED <<thread_delayed_free, heaps, backing, live, remote>>
  BY DEF ForceAbandonNever, Stages, Forcing, InQueue, TypeOK, WithPage, Candidate
<1>1. page' = [page EXCEPT ![p].delayed = "NEVER"]
  BY DEF ForceAbandonNever
<1>2. /\ owner'.pc = "take" /\ owner'.op = owner.op /\ owner'.heap = owner.heap
      /\ owner'.list = {} /\ owner'.blk = owner.blk /\ owner'.cand = NoPage /\ owner'.page = p
  BY <1>0 DEF ForceAbandonNever, Goto, TypeOK, OwnerRecord
<1> HIDE DEF p
<1>3. /\ Lists' /\ Placed' /\ FreeingOne' /\ DelayedOwned'
      /\ \A q \in Pages : q # p => page'[q] = page[q]
      /\ page'[p].delayed = "NEVER"
      /\ \A q \in Pages :
           /\ page'[q].xheap = page[q].xheap /\ page'[q].place = page[q].place
           /\ page'[q].thread_free = page[q].thread_free
           /\ Freed(page'[q]) = Freed(page[q])
      /\ \A q \in Pages : Waiting(q)' <=> Waiting(q)
  <2>1. \A h \in Heaps : Absorbing(h) => Absorbing(h)'
    BY <1>2 DEF Absorbing
  <2>2. "NEVER" \in Delayed \ {"FREEING"}
    BY DEF Delayed
  <2> QED
    BY <1>0, <1>1, <1>2, <2>1, <2>2, FlagStep
<1>4. Homes'
  BY <1>0, <1>2, <1>3 DEF Homes, InQueue, Reclaiming
<1>5. OwnHeaps' /\ Stages' /\ Moving' /\ Leaving' /\ Candidate'
  BY <1>0, <1>2 DEF OwnHeaps, Stages, Moving, Leaving, Candidate
<1>6. Forcing'
  BY <1>0, <1>2, <1>3 DEF Forcing
<1>7. Wakes'
  BY <1>0, <1>2, <1>3 DEF Wakes, Freed
<1> QED
  BY <1>3, <1>4, <1>5, <1>6, <1>7

\* A page gets another heap: its lists, its flag and its queue stay.
LEMMA HeapStep ==
  ASSUME TypeOK, TypeOK', IInv, NEW p \in Pages, NEW h \in Heaps,
         page' = [page EXCEPT ![p].xheap = h],
         UNCHANGED <<thread_delayed_free, heaps, backing, live, remote>>,
         owner.pc \notin {"dfree", "rcollect"}, owner'.pc \notin {"dfree", "rcollect"},
         owner'.list = owner.list, owner'.blk = owner.blk
  PROVE  /\ Lists' /\ Placed' /\ Wakes'
         /\ \A q \in Pages :
              /\ page'[q].delayed = page[q].delayed /\ page'[q].place = page[q].place
              /\ page'[q].xheap = IF q = p THEN h ELSE page[q].xheap
         /\ \A q \in Pages : q # p => page'[q] = page[q]
         /\ \A b \in Blocks : OnDelayed(b)' <=> OnDelayed(b)
<1> USE DEF IInv
<1> DEFINE r == [page[p] EXCEPT !.xheap = h]
<1>1. /\ r \in PageRecord /\ r.free = page[p].free /\ r.local_free = page[p].local_free
      /\ r.thread_free = page[p].thread_free /\ r.fresh = page[p].fresh
      /\ r.used = page[p].used /\ r.delayed = page[p].delayed /\ r.place = page[p].place
      /\ r.xheap = h /\ page' = [page EXCEPT ![p] = r]
  BY DEF TypeOK, PageRecord
<1> HIDE DEF r
<1>2. \A q \in Pages : page'[q] = IF q = p THEN r ELSE page[q]
  BY <1>1 DEF TypeOK
<1>3. PageLists(p, r) /\ AllLists(r) = AllLists(page[p])
  BY <1>1, SameLists DEF TypeOK, Lists
<1>4. Lists' /\ Placed'
  BY <1>1, <1>3, PageStep
<1>5. \A b \in Blocks : OnDelayed(b)' <=> OnDelayed(b)
  BY DEF OnDelayed, Delayed_
<1>6. \A q \in Pages : Waiting(q)' <=> Waiting(q)
  BY <1>5 DEF Waiting
<1>7. Wakes'
  BY <1>1, <1>2, <1>6 DEF Wakes
<1> QED
  BY <1>1, <1>2, <1>4, <1>5, <1>7

LEMMA AppendHeapInv ==
  ASSUME TypeOK, TypeOK', IInv, NEW p \in Pages, AppendHeap(p)
  PROVE  IInv'
<1> USE DEF IInv
<1>0. /\ owner.pc = "append" /\ owner.op = "absorb" /\ owner.list = {} /\ owner.blk = NoBlock
      /\ owner.cand = NoPage /\ backing \in Heaps /\ backing \in heaps
      /\ page[p].place \in {"queue", "full"} /\ page[p].xheap = owner.heap
      /\ page' = [page EXCEPT ![p].xheap = backing]
      /\ UNCHANGED <<thread_delayed_free, heaps, backing, live, remote>>
  BY DEF AppendHeap, HeapPages, Stages, Candidate, OwnHeaps, TypeOK, OwnerRecord
<1>1. /\ owner'.pc = "appflag" /\ owner'.op = "absorb" /\ owner'.heap = owner.heap
      /\ owner'.list = {} /\ owner'.blk = NoBlock /\ owner'.cand = NoPage /\ owner'.page = p
  BY <1>0 DEF AppendHeap, TypeOK, OwnerRecord
<1>2. /\ Lists' /\ Placed' /\ Wakes'
      /\ \A q \in Pages :
           /\ page'[q].delayed = page[q].delayed /\ page'[q].place = page[q].place
           /\ page'[q].xheap = IF q = p THEN backing ELSE page[q].xheap
      /\ \A q \in Pages : q # p => page'[q] = page[q]
      /\ \A b \in Blocks : OnDelayed(b)' <=> OnDelayed(b)
  BY <1>0, <1>1, HeapStep
<1>3. Homes'
  BY <1>0, <1>1, <1>2, NullAssumption DEF Homes, InQueue, Reclaiming
<1>4. OwnHeaps' /\ Stages' /\ Candidate' /\ Leaving' /\ Forcing'
  BY <1>0, <1>1 DEF OwnHeaps, Stages, Candidate, Leaving, Forcing
<1>5. Moving'
  BY <1>0, <1>1, <1>2 DEF Moving, InQueue
<1>6. FreeingOne'
  <2>1. \A t \in Remotes : InFreeing(t)' <=> InFreeing(t)
    BY <1>0 DEF InFreeing
  <2>2. \A t \in Remotes : InFreeing(t) => PageOf[remote[t].blk] \in Pages /\ remote[t].blk \in Blocks
    BY BlocksAssumption DEF InFreeing, TypeOK
  <2>3. \A t \in Remotes : InFreeing(t)' => page'[PageOf[remote'[t].blk]].delayed = "FREEING"
    BY <1>0, <1>2, <2>1, <2>2 DEF FreeingOne
  <2>4. \A t, u \in Remotes :
           InFreeing(t)' /\ InFreeing(u)' /\ PageOf[remote'[t].blk] = PageOf[remote'[u].blk] => t = u
    BY <1>0, <2>1 DEF FreeingOne
  <2>5. \A q \in Pages : page'[q].delayed = "FREEING" =>
           page'[q].xheap # NoHeap /\ \E t \in Remotes : InFreeing(t)' /\ PageOf[remote'[t].blk] = q
    BY <1>0, <1>2, <2>1, NullAssumption DEF FreeingOne
  <2>6. \A t \in Remotes : remote'[t].pc = "reset" =>
           remote'[t].blk \in owner'.list \/ \E h \in Heaps : remote'[t].blk \in thread_delayed_free'[h]
    BY <1>0, <1>1 DEF FreeingOne, Delayed_
  <2>7. \A t \in Remotes : remote'[t].pc = "delay" =>
           \/ remote'[t].heap = page'[PageOf[remote'[t].blk]].xheap
           \/ /\ owner'.pc = "appflag" /\ owner'.page = PageOf[remote'[t].blk]
              /\ remote'[t].heap = owner'.heap
    <3>1. SUFFICES ASSUME NEW t \in Remotes, remote[t].pc = "delay"
                   PROVE  \/ remote[t].heap = page'[PageOf[remote[t].blk]].xheap
                          \/ PageOf[remote[t].blk] = p /\ remote[t].heap = owner.heap
      BY <1>0, <1>1
    <3>2. remote[t].heap = page[PageOf[remote[t].blk]].xheap /\ PageOf[remote[t].blk] \in Pages
      BY <1>0, <2>2, <3>1 DEF FreeingOne, InFreeing
    <3> QED
      BY <1>0, <1>2, <3>2
  <2> QED
    BY <2>3, <2>4, <2>5, <2>6, <2>7 DEF FreeingOne, Delayed_
<1>7. DelayedOwned'
  <2>1. Absorbing(owner.heap) /\ \A h \in Heaps : Absorbing(h) => Absorbing(h)'
    BY <1>0, <1>1 DEF Absorbing
  <2>2. \A h \in Heaps : \A b \in thread_delayed_free[h] : PageOf[b] \in Pages
    BY BlocksAssumption DEF TypeOK
  <2>3. \A h \in Heaps : \A b \in thread_delayed_free'[h] :
           /\ h \in heaps' /\ page'[PageOf[b]].xheap # NoHeap
           /\ page'[PageOf[b]].xheap = h \/ Absorbing(h)'
    BY <1>0, <1>2, <2>1, <2>2, NullAssumption DEF DelayedOwned
  <2>4. \A b \in Blocks : ~ByOwner(b)'
    BY <1>1, NullAssumption DEF ByOwner
  <2> QED
    BY <2>3, <2>4 DEF DelayedOwned
<1> QED
  BY <1>2, <1>3, <1>4, <1>5, <1>6, <1>7

LEMMA ReclaimInv ==
  ASSUME TypeOK, TypeOK', IInv, NEW p \in Pages, NEW h \in Heaps, Reclaim(p, h)
  PROVE  IInv'
<1> USE DEF IInv
<1>0. /\ owner.pc \in {"idle", "find"} /\ owner.op \in {"none", "malloc", "retry"}
      /\ owner.list = {} /\ owner.blk = NoBlock
      /\ owner.cand = NoPage /\ h \in heaps
      /\ page[p].place = "abandoned"
      /\ page' = [page EXCEPT ![p].xheap = h]
      /\ UNCHANGED <<thread_delayed_free, heaps, backing, live, remote>>
  BY DEF Reclaim, NothingFound, Stages, Candidate, TypeOK, OwnerRecord
<1>1. /\ owner'.pc = "rflag" /\ owner'.op \in {"malloc", "retry", "reclaim"}
      /\ owner'.op # "reclaim" => owner'.op = owner.op
      /\ owner'.heap = owner.heap /\ owner'.list = {} /\ owner'.blk = NoBlock
      /\ owner'.cand = NoPage /\ owner'.page = p
  <2>1. CASE owner.op = "none"
    <3>1. owner' = [owner EXCEPT !.pc = "rflag", !.page = p, !.op = "reclaim"]
      BY <2>1 DEF Reclaim, TypeOK, OwnerRecord
    <3> QED
      BY <1>0, <3>1 DEF TypeOK, OwnerRecord
  <2>2. CASE owner.op # "none"
    <3>1. owner' = [owner EXCEPT !.pc = "rflag", !.page = p, !.op = owner.op]
      BY <2>2 DEF Reclaim
    <3> QED
      BY <1>0, <2>2, <3>1 DEF TypeOK, OwnerRecord
  <2> QED
    BY <2>1, <2>2
<1>2. /\ Lists' /\ Placed' /\ Wakes'
      /\ \A q \in Pages :
           /\ page'[q].delayed = page[q].delayed /\ page'[q].place = page[q].place
           /\ page'[q].xheap = IF q = p THEN h ELSE page[q].xheap
      /\ \A q \in Pages : q # p => page'[q] = page[q]
      /\ \A b \in Blocks : OnDelayed(b)' <=> OnDelayed(b)
  BY <1>0, <1>1, HeapStep
<1>3. page[p].xheap = NoHeap /\ page[p].delayed = "NEVER"
  BY <1>0 DEF Homes, InQueue, Reclaiming
<1>4. Homes'
  BY <1>0, <1>1, <1>2, <1>3, NullAssumption DEF Homes, InQueue, Reclaiming
<1>5. OwnHeaps' /\ Stages' /\ Candidate' /\ Leaving' /\ Moving' /\ Forcing'
  BY <1>0, <1>1 DEF OwnHeaps, Stages, Candidate, Leaving, Moving, Forcing
<1>6. FreeingOne'
  <2>1. \A t \in Remotes : InFreeing(t)' <=> InFreeing(t)
    BY <1>0 DEF InFreeing
  <2> QED
    BY <1>0, <1>2, <1>3, <2>1, FreeingFrame
<1>7. DelayedOwned'
  <2>1. \A g \in Heaps : ~Absorbing(g)
    BY <1>0 DEF Absorbing
  <2>2. \A g \in Heaps : \A b \in thread_delayed_free[g] : PageOf[b] \in Pages
    BY BlocksAssumption DEF TypeOK
  <2>3. \A g \in Heaps : \A b \in thread_delayed_free'[g] :
           /\ g \in heaps' /\ page'[PageOf[b]].xheap # NoHeap
           /\ page'[PageOf[b]].xheap = g \/ Absorbing(g)'
    BY <1>0, <1>2, <1>3, <2>1, <2>2 DEF DelayedOwned
  <2>4. \A b \in Blocks : ~ByOwner(b)'
    BY <1>1, NullAssumption DEF ByOwner
  <2> QED
    BY <2>3, <2>4 DEF DelayedOwned
<1> QED
  BY <1>2, <1>4, <1>5, <1>6, <1>7

-----------------------------------------------------------------------------
(* Pages that are freed, queued or given up at the end of a call.           *)

\* The owner, with no block at hand, frees a page without used blocks, keeps it in
\* its heap, or takes a page away from its heap that no delayed list refers to.
LEMMA LeaveStep ==
  ASSUME TypeOK, TypeOK', IInv, NEW p \in Pages, NEW r \in PageRecord,
         page' = [page EXCEPT ![p] = r], PageLists(p, r), AllLists(r) = AllLists(page[p]),
         \/ r = Cleared(p)
         \/ r.delayed = page[p].delayed /\ r.xheap = page[p].xheap
         \/ /\ r.delayed = page[p].delayed /\ r.delayed # "FREEING"
            /\ \A h \in Heaps : \A b \in thread_delayed_free[h] : PageOf[b] # p,
         UNCHANGED <<thread_delayed_free, heaps, backing, live, remote>>,
         owner.pc # "appflag", owner.list = {}, owner'.list = {},
         owner.blk = NoBlock, owner'.blk = NoBlock, \A h \in Heaps : ~Absorbing(h)
  PROVE  /\ Lists' /\ Placed' /\ FreeingOne' /\ DelayedOwned'
         /\ \A q \in Pages : Waiting(q)' <=> Waiting(q)
         /\ r = Cleared(p) => ~Waiting(p)
<1> USE DEF IInv
<1>1. \A q \in Pages : page'[q] = IF q = p THEN r ELSE page[q]
  BY DEF TypeOK
<1>2. Lists' /\ Placed'
  BY PageStep
<1>3. \A b \in Blocks : OnDelayed(b)' <=> OnDelayed(b)
  BY DEF OnDelayed, Delayed_
<1>4. \A q \in Pages : Waiting(q)' <=> Waiting(q)
  BY <1>3 DEF Waiting
<1>5. r = Cleared(p) => /\ page[p].delayed # "FREEING" /\ ~Waiting(p)
                        /\ \A h \in Heaps : \A b \in thread_delayed_free[h] : PageOf[b] # p
  <2>1. SUFFICES ASSUME r = Cleared(p)
                 PROVE  /\ page[p].delayed # "FREEING" /\ ~Waiting(p)
                        /\ \A h \in Heaps : \A b \in thread_delayed_free[h] : PageOf[b] # p
    OBVIOUS
  <2>2. AllLists(page[p]) = BlocksOf(p)
    BY <2>1, ClearedLists
  <2> QED
    BY <2>2, EmptyPage DEF TypeOK, BlocksOf, Delayed_
<1>6. FreeingOne'
  <2>1. \A t \in Remotes : InFreeing(t)' <=> InFreeing(t)
    BY DEF InFreeing
  <2>2. /\ \A q \in Pages : page'[q].delayed = "FREEING" <=> page[q].delayed = "FREEING"
        /\ \A q \in Pages : page[q].delayed = "FREEING" => page'[q].xheap = page[q].xheap
    BY <1>1, <1>5, ClearedFields
  <2> QED
    BY <1>3, <2>1, <2>2, FreeingFrame
<1>7. DelayedOwned'
  <2>1. \A h \in Heaps : \A b \in thread_delayed_free[h] :
           /\ PageOf[b] \in Pages
           /\ PageOf[b] = p => r.xheap = page[p].xheap
    BY <1>5, BlocksAssumption DEF TypeOK
  <2>2. \A h \in Heaps : \A b \in thread_delayed_free'[h] :
           /\ h \in heaps' /\ page'[PageOf[b]].xheap # NoHeap
           /\ page'[PageOf[b]].xheap = h \/ Absorbing(h)'
    BY <1>1, <2>1 DEF DelayedOwned
  <2>3. \A b \in Blocks : ~ByOwner(b)'
    BY NullAssumption DEF ByOwner
  <2> QED
    BY <2>2, <2>3 DEF DelayedOwned
<1> QED
  BY <1>2, <1>4, <1>5, <1>6, <1>7

\* A reclaimed page is freed, or is in a queue of the heap that reclaimed it.
LEMMA ReclaimCollectInv ==
  ASSUME TypeOK, TypeOK', IInv, ReclaimCollect
  PROVE  IInv'
<1> USE DEF IInv
<1> DEFINE p == owner.page
           c == Collect(page[p], FALSE)
           r == IF c.used = 0 THEN Cleared(p) ELSE ToQueue(c)
<1>0. /\ owner.pc = "rcollect" /\ owner.list = {} /\ owner.blk = NoBlock /\ p \in Pages
      /\ owner.op \in {"malloc", "retry", "reclaim"} /\ owner.cand = NoPage
      /\ page[p].place = "abandoned" /\ page[p].xheap # NoHeap /\ page[p].xheap \in heaps
      /\ page' = [page EXCEPT ![p] = r]
      /\ UNCHANGED <<thread_delayed_free, heaps, backing, live, remote>>
  BY DEF ReclaimCollect, Stages, Homes, Reclaiming, TypeOK, OwnerRecord, WithPage, Candidate
<1>1. /\ owner'.pc \in {"idle", "find"} /\ owner'.list = {} /\ owner'.blk = NoBlock
      /\ owner'.cand = NoPage
      /\ \/ owner'.op = "none" /\ owner'.pc = "idle"
         \/ owner'.op \in {"malloc", "retry"} /\ owner'.op = owner.op /\ owner'.pc = "find"
              /\ owner'.heap = owner.heap
  <2>1. CASE owner.op = "reclaim"
    BY <2>1, IdleFields DEF ReclaimCollect
  <2>2. CASE owner.op # "reclaim"
    <3>1. owner' = [owner EXCEPT !.pc = "find", !.page = NoPage, !.seen = {}]
      BY <2>2 DEF ReclaimCollect
    <3> QED
      BY <1>0, <2>2, <3>1 DEF TypeOK, OwnerRecord
  <2> QED
    BY <2>1, <2>2
<1>2. \A q \in Pages : Reclaiming(q) <=> q = p
  BY <1>0 DEF Reclaiming
<1>3. \A h \in Heaps : ~Absorbing(h)
  BY <1>0 DEF Absorbing
<1> HIDE DEF p
<1>4. /\ c \in PageRecord /\ Tidied(p, c)
      /\ c.used = 0 => Tidied(p, Cleared(p))
      /\ c.xheap = page[p].xheap /\ c.delayed = page[p].delayed /\ c.thread_free = {}
  BY <1>0, CollectTidied
<1> HIDE DEF c
<1>5. /\ r \in PageRecord /\ PageLists(p, r) /\ AllLists(r) = AllLists(page[p])
      /\ \/ r = Cleared(p)
         \/ /\ r.delayed = page[p].delayed /\ r.xheap = page[p].xheap
            /\ r.place = "queue" /\ r.thread_free = {}
  <2>1. CASE c.used = 0
    BY <1>0, <1>4, <2>1, ClearedFields DEF Tidied
  <2>2. CASE c.used # 0
    BY <1>0, <1>4, <2>2, MoveFields, SameLists DEF Tidied
  <2> QED
    BY <2>1, <2>2
<1> HIDE DEF r
<1>6. /\ Lists' /\ Placed' /\ FreeingOne' /\ DelayedOwned'
      /\ \A q \in Pages : Waiting(q)' <=> Waiting(q)
      /\ r = Cleared(p) => ~Waiting(p)
  BY <1>0, <1>1, <1>3, <1>5, LeaveStep
<1>7. \A q \in Pages : page'[q] = IF q = p THEN r ELSE page[q]
  BY <1>0 DEF TypeOK
<1>8. Homes'
  <2>1. \A q \in Pages : ~Reclaiming(q)'
    BY <1>1 DEF Reclaiming
  <2>2. \A q \in Pages : q # p => page'[q] = page[q] /\ ~Reclaiming(q)
    BY <1>2, <1>7
  <2> QED
    BY <1>0, <1>2, <1>5, <1>7, <2>1, <2>2, ClearedFields DEF Homes, InQueue, p
<1>9. Wakes'
  BY <1>0, <1>1, <1>5, <1>6, <1>7, ClearedFields DEF Wakes, p
<1>10. OwnHeaps' /\ Stages' /\ Candidate' /\ Leaving' /\ Moving' /\ Forcing'
  BY <1>0, <1>1 DEF OwnHeaps, Stages, Candidate, Leaving, Moving, Forcing
<1> QED
  BY <1>6, <1>8, <1>9, <1>10

\* pa_segment_force_abandon gives the page up when no delayed list refers to it.
LEMMA ForceAbandonDoneInv ==
  ASSUME TypeOK, TypeOK', IInv, ForceAbandonDone
  PROVE  IInv'
<1> USE DEF IInv
<1> DEFINE p == owner.page
           r == IF page[p].place = "none" THEN page[p]
                ELSE IF page[p].used = 0 THEN Cleared(p) ELSE Abandoned(page[p])
<1>0. /\ owner.pc = "fend" /\ owner.list = {} /\ owner.blk = NoBlock /\ p \in Pages
      /\ owner.op = "fabandon" /\ owner' = Idle /\ page[p] \in PageRecord
      /\ page[p].place = "none" \/ page[p].delayed = "NEVER"
      /\ \A h \in Heaps : \A b \in thread_delayed_free[h] : PageOf[b] # p
      /\ UNCHANGED <<thread_delayed_free, heaps, backing, live, remote>>
  BY DEF ForceAbandonDone, Stages, Forcing, TypeOK, OwnerRecord
<1>1. page' = [page EXCEPT ![p] = r]
  BY DEF ForceAbandonDone
<1>2. /\ owner'.pc = "idle" /\ owner'.op = "none" /\ owner'.list = {}
      /\ owner'.blk = NoBlock /\ owner'.cand = NoPage
  BY <1>0, IdleFields
<1>3. \A h \in Heaps : ~Absorbing(h)
  BY <1>0 DEF Absorbing
<1>4. (\A q \in Pages : ~Reclaiming(q)) /\ \A q \in Pages : ~Reclaiming(q)'
  BY <1>0, <1>2 DEF Reclaiming
<1> HIDE DEF p
<1>5. /\ r \in PageRecord /\ PageLists(p, r) /\ AllLists(r) = AllLists(page[p])
      /\ \/ r = Cleared(p)
         \/ /\ r.delayed = page[p].delayed /\ r.delayed # "FREEING"
            /\ r.place = "abandoned" /\ r.xheap = NoHeap /\ r.delayed = "NEVER"
  <2>1. PageLists(p, page[p])
    BY <1>0 DEF Lists
  <2>2. CASE page[p].place = "none"
    BY <1>0, <2>1, <2>2 DEF Homes
  <2>3. CASE page[p].place # "none" /\ page[p].used = 0
    BY <1>0, <2>1, <2>3, ClearedFields, ClearedLists, UnusedListed
  <2>4. CASE page[p].place # "none" /\ page[p].used # 0
    <3>1. /\ Abandoned(page[p]) \in PageRecord
          /\ \A a \in {Abandoned(page[p])} :
               /\ a.free = page[p].free /\ a.local_free = page[p].local_free
               /\ a.thread_free = page[p].thread_free /\ a.fresh = page[p].fresh
               /\ a.used = page[p].used /\ a.delayed = page[p].delayed
               /\ a.xheap = NoHeap /\ a.place = "abandoned"
      BY <1>0 DEF Abandoned, PageRecord, Places
    <3> QED
      BY <1>0, <2>1, <2>4, <3>1, SameLists
  <2> QED
    BY <2>2, <2>3, <2>4
<1> HIDE DEF r
<1>6. /\ Lists' /\ Placed' /\ FreeingOne' /\ DelayedOwned'
      /\ \A q \in Pages : Waiting(q)' <=> Waiting(q)
      /\ r = Cleared(p) => ~Waiting(p)
  BY <1>0, <1>1, <1>2, <1>3, <1>5, LeaveStep
<1>7. \A q \in Pages : page'[q] = IF q = p THEN r ELSE page[q]
  BY <1>1 DEF TypeOK
<1>8. Homes'
  BY <1>0, <1>2, <1>4, <1>5, <1>7, ClearedFields DEF Homes, InQueue
<1>9. Wakes'
  BY <1>0, <1>2, <1>5, <1>6, <1>7, ClearedFields DEF Wakes
<1>10. OwnHeaps' /\ Stages' /\ Candidate' /\ Leaving' /\ Moving' /\ Forcing'
  BY <1>0, <1>2 DEF OwnHeaps, Stages, Candidate, Leaving, Moving, Forcing
<1> QED
  BY <1>6, <1>8, <1>9, <1>10

-----------------------------------------------------------------------------
(* A block is given to the client.                                          *)

\* What the tail of _pa_malloc_generic leaves of a page: the block is off its lists,
\* and the page is moved to the full queue only without a free block.
LEMMA TakenLists ==
  ASSUME NEW p \in Pages, NEW pg \in PageRecord, PageLists(p, pg),
         NEW S \in SUBSET pg.fresh, NEW b \in pg.free \cup S
  PROVE  LET got == Pop(Extend(pg, S), b)
             r == IF got.used = Cardinality(BlocksOf(p)) THEN ToFull(got) ELSE got
         IN /\ r \in PageRecord /\ PageLists(p, r)
            /\ b \in AllLists(pg) /\ AllLists(r) = AllLists(pg) \ {b}
            /\ r.delayed = pg.delayed /\ r.xheap = pg.xheap
            /\ r.thread_free = pg.thread_free
            /\ \/ r.place = pg.place
               \/ r.place = "full" /\ r.free = {} /\ r.local_free = {}
<1> DEFINE e == Extend(pg, S)
           got == Pop(e, b)
           full == got.used = Cardinality(BlocksOf(p))
           r == IF full THEN ToFull(got) ELSE got
           Goal == /\ r \in PageRecord /\ PageLists(p, r)
                   /\ b \in AllLists(pg) /\ AllLists(r) = AllLists(pg) \ {b}
                   /\ r.delayed = pg.delayed /\ r.xheap = pg.xheap
                   /\ r.thread_free = pg.thread_free
                   /\ \/ r.place = pg.place
                      \/ r.place = "full" /\ r.free = {} /\ r.local_free = {}
<1> SUFFICES Goal
  OBVIOUS
<1>0. S \in SUBSET Blocks
  BY DEF PageRecord
<1>1. /\ e \in PageRecord /\ e.free = pg.free \cup S
      /\ e.delayed = pg.delayed /\ e.xheap = pg.xheap /\ e.place = pg.place
      /\ e.thread_free = pg.thread_free
  BY <1>0, ExtendFields
<1>2. PageLists(p, e) /\ AllLists(e) = AllLists(pg)
  BY ExtendLists
<1> HIDE DEF e
<1>3. /\ got \in PageRecord /\ got.delayed = e.delayed /\ got.xheap = e.xheap
      /\ got.place = e.place /\ got.thread_free = e.thread_free
  BY <1>1, PopFields
<1>4. PageLists(p, got) /\ AllLists(got) = AllLists(e) \ {b} /\ b \in AllLists(e)
  BY <1>1, <1>2, PopLists DEF AllLists
<1> HIDE DEF got
<1>5. CASE full
  <2>1. UsedBlocks(p, got) \subseteq BlocksOf(p) /\ IsFiniteSet(BlocksOf(p))
    BY FiniteBlocks DEF UsedBlocks, BlocksOf
  <2>2. Cardinality(UsedBlocks(p, got)) = Cardinality(BlocksOf(p))
    BY <1>4, <1>5 DEF PageLists
  <2>3. UsedBlocks(p, got) = BlocksOf(p)
    BY <2>1, <2>2, FS_Subset
  <2>4. got.free = {} /\ got.local_free = {}
    BY <1>4, <2>3 DEF UsedBlocks, PageLists, AllLists
  <2>5. /\ r \in PageRecord /\ r.free = got.free /\ r.local_free = got.local_free
        /\ r.thread_free = got.thread_free /\ r.fresh = got.fresh /\ r.used = got.used
        /\ r.delayed = got.delayed /\ r.xheap = got.xheap /\ r.place = "full"
    BY <1>3, <1>5, MoveFields
  <2> HIDE DEF r
  <2>6. PageLists(p, r) /\ AllLists(r) = AllLists(got)
    BY <1>3, <1>4, <2>5, SameLists
  <2> QED
    BY <1>1, <1>2, <1>3, <1>4, <2>4, <2>5, <2>6
<1>6. CASE ~full
  BY <1>1, <1>2, <1>3, <1>4, <1>6
<1> QED
  BY <1>5, <1>6

\* A block of a page of a heap goes from the lists of the page to the client.
LEMMA TakeStep ==
  ASSUME TypeOK, TypeOK', IInv, NEW p \in Pages, NEW r \in PageRecord, NEW b \in Blocks,
         page' = [page EXCEPT ![p] = r], PageLists(p, r),
         PageOf[b] = p, b \in AllLists(page[p]), AllLists(r) = AllLists(page[p]) \ {b},
         r.delayed = page[p].delayed, r.thread_free = page[p].thread_free,
         r.xheap = page[p].xheap \/ page[p].xheap = NoHeap,
         \/ r.place = "queue"
         \/ r.place = "full" /\ r.free = {} /\ r.local_free = {},
         live' = live \cup {b},
         UNCHANGED <<thread_delayed_free, heaps, backing, remote>>,
         owner.pc \notin {"appflag", "dfree", "rcollect"},
         owner'.pc \notin {"appflag", "dfree", "rcollect"},
         owner.list = {}, owner'.list = {},
         owner.blk = NoBlock, owner'.blk = NoBlock, \A h \in Heaps : ~Absorbing(h)
  PROVE  Lists' /\ Placed' /\ FreeingOne' /\ DelayedOwned' /\ Wakes'
<1> USE DEF IInv
<1>1. \A q \in Pages : page'[q] = IF q = p THEN r ELSE page[q]
  BY DEF TypeOK
<1>2. Lists'
  BY ListsStep
<1>3. Placed'
  <2>1. \A c \in Blocks : Listed(c)' <=> Listed(c) /\ c # b
    BY <1>1, BlocksAssumption DEF Listed
  <2>2. \A c \in Blocks : ~ByOwner(c) /\ ~ByOwner(c)'
    BY NullAssumption DEF ByOwner
  <2>3. \A c \in Blocks, h \in Heaps : Delayed_(c, h)' <=> Delayed_(c, h)
    BY DEF Delayed_
  <2>4. \A u \in Remotes, c \in Blocks : Held(u, c)' <=> Held(u, c)
    BY DEF Held
  <2>5. Listed(b) /\ b \notin live
    BY DEF Listed, Placed
  <2>6. /\ \A h \in Heaps : ~Delayed_(b, h)
        /\ \A u \in Remotes : ~Held(u, b)
    BY <2>5 DEF Placed
  <2> QED
    BY <2>1, <2>2, <2>3, <2>4, <2>5, <2>6 DEF Placed
<1>4. \A c \in Blocks : OnDelayed(c)' <=> OnDelayed(c)
  BY DEF OnDelayed, Delayed_
<1>5. FreeingOne'
  <2>1. \A t \in Remotes : InFreeing(t)' <=> InFreeing(t)
    BY DEF InFreeing
  <2>2. /\ \A q \in Pages : page'[q].delayed = "FREEING" <=> page[q].delayed = "FREEING"
        /\ \A q \in Pages : page[q].delayed = "FREEING" => page'[q].xheap = page[q].xheap
    BY <1>1 DEF FreeingOne
  <2> QED
    BY <1>4, <2>1, <2>2, FreeingFrame
<1>6. DelayedOwned'
  <2>1. \A h \in Heaps : \A c \in thread_delayed_free[h] : PageOf[c] \in Pages
    BY BlocksAssumption DEF TypeOK
  <2>2. \A h \in Heaps : \A c \in thread_delayed_free'[h] :
           /\ h \in heaps' /\ page'[PageOf[c]].xheap # NoHeap
           /\ page'[PageOf[c]].xheap = h \/ Absorbing(h)'
    BY <1>1, <2>1 DEF DelayedOwned
  <2>3. \A c \in Blocks : ~ByOwner(c)'
    BY NullAssumption DEF ByOwner
  <2> QED
    BY <2>2, <2>3 DEF DelayedOwned
<1>7. Wakes'
  <2>1. \A q \in Pages : Waiting(q)' <=> Waiting(q)
    BY <1>4 DEF Waiting
  <2>2. page[p].delayed \in {"USE", "FREEING", "NO", "NEVER"}
    BY DEF TypeOK, PageRecord, Delayed
  <2> QED
    BY <1>1, <2>1, <2>2 DEF Wakes
<1> QED
  BY <1>2, <1>3, <1>5, <1>6, <1>7

LEMMA MallocFastInv ==
  ASSUME TypeOK, TypeOK', IInv, NEW h \in Heaps, NEW p \in Pages, NEW b \in Blocks,
         MallocFast(h, p, b)
  PROVE  IInv'
<1> USE DEF IInv
<1> DEFINE r == Pop(page[p], b)
<1>0. /\ owner.pc = "idle" /\ owner.op = "none" /\ owner.list = {} /\ owner.blk = NoBlock
      /\ page[p].place = "queue" /\ b \in page[p].free /\ live' = live \cup {b}
      /\ page[p] \in PageRecord /\ PageLists(p, page[p]) /\ page' = [page EXCEPT ![p] = r]
      /\ UNCHANGED <<thread_delayed_free, heaps, backing, remote, owner>>
  BY DEF MallocFast, QueuePages, Stages, Lists, TypeOK, OwnerRecord
<1>1. /\ r \in PageRecord /\ r.delayed = page[p].delayed /\ r.xheap = page[p].xheap
      /\ r.place = "queue" /\ r.thread_free = page[p].thread_free
  BY <1>0, PopFields
<1>2. PageLists(p, r) /\ AllLists(r) = AllLists(page[p]) \ {b}
  BY <1>0, PopLists
<1> HIDE DEF r
<1>3. b \in AllLists(page[p]) /\ PageOf[b] = p
  BY <1>0 DEF AllLists, PageLists, BlocksOf
<1>4. \A g \in Heaps : ~Absorbing(g)
  BY <1>0 DEF Absorbing
<1>5. Lists' /\ Placed' /\ FreeingOne' /\ DelayedOwned' /\ Wakes'
  BY <1>0, <1>1, <1>2, <1>3, <1>4, TakeStep
<1>6. Homes'
  <2>1. \A q \in Pages : page'[q] = IF q = p THEN r ELSE page[q]
    BY <1>0 DEF TypeOK
  <2> QED
    BY <1>0, <1>1, <2>1 DEF Homes, InQueue, Reclaiming, Cleared, BlocksOf
<1>7. OwnHeaps' /\ Stages' /\ Candidate' /\ Leaving' /\ Moving' /\ Forcing'
  BY <1>0 DEF OwnHeaps, Stages, Candidate, Leaving, Moving, Forcing
<1> QED
  BY <1>5, <1>6, <1>7

\* The tail of _pa_malloc_generic, for the candidate or for a fresh page.
LEMMA TakeBlockInv ==
  ASSUME TypeOK, TypeOK', IInv, NEW p \in Pages, NEW pg \in PageRecord,
         NEW S \in SUBSET pg.fresh, NEW b \in pg.free \cup S,
         TakeBlock(p, Extend(pg, S), b), owner.pc \in {"find", "pick"},
         PageLists(p, pg), AllLists(pg) = AllLists(page[p]), pg.place = "queue",
         pg.delayed = page[p].delayed, pg.thread_free = page[p].thread_free,
         pg.xheap = page[p].xheap \/ page[p].xheap = NoHeap,
         pg.xheap \in heaps, pg.xheap # NoHeap
  PROVE  IInv'
<1> USE DEF IInv
<1> DEFINE got == Pop(Extend(pg, S), b)
           full == got.used = Cardinality(BlocksOf(p))
           r == IF full THEN ToFull(got) ELSE got
<1>0. /\ owner.op \in {"malloc", "retry"} /\ owner.list = {} /\ owner.blk = NoBlock
      /\ live' = live \cup {b} /\ page' = [page EXCEPT ![p] = r]
      /\ UNCHANGED <<thread_delayed_free, heaps, backing, remote>>
  BY DEF TakeBlock, Stages, TypeOK, OwnerRecord
<1>1. /\ owner'.pc \in {"idle", "filled"} /\ owner'.op = "none" /\ owner'.list = {}
      /\ owner'.blk = NoBlock /\ owner'.cand = NoPage
  <2>1. owner' = Idle \/ owner' = [Idle EXCEPT !.pc = "filled", !.page = p]
    BY DEF TakeBlock
  <2> QED
    BY <2>1, IdleFields DEF OwnerRecord
<1>2. /\ r \in PageRecord /\ PageLists(p, r)
      /\ b \in AllLists(pg) /\ AllLists(r) = AllLists(pg) \ {b}
      /\ r.delayed = pg.delayed /\ r.xheap = pg.xheap
      /\ r.thread_free = pg.thread_free
      /\ \/ r.place = pg.place
         \/ r.place = "full" /\ r.free = {} /\ r.local_free = {}
  BY TakenLists
<1> HIDE DEF r
<1>3. b \in Blocks /\ PageOf[b] = p
  BY <1>2 DEF PageLists, BlocksOf
<1>4. \A g \in Heaps : ~Absorbing(g)
  BY <1>0 DEF Absorbing
<1>5. Lists' /\ Placed' /\ FreeingOne' /\ DelayedOwned' /\ Wakes'
  BY <1>0, <1>1, <1>2, <1>3, <1>4, TakeStep
<1>6. Homes'
  <2>1. \A q \in Pages : page'[q] = IF q = p THEN r ELSE page[q]
    BY <1>0 DEF TypeOK
  <2>2. \A q \in Pages : ~Reclaiming(q) /\ ~Reclaiming(q)'
    BY <1>1 DEF Reclaiming
  <2> QED
    BY <1>0, <1>1, <1>2, <2>1, <2>2 DEF Homes, InQueue
<1>7. OwnHeaps' /\ Stages' /\ Candidate' /\ Leaving' /\ Moving' /\ Forcing'
  BY <1>0, <1>1 DEF OwnHeaps, Stages, Candidate, Leaving, Moving, Forcing
<1> QED
  BY <1>5, <1>6, <1>7

LEMMA MallocFoundInv ==
  ASSUME TypeOK, TypeOK', IInv, MallocFound
  PROVE  IInv'
<1> USE DEF IInv
<1> DEFINE p == owner.cand
<1>0. /\ owner.pc \in {"find", "pick"} /\ p \in Pages /\ page[p].place = "queue"
      /\ page[p] \in PageRecord /\ PageLists(p, page[p])
  BY DEF MallocFound, Candidate, Lists, TypeOK, OwnerRecord
<1>1. page[p].xheap \in heaps /\ page[p].xheap # NoHeap
  BY <1>0 DEF Homes, InQueue
<1>2. PICK S \in Extensions(page[p]) : \E b \in page[p].free \cup S :
        TakeBlock(p, Extend(page[p], S), b)
  BY DEF MallocFound
<1>3. PICK b \in page[p].free \cup S : TakeBlock(p, Extend(page[p], S), b)
  BY <1>2
<1>4. S \in SUBSET page[p].fresh
  BY DEF Extensions
<1> HIDE DEF p
<1> QED
  BY <1>0, <1>1, <1>3, <1>4, TakeBlockInv

LEMMA MallocFreshInv ==
  ASSUME TypeOK, TypeOK', IInv, NEW p \in Pages, MallocFresh(p)
  PROVE  IInv'
<1> USE DEF IInv
<1> DEFINE pg == InitPage(page[p], owner.heap)
<1>0. /\ owner.pc = "find" /\ owner.op \in {"malloc", "retry"} /\ page[p].place = "none"
      /\ page[p] \in PageRecord /\ PageLists(p, page[p]) /\ owner.heap \in heaps
      /\ owner.heap \in Heaps /\ page[p] = Cleared(p)
  BY DEF MallocFresh, NothingFound, Stages, OwnHeaps, Homes, Lists, TypeOK
<1>1. /\ pg \in PageRecord /\ pg.free = page[p].free /\ pg.local_free = page[p].local_free
      /\ pg.thread_free = page[p].thread_free /\ pg.fresh = page[p].fresh
      /\ pg.used = page[p].used /\ pg.delayed = page[p].delayed
      /\ pg.xheap = owner.heap /\ pg.place = "queue"
  BY <1>0 DEF InitPage, PageRecord, Places
<1>2. PICK S \in Extensions(pg) : \E b \in S : TakeBlock(p, Extend(pg, S), b)
  BY DEF MallocFresh
<1>3. PICK b \in S : TakeBlock(p, Extend(pg, S), b)
  BY <1>2
<1> HIDE DEF pg
<1>4. PageLists(p, pg) /\ AllLists(pg) = AllLists(page[p])
  BY <1>0, <1>1, SameLists
<1>5. page[p].xheap = NoHeap /\ pg.xheap # NoHeap
  BY <1>0, <1>1, ClearedFields, NullAssumption
<1>6. S \in SUBSET pg.fresh /\ b \in pg.free \cup S
  BY <1>3 DEF Extensions
<1> QED
  BY <1>0, <1>1, <1>3, <1>4, <1>5, <1>6, TakeBlockInv

-----------------------------------------------------------------------------
(* A block is returned to its page by the owner.                            *)

\* A page that is freed with its last block had no other block out.
LEMMA LastBlock ==
  ASSUME TypeOK, Placed, FreeingOne, NEW p \in Pages, NEW b \in BlocksOf(p),
         BlocksOf(p) = AllLists(page[p]) \cup {b},
         \A h \in Heaps : ~Delayed_(b, h), b \notin owner.list,
         \A t \in Remotes : ~Held(t, b)
  PROVE  /\ page[p].delayed # "FREEING" /\ ~Waiting(p)
         /\ \A c \in Blocks : PageOf[c] = p => ~OnDelayed(c)
<1>1. \A c \in Blocks : PageOf[c] = p => c = b \/ Listed(c)
  BY DEF BlocksOf, Listed
<1>2. \A c \in Blocks : PageOf[c] = p => ~OnDelayed(c) /\ \A t \in Remotes : ~Held(t, c)
  <2>1. \A c \in Blocks : Listed(c) => ~OnDelayed(c) /\ \A t \in Remotes : ~Held(t, c)
    BY DEF Placed, OnDelayed, ByOwner
  <2> QED
    BY <1>1, <2>1 DEF OnDelayed
<1>3. ASSUME NEW t \in Remotes, InFreeing(t), PageOf[remote[t].blk] = p PROVE FALSE
  <2>1. remote[t].blk \in Blocks
    BY <1>3 DEF TypeOK, InFreeing
  <2>2. Held(t, remote[t].blk) \/ OnDelayed(remote[t].blk)
    BY <1>3 DEF FreeingOne, InFreeing, Held, OnDelayed
  <2> QED
    BY <1>2, <1>3, <2>1, <2>2
<1> QED
  BY <1>2, <1>3 DEF FreeingOne, Waiting

\* A block of the client, or the one that the owner took from a delayed list, goes
\* to the lists of its page.
LEMMA ReturnStep ==
  ASSUME TypeOK, TypeOK', IInv, NEW p \in Pages, NEW r \in PageRecord, NEW b \in Blocks,
         PageOf[b] = p, page' = [page EXCEPT ![p] = r], PageLists(p, r),
         AllLists(r) = AllLists(page[p]) \cup {b},
         r = Cleared(p) \/ (r.delayed = page[p].delayed /\ r.xheap = page[p].xheap),
         \/ b \in live /\ live' = live \ {b} /\ owner.blk = NoBlock
         \/ b = owner.blk /\ live' = live,
         owner'.blk = NoBlock, owner'.list = owner.list, owner'.op = owner.op,
         owner'.heap = owner.heap, owner.pc # "appflag",
         UNCHANGED <<thread_delayed_free, heaps, backing, remote>>
  PROVE  /\ Lists' /\ Placed' /\ FreeingOne' /\ DelayedOwned'
         /\ \A q \in Pages : Waiting(q)' <=> Waiting(q)
         /\ r = Cleared(p) => ~Waiting(p)
<1> USE DEF IInv
<1>1. \A q \in Pages : page'[q] = IF q = p THEN r ELSE page[q]
  BY DEF TypeOK
<1>2. Lists'
  BY ListsStep
<1>3. /\ \A h \in Heaps : ~Delayed_(b, h)
      /\ \A t \in Remotes : ~Held(t, b)
      /\ b \notin owner.list /\ ~Listed(b)
  BY NullAssumption DEF Placed, ByOwner
<1>4. Placed'
  <2>1. \A c \in Blocks : Listed(c)' <=> Listed(c) \/ c = b
    BY <1>1, BlocksAssumption DEF Listed
  <2>2. \A c \in Blocks : ByOwner(c)' <=> ByOwner(c) /\ c # b
    BY <1>3, NullAssumption DEF ByOwner
  <2>3. \A c \in Blocks, h \in Heaps : Delayed_(c, h)' <=> Delayed_(c, h)
    BY DEF Delayed_
  <2>4. \A u \in Remotes, c \in Blocks : Held(u, c)' <=> Held(u, c)
    BY DEF Held
  <2>5. \A c \in Blocks : c \in live' <=> c \in live /\ c # b
    BY DEF Placed, ByOwner
  <2>6. \A c \in Blocks : c \in owner'.list => c # owner'.blk
    BY NullAssumption
  <2> QED
    BY <1>3, <2>1, <2>2, <2>3, <2>4, <2>5, <2>6 DEF Placed
<1>5. \A c \in Blocks : OnDelayed(c)' <=> OnDelayed(c)
  BY DEF OnDelayed, Delayed_
<1>6. \A q \in Pages : Waiting(q)' <=> Waiting(q)
  BY <1>5 DEF Waiting
<1>7. r = Cleared(p) => /\ page[p].delayed # "FREEING" /\ ~Waiting(p)
                        /\ \A c \in Blocks : PageOf[c] = p => ~OnDelayed(c)
  <2>1. SUFFICES ASSUME r = Cleared(p)
                 PROVE  /\ page[p].delayed # "FREEING" /\ ~Waiting(p)
                        /\ \A c \in Blocks : PageOf[c] = p => ~OnDelayed(c)
    OBVIOUS
  <2>2. b \in BlocksOf(p) /\ BlocksOf(p) = AllLists(page[p]) \cup {b}
    BY <2>1, ClearedLists DEF BlocksOf
  <2> QED
    BY <1>3, <2>2, LastBlock
<1>8. FreeingOne'
  <2>1. \A t \in Remotes : InFreeing(t)' <=> InFreeing(t)
    BY DEF InFreeing
  <2>2. /\ \A q \in Pages : page'[q].delayed = "FREEING" <=> page[q].delayed = "FREEING"
        /\ \A q \in Pages : page[q].delayed = "FREEING" => page'[q].xheap = page[q].xheap
    BY <1>1, <1>7, ClearedFields
  <2> QED
    BY <1>5, <2>1, <2>2, FreeingFrame
<1>9. DelayedOwned'
  <2>1. \A c \in Blocks : PageOf[c] \in Pages
    BY BlocksAssumption
  <2>2. \A c \in Blocks : OnDelayed(c) => page'[PageOf[c]].xheap = page[PageOf[c]].xheap
    BY <1>1, <1>7, <2>1
  <2>3. \A h \in Heaps : Absorbing(h)' <=> Absorbing(h)
    BY DEF Absorbing
  <2>4. \A h \in Heaps : \A c \in thread_delayed_free'[h] :
           /\ h \in heaps' /\ page'[PageOf[c]].xheap # NoHeap
           /\ page'[PageOf[c]].xheap = h \/ Absorbing(h)'
    <3>1. \A h \in Heaps : \A c \in thread_delayed_free[h] : c \in Blocks /\ OnDelayed(c)
      BY DEF TypeOK, OnDelayed, Delayed_
    <3> QED
      BY <2>2, <2>3, <3>1 DEF DelayedOwned
  <2>5. \A c \in Blocks : ByOwner(c)' =>
           /\ page'[PageOf[c]].xheap # NoHeap
           /\ page'[PageOf[c]].xheap = owner'.heap \/ Absorbing(owner.heap)
    <3>1. SUFFICES ASSUME NEW c \in Blocks, c \in owner.list
                   PROVE  /\ page'[PageOf[c]].xheap # NoHeap
                          /\ page'[PageOf[c]].xheap = owner.heap \/ Absorbing(owner.heap)
      BY NullAssumption DEF ByOwner
    <3>2. OnDelayed(c) /\ ByOwner(c)
      BY <3>1 DEF OnDelayed, ByOwner
    <3> QED
      BY <2>2, <3>2 DEF DelayedOwned
  <2>6. Absorbing(owner.heap) => owner'.op \in {"absorb", "absorbed"}
    BY DEF Absorbing
  <2> QED
    BY <2>4, <2>5, <2>6 DEF DelayedOwned, Absorbing
<1> QED
  BY <1>2, <1>4, <1>6, <1>7, <1>8, <1>9

LEMMA OwnerFreeInv ==
  ASSUME TypeOK, TypeOK', IInv, NEW b \in Blocks, OwnerFree(b)
  PROVE  IInv'
<1> USE DEF IInv
<1> DEFINE p == PageOf[b]
           r == FreeLocal(p, page[p], b)
<1>0. /\ owner.pc = "idle" /\ owner.op = "none" /\ owner.list = {} /\ owner.blk = NoBlock
      /\ p \in Pages /\ page[p].place \in {"queue", "full"}
      /\ b \in live /\ live' = live \ {b}
      /\ page[p] \in PageRecord /\ PageLists(p, page[p]) /\ page' = [page EXCEPT ![p] = r]
      /\ UNCHANGED <<thread_delayed_free, heaps, backing, remote, owner>>
  BY BlocksAssumption DEF OwnerFree, Stages, Lists, TypeOK, OwnerRecord
<1>1. b \in BlocksOf(p) /\ b \notin AllLists(page[p])
  BY <1>0 DEF BlocksOf, Placed, Listed
<1>2. /\ r \in PageRecord
      /\ \/ r = Cleared(p)
         \/ /\ r.delayed = page[p].delayed /\ r.xheap = page[p].xheap /\ r.place = "queue"
            /\ r.thread_free = {} \/ r.thread_free = page[p].thread_free
  BY <1>0, FreeLocalFields
<1>3. PageLists(p, r) /\ AllLists(r) = AllLists(page[p]) \cup {b}
  BY <1>0, <1>1, FreeLocalLists
<1> HIDE DEF r, p
<1>4. p = PageOf[b]
  BY DEF p
<1>5. /\ Lists' /\ Placed' /\ FreeingOne' /\ DelayedOwned'
      /\ \A q \in Pages : Waiting(q)' <=> Waiting(q)
      /\ r = Cleared(p) => ~Waiting(p)
  BY <1>0, <1>2, <1>3, <1>4, ReturnStep
<1>6. \A q \in Pages : page'[q] = IF q = p THEN r ELSE page[q]
  BY <1>0 DEF TypeOK
<1>7. Homes'
  <2>1. \A q \in Pages : ~Reclaiming(q) /\ ~Reclaiming(q)'
    BY <1>0 DEF Reclaiming
  <2> QED
    BY <1>0, <1>2, <1>6, <2>1, ClearedFields DEF Homes, InQueue
<1>8. Wakes'
  BY <1>0, <1>2, <1>5, <1>6, ClearedFields DEF Wakes
<1>9. OwnHeaps' /\ Stages' /\ Candidate' /\ Leaving' /\ Moving' /\ Forcing'
  BY <1>0 DEF OwnHeaps, Stages, Candidate, Leaving, Moving, Forcing
<1> QED
  BY <1>5, <1>7, <1>8, <1>9

\* The rest of _pa_free_delayed_block: the page is collected, and leaves the full queue.
LEMMA DelayedFreeInv ==
  ASSUME TypeOK, TypeOK', IInv, DelayedFree
  PROVE  IInv'
<1> USE DEF IInv
<1> DEFINE b == owner.blk
           p == PageOf[b]
           c == Collect(page[p], FALSE)
           r == FreeLocal(p, c, b)
<1>0. /\ owner.pc = "dfree" /\ b \in Blocks /\ p \in Pages /\ owner.cand = NoPage
      /\ owner.op \notin {"none", "reclaim"}
      /\ page' = [page EXCEPT ![p] = r]
      /\ UNCHANGED <<thread_delayed_free, heaps, backing, live, remote>>
  BY BlocksAssumption DEF DelayedFree, TypeOK, Candidate
<1>1. /\ owner'.pc = "dloop" /\ owner'.blk = NoBlock /\ owner'.list = owner.list
      /\ owner'.op = owner.op /\ owner'.heap = owner.heap /\ owner'.cand = NoPage
      /\ owner'.page = owner.page /\ owner'.seen = owner.seen /\ owner'.all = owner.all
  BY <1>0 DEF DelayedFree, TypeOK, OwnerRecord
<1>2. b \in BlocksOf(p) /\ b \notin AllLists(page[p]) /\ page[p].place \in {"queue", "full"}
  <2>1. ByOwner(b)
    BY DEF ByOwner
  <2>2. page[p].xheap # NoHeap /\ ~Reclaiming(p)
    BY <1>0, <2>1 DEF DelayedOwned, Reclaiming
  <2> QED
    BY <1>0, <2>1, <2>2 DEF BlocksOf, Placed, Listed, Homes, InQueue
<1>3. /\ c \in PageRecord /\ Tidied(p, c)
      /\ c.place = page[p].place /\ c.xheap = page[p].xheap
      /\ c.delayed = page[p].delayed /\ c.thread_free = {}
  BY <1>0, CollectTidied
<1>4. PageLists(p, c) /\ AllLists(c) = AllLists(page[p])
  BY <1>3 DEF Tidied
<1> HIDE DEF c
<1>5. /\ r \in PageRecord
      /\ \/ r = Cleared(p)
         \/ /\ r.delayed = page[p].delayed /\ r.xheap = page[p].xheap /\ r.place = "queue"
            /\ r.thread_free = {}
  BY <1>0, <1>2, <1>3, FreeLocalFields
<1>6. PageLists(p, r) /\ AllLists(r) = AllLists(page[p]) \cup {b}
  BY <1>0, <1>2, <1>3, <1>4, FreeLocalLists
<1>7. b = owner.blk /\ p = PageOf[b]
  OBVIOUS
<1> HIDE DEF r, p, b
<1>8. /\ Lists' /\ Placed' /\ FreeingOne' /\ DelayedOwned'
      /\ \A q \in Pages : Waiting(q)' <=> Waiting(q)
      /\ r = Cleared(p) => ~Waiting(p)
  BY <1>0, <1>1, <1>5, <1>6, <1>7, ReturnStep
<1>9. \A q \in Pages : page'[q] = IF q = p THEN r ELSE page[q]
  BY <1>0 DEF TypeOK
<1>10. Homes'
  <2>1. \A q \in Pages : ~Reclaiming(q) /\ ~Reclaiming(q)'
    BY <1>0, <1>1 DEF Reclaiming
  <2> QED
    BY <1>0, <1>1, <1>2, <1>5, <1>9, <2>1, ClearedFields DEF Homes, InQueue
<1>11. Wakes'
  BY <1>0, <1>1, <1>5, <1>7, <1>8, <1>9, ClearedFields DEF Wakes
<1>12. OwnHeaps' /\ Stages' /\ Candidate'
  BY <1>0, <1>1 DEF OwnHeaps, Stages, Candidate
<1>13. Leaving' /\ Moving'
  <2>1. \A q \in Pages : page'[q].place \in {"queue", "full"} => page'[q].delayed = page[q].delayed
    BY <1>5, <1>9, ClearedFields
  <2>2. \A q \in HeapPages(owner.heap)' : page'[q].delayed = page[q].delayed
    BY <1>1, <2>1 DEF HeapPages
  <2>3. HeapPages(owner.heap)' \subseteq HeapPages(owner.heap)
    BY <1>1, <1>2, <1>5, <1>9, ClearedFields DEF HeapPages
  <2>4. Leaving'
    BY <1>0, <1>1, <2>2, <2>3 DEF Leaving
  <2>5. Moving'
    BY <1>0, <1>1, <2>3 DEF Moving
  <2> QED
    BY <2>4, <2>5
<1>14. Forcing'
  BY <1>0, <1>1, <1>2, <1>5, <1>9, ClearedFields DEF Forcing, TypeOK
<1> QED
  BY <1>8, <1>10, <1>11, <1>12, <1>13, <1>14

-----------------------------------------------------------------------------
(* The delayed list of a heap.                                              *)

\* The whole list is taken over in one swap.
LEMMA DelayedTakeInv ==
  ASSUME TypeOK, TypeOK', IInv, DelayedTake
  PROVE  IInv'
<1> USE DEF IInv
<1> DEFINE h == owner.heap
<1>0. /\ owner.pc = "take" /\ owner.list = {} /\ owner.blk = NoBlock /\ owner.cand = NoPage
      /\ owner.op \notin {"none", "reclaim"} /\ h \in Heaps /\ h \in heaps
      /\ UNCHANGED <<page, heaps, backing, live, remote>>
  BY DEF DelayedTake, Stages, Candidate, OwnHeaps, TypeOK, OwnerRecord
<1>1. \A g \in Heaps : thread_delayed_free'[g] = IF g = h THEN {} ELSE thread_delayed_free[g]
  BY DEF DelayedTake, TypeOK
<1>2. /\ owner'.pc = "dloop" /\ owner'.blk = NoBlock /\ owner'.list = thread_delayed_free[h]
      /\ owner'.op = owner.op /\ owner'.heap = owner.heap /\ owner'.cand = NoPage
      /\ owner'.page = owner.page /\ owner'.seen = owner.seen
  BY <1>0 DEF DelayedTake, TypeOK, OwnerRecord
<1>3. h = owner.heap
  OBVIOUS
<1> HIDE DEF h
<1>4. Lists'
  BY <1>0 DEF Lists, PageLists, UsedBlocks, AllLists, BlocksOf
<1>5. /\ \A c \in Blocks : ~ByOwner(c)
      /\ \A c \in Blocks : ByOwner(c)' <=> Delayed_(c, h)
  BY <1>0, <1>2, NullAssumption DEF ByOwner, Delayed_
<1>6. \A c \in Blocks, g \in Heaps : Delayed_(c, g)' <=> Delayed_(c, g) /\ g # h
  BY <1>1 DEF Delayed_
<1>7. Placed'
  <2>1. \A c \in Blocks : Listed(c)' <=> Listed(c)
    BY <1>0 DEF Listed
  <2>2. \A u \in Remotes, c \in Blocks : Held(u, c)' <=> Held(u, c)
    BY <1>0 DEF Held
  <2>3. \A c \in Blocks : c \in owner'.list => c # owner'.blk
    BY <1>2, NullAssumption
  <2>4. \A c \in Blocks : c \in live' <=> c \in live
    BY <1>0
  <2> QED
    BY <1>0, <1>5, <1>6, <2>1, <2>2, <2>3, <2>4 DEF Placed
<1>8. \A c \in Blocks : OnDelayed(c)' <=> OnDelayed(c)
  BY <1>0, <1>1, <1>2 DEF OnDelayed, Delayed_
<1>9. FreeingOne'
  <2>1. \A t \in Remotes : InFreeing(t)' <=> InFreeing(t)
    BY <1>0 DEF InFreeing
  <2> QED
    BY <1>0, <1>8, <2>1, FreeingFrame
<1>10. \A g \in Heaps : Absorbing(g)' <=> Absorbing(g)
  BY <1>2 DEF Absorbing
<1>11. DelayedOwned'
  <2>1. \A g \in Heaps : \A c \in thread_delayed_free'[g] :
           /\ g \in heaps' /\ page'[PageOf[c]].xheap # NoHeap
           /\ page'[PageOf[c]].xheap = g \/ Absorbing(g)'
    BY <1>0, <1>1, <1>10 DEF DelayedOwned
  <2>2. \A c \in Blocks : ByOwner(c)' =>
           /\ page'[PageOf[c]].xheap # NoHeap
           /\ page'[PageOf[c]].xheap = owner'.heap \/ Absorbing(owner.heap)
    BY <1>0, <1>2, <1>3, <1>5 DEF DelayedOwned, Delayed_
  <2>3. Absorbing(owner.heap) => owner'.op \in {"absorb", "absorbed"}
    BY <1>2 DEF Absorbing
  <2> QED
    BY <2>1, <2>2, <2>3 DEF DelayedOwned, Absorbing
<1>12. Homes' /\ OwnHeaps' /\ Stages' /\ Candidate'
  BY <1>0, <1>2 DEF Homes, InQueue, Reclaiming, Cleared, BlocksOf, OwnHeaps, Stages, Candidate
<1>13. Wakes'
  <2>1. \A q \in Pages : Waiting(q)' <=> Waiting(q)
    BY <1>8 DEF Waiting
  <2> QED
    BY <1>0, <1>2, <2>1 DEF Wakes
<1>14. Leaving' /\ Moving'
  <2>1. HeapPages(owner.heap)' = HeapPages(owner.heap)
    BY <1>0, <1>2 DEF HeapPages
  <2>2. thread_delayed_free'[owner'.heap] = {}
    BY <1>0, <1>1, <1>2, <1>3
  <2>3. Leaving'
    BY <1>0, <1>2, <2>1, <2>2 DEF Leaving
  <2>4. Moving'
    BY <1>0, <1>2, <2>1, <2>2 DEF Moving
  <2> QED
    BY <2>3, <2>4
<1>15. Forcing'
  <2>1. SUFFICES ASSUME owner.op = "fabandon" PROVE Forcing'
    BY <1>2 DEF Forcing
  <2>2. \A g \in Heaps : ~Absorbing(g)
    BY <2>1 DEF Absorbing
  <2>3. owner.page \in Pages
    BY <2>1 DEF TypeOK
  <2>4. page[owner.page].xheap \in {h, NoHeap}
    BY <1>3, <2>1, <2>3, ClearedFields DEF Forcing, Homes
  <2>5. \A g \in Heaps : \A c \in thread_delayed_free'[g] : PageOf[c] # owner.page
    BY <1>1, <2>2, <2>4 DEF DelayedOwned
  <2> QED
    BY <1>0, <1>2, <2>1, <2>5 DEF Forcing
<1> QED
  BY <1>4, <1>7, <1>9, <1>11, <1>12, <1>13, <1>14, <1>15

\* What the owner knows of a block on the list that it has taken.
LEMMA ListedByOwner ==
  ASSUME TypeOK, IInv, owner.pc = "dloop", NEW b \in owner.list
  PROVE  /\ b \in Blocks /\ PageOf[b] \in Pages /\ owner.blk = NoBlock
         /\ owner.op \notin {"none", "reclaim"} /\ owner.heap \in Heaps /\ owner.heap \in heaps
         /\ page[PageOf[b]].place \in {"queue", "full"} /\ page[PageOf[b]].xheap # NoHeap
         /\ page[PageOf[b]].xheap = owner.heap \/ Absorbing(owner.heap)
         /\ \A h \in Heaps : ~Delayed_(b, h)
         /\ \A t \in Remotes : ~Held(t, b)
         /\ ~Listed(b) /\ b \notin live
<1>1. /\ b \in Blocks /\ PageOf[b] \in Pages /\ owner.blk = NoBlock /\ ByOwner(b)
      /\ owner.op \notin {"none", "reclaim"}
  BY BlocksAssumption DEF TypeOK, OwnerRecord, ByOwner
<1>2. owner.heap \in Heaps /\ owner.heap \in heaps
  BY <1>1 DEF TypeOK, IInv, OwnHeaps
<1>3. /\ page[PageOf[b]].xheap # NoHeap
      /\ page[PageOf[b]].xheap = owner.heap \/ Absorbing(owner.heap)
  BY <1>1 DEF IInv, DelayedOwned
<1>4. page[PageOf[b]].place \in {"queue", "full"}
  BY <1>1, <1>3 DEF IInv, Homes, InQueue, Reclaiming
<1>5. /\ \A h \in Heaps : ~Delayed_(b, h)
      /\ \A t \in Remotes : ~Held(t, b)
      /\ ~Listed(b) /\ b \notin live
  BY <1>1 DEF IInv, Placed
<1> QED
  BY <1>1, <1>2, <1>3, <1>4, <1>5

\* _pa_page_try_use_delayed_free: a block that the owner is going to free wakes its
\* page, so the flag may go back to USE.
LEMMA DelayedUseInv ==
  ASSUME TypeOK, TypeOK', IInv, NEW b \in Blocks, DelayedUse(b)
  PROVE  IInv'
<1> USE DEF IInv
<1> DEFINE p == PageOf[b]
           r == UseDelayed(page[p])
<1>0. /\ owner.pc = "dloop" /\ b \in owner.list /\ page[p].delayed # "FREEING"
      /\ owner.cand = NoPage /\ page' = [page EXCEPT ![p] = r]
      /\ UNCHANGED <<thread_delayed_free, heaps, backing, live, remote>>
  BY DEF DelayedUse, Candidate
<1>1. /\ p \in Pages /\ owner.blk = NoBlock
      /\ owner.op \notin {"none", "reclaim"}
      /\ page[p].place \in {"queue", "full"} /\ page[p].xheap # NoHeap
  BY <1>0, ListedByOwner
<1>2. /\ owner'.pc = "dfree" /\ owner'.blk = b /\ owner'.list = owner.list \ {b}
      /\ owner'.op = owner.op /\ owner'.heap = owner.heap /\ owner'.cand = NoPage
      /\ owner'.page = owner.page /\ owner'.seen = owner.seen /\ owner'.all = owner.all
  BY <1>0 DEF DelayedUse, TypeOK, OwnerRecord
<1>3. /\ r \in PageRecord /\ r.free = page[p].free /\ r.local_free = page[p].local_free
      /\ r.thread_free = page[p].thread_free /\ r.fresh = page[p].fresh
      /\ r.used = page[p].used /\ r.xheap = page[p].xheap /\ r.place = page[p].place
      /\ r.delayed = IF page[p].delayed = "NEVER" THEN "NEVER" ELSE "USE"
  <2> DEFINE d == IF page[p].delayed = "NEVER" THEN "NEVER" ELSE "USE"
  <2>1. r = [page[p] EXCEPT !.delayed = d] /\ d \in Delayed /\ page[p] \in PageRecord
    BY <1>1 DEF UseDelayed, Delayed, TypeOK
  <2> HIDE DEF d
  <2>2. /\ r \in PageRecord /\ r.free = page[p].free /\ r.local_free = page[p].local_free
        /\ r.thread_free = page[p].thread_free /\ r.fresh = page[p].fresh
        /\ r.used = page[p].used /\ r.xheap = page[p].xheap /\ r.place = page[p].place
        /\ r.delayed = d
    BY <2>1 DEF PageRecord
  <2> QED
    BY <2>2 DEF d
<1>4. p = PageOf[b]
  OBVIOUS
<1> HIDE DEF r, p
<1>5. \A q \in Pages : page'[q] = IF q = p THEN r ELSE page[q]
  BY <1>0 DEF TypeOK
<1>6. PageLists(p, r) /\ AllLists(r) = AllLists(page[p])
  BY <1>1, <1>3, SameLists DEF TypeOK, Lists
<1>7. Lists'
  BY <1>0, <1>1, <1>3, <1>6, ListsStep
<1>8. \A c \in Blocks : ByOwner(c)' <=> ByOwner(c)
  BY <1>0, <1>1, <1>2, NullAssumption DEF ByOwner
<1>9. Placed'
  <2>1. \A c \in Blocks : Listed(c)' <=> Listed(c)
    BY <1>5, <1>6, BlocksAssumption DEF Listed
  <2>2. \A c \in Blocks, h \in Heaps : Delayed_(c, h)' <=> Delayed_(c, h)
    BY <1>0 DEF Delayed_
  <2>3. \A u \in Remotes, c \in Blocks : Held(u, c)' <=> Held(u, c)
    BY <1>0 DEF Held
  <2>4. \A c \in Blocks : c \in owner'.list => c # owner'.blk
    BY <1>2
  <2> QED
    BY <1>0, <1>8, <2>1, <2>2, <2>3, <2>4 DEF Placed
<1>10. \A c \in Blocks : c # b => (OnDelayed(c)' <=> OnDelayed(c))
  BY <1>0, <1>2 DEF OnDelayed, Delayed_
<1>11. FreeingOne'
  <2>1. \A t \in Remotes : InFreeing(t)' <=> InFreeing(t)
    BY <1>0 DEF InFreeing
  <2>2. /\ \A q \in Pages : page'[q].delayed = "FREEING" <=> page[q].delayed = "FREEING"
        /\ \A q \in Pages : page'[q].xheap = page[q].xheap
    BY <1>0, <1>3, <1>5
  <2>3. \A c \in Blocks : page[PageOf[c]].delayed = "FREEING" /\ OnDelayed(c) => OnDelayed(c)'
    BY <1>0, <1>4, <1>10
  <2> QED
    BY <1>0, <2>1, <2>2, <2>3, FreeingFrame
<1>12. DelayedOwned'
  <2>1. \A c \in Blocks : page'[PageOf[c]].xheap = page[PageOf[c]].xheap
    BY <1>3, <1>5, BlocksAssumption
  <2>2. \A h \in Heaps : \A c \in thread_delayed_free[h] : c \in Blocks
    BY DEF TypeOK
  <2>3. \A h \in Heaps : Absorbing(h)' <=> Absorbing(h)
    BY <1>2 DEF Absorbing
  <2>4. \A h \in Heaps : \A c \in thread_delayed_free'[h] :
           /\ h \in heaps' /\ page'[PageOf[c]].xheap # NoHeap
           /\ page'[PageOf[c]].xheap = h \/ Absorbing(h)'
    BY <1>0, <2>1, <2>2, <2>3 DEF DelayedOwned
  <2>5. \A c \in Blocks : ByOwner(c)' =>
           /\ page'[PageOf[c]].xheap # NoHeap
           /\ page'[PageOf[c]].xheap = owner'.heap \/ Absorbing(owner.heap)
    BY <1>2, <1>8, <2>1 DEF DelayedOwned
  <2>6. Absorbing(owner.heap) => owner'.op \in {"absorb", "absorbed"}
    BY <1>2 DEF Absorbing
  <2> QED
    BY <2>4, <2>5, <2>6 DEF DelayedOwned, Absorbing
<1>13. Homes'
  BY <1>0, <1>1, <1>2, <1>3, <1>5 DEF Homes, InQueue, Reclaiming
<1>14. OwnHeaps' /\ Stages' /\ Candidate'
  BY <1>0, <1>1, <1>2 DEF OwnHeaps, Stages, Candidate
<1>15. Wakes'
  <2>1. \A q \in Pages : q # p => (Waiting(q)' <=> Waiting(q))
    BY <1>4, <1>10 DEF Waiting
  <2>2. r.delayed \in {"USE", "NEVER"}
    BY <1>3
  <2> QED
    BY <1>0, <1>2, <1>3, <1>4, <1>5, <2>1, <2>2 DEF Wakes
<1>16. Leaving' /\ Moving'
  <2>1. HeapPages(owner.heap)' = HeapPages(owner.heap)
    BY <1>2, <1>3, <1>5 DEF HeapPages
  <2>2. \A q \in Pages : page[q].delayed = "NEVER" => page'[q].delayed = "NEVER"
    BY <1>3, <1>5
  <2>3. \A q \in HeapPages(owner.heap) : q \in Pages
    BY DEF HeapPages
  <2>4. Leaving'
    BY <1>0, <1>2, <2>1, <2>2, <2>3 DEF Leaving
  <2>5. Moving'
    BY <1>0, <1>2, <2>1 DEF Moving
  <2> QED
    BY <2>4, <2>5
<1>17. Forcing'
  BY <1>0, <1>2, <1>3, <1>5 DEF Forcing, TypeOK
<1> QED
  BY <1>7, <1>9, <1>11, <1>12, <1>13, <1>14, <1>15, <1>16, <1>17

\* A block of a page in state FREEING goes back to the list; the loop starts over.
\* A heap that is abandoned has no such page any more.
LEMMA DelayedGiveUpInv ==
  ASSUME TypeOK, TypeOK', IInv, NEW b \in Blocks, DelayedGiveUp(b)
  PROVE  IInv'
<1> USE DEF IInv
<1> DEFINE h == owner.heap
<1>0. /\ owner.pc = "dloop" /\ b \in owner.list /\ page[PageOf[b]].delayed = "FREEING"
      /\ owner.cand = NoPage
      /\ UNCHANGED <<page, heaps, backing, live, remote>>
  BY DEF DelayedGiveUp, Candidate
<1>1. /\ PageOf[b] \in Pages /\ owner.blk = NoBlock
      /\ owner.op \notin {"none", "reclaim"} /\ h \in Heaps /\ h \in heaps
      /\ page[PageOf[b]].place \in {"queue", "full"} /\ page[PageOf[b]].xheap # NoHeap
      /\ page[PageOf[b]].xheap = h \/ Absorbing(h)
      /\ \A g \in Heaps : ~Delayed_(b, g)
      /\ \A t \in Remotes : ~Held(t, b)
      /\ ~Listed(b) /\ b \notin live
  BY <1>0, ListedByOwner
<1>2. /\ owner'.pc = "dloop" /\ owner'.blk = NoBlock /\ owner'.list = owner.list \ {b}
      /\ owner'.op = owner.op /\ owner'.heap = owner.heap /\ owner'.cand = NoPage
      /\ owner'.page = owner.page /\ owner'.seen = owner.seen /\ owner'.all = FALSE
  BY <1>0, <1>1 DEF DelayedGiveUp, TypeOK, OwnerRecord
<1>3. \A g \in Heaps : thread_delayed_free'[g] =
         IF g = h THEN thread_delayed_free[g] \cup {b} ELSE thread_delayed_free[g]
  BY DEF DelayedGiveUp, TypeOK
<1>4. h = owner.heap
  OBVIOUS
<1> HIDE DEF h
<1>5. Lists'
  BY <1>0 DEF Lists, PageLists, UsedBlocks, AllLists, BlocksOf
<1>6. \A c \in Blocks : ByOwner(c)' <=> ByOwner(c) /\ c # b
  BY <1>0, <1>1, <1>2, NullAssumption DEF ByOwner
<1>7. \A c \in Blocks, g \in Heaps : Delayed_(c, g)' <=> Delayed_(c, g) \/ (c = b /\ g = h)
  BY <1>3 DEF Delayed_
<1>8. Placed'
  <2>1. \A c \in Blocks : Listed(c)' <=> Listed(c)
    BY <1>0 DEF Listed
  <2>2. \A u \in Remotes, c \in Blocks : Held(u, c)' <=> Held(u, c)
    BY <1>0 DEF Held
  <2>3. \A c \in Blocks : c \in owner'.list => c # owner'.blk
    BY <1>2, NullAssumption
  <2> QED
    BY <1>0, <1>1, <1>6, <1>7, <2>1, <2>2, <2>3 DEF Placed
<1>9. \A c \in Blocks : OnDelayed(c)' <=> OnDelayed(c)
  BY <1>0, <1>1, <1>2, <1>3 DEF OnDelayed, Delayed_
<1>10. FreeingOne'
  <2>1. \A t \in Remotes : InFreeing(t)' <=> InFreeing(t)
    BY <1>0 DEF InFreeing
  <2> QED
    BY <1>0, <1>9, <2>1, FreeingFrame
<1>11. DelayedOwned'
  <2>1. \A g \in Heaps : Absorbing(g)' <=> Absorbing(g)
    BY <1>2 DEF Absorbing
  <2>2. \A g \in Heaps : \A c \in thread_delayed_free'[g] :
           /\ g \in heaps' /\ page'[PageOf[c]].xheap # NoHeap
           /\ page'[PageOf[c]].xheap = g \/ Absorbing(g)'
    BY <1>0, <1>1, <1>3, <2>1 DEF DelayedOwned
  <2>3. \A c \in Blocks : ByOwner(c)' =>
           /\ page'[PageOf[c]].xheap # NoHeap
           /\ page'[PageOf[c]].xheap = owner'.heap \/ Absorbing(owner.heap)
    BY <1>0, <1>2, <1>6 DEF DelayedOwned
  <2>4. Absorbing(owner.heap) => owner'.op \in {"absorb", "absorbed"}
    BY <1>2 DEF Absorbing
  <2> QED
    BY <2>2, <2>3, <2>4 DEF DelayedOwned, Absorbing
<1>12. Homes' /\ OwnHeaps' /\ Stages' /\ Candidate'
  BY <1>0, <1>2 DEF Homes, InQueue, Reclaiming, Cleared, BlocksOf, OwnHeaps, Stages, Candidate
<1>13. Wakes'
  <2>1. \A q \in Pages : Waiting(q)' <=> Waiting(q)
    BY <1>9 DEF Waiting
  <2> QED
    BY <1>0, <1>2, <2>1 DEF Wakes
<1>14. Leaving'
  <2>1. SUFFICES ASSUME owner.op \in {"abandon", "exit"} PROVE FALSE
    BY <1>2 DEF Leaving
  <2>2. PageOf[b] \in HeapPages(h)
    BY <1>1, <2>1 DEF HeapPages, Absorbing
  <2> QED
    BY <1>0, <1>4, <2>1, <2>2 DEF Leaving
<1>15. Moving'
  <2>1. HeapPages(owner.heap)' = HeapPages(owner.heap)
    BY <1>0, <1>2 DEF HeapPages
  <2> QED
    BY <1>0, <1>2, <2>1 DEF Moving
<1>16. Forcing'
  <2>1. SUFFICES ASSUME owner.op = "fabandon" PROVE Forcing'
    BY <1>2 DEF Forcing
  <2>2. owner.page \in Pages /\ PageOf[b] # owner.page
    BY <1>0, <2>1, ClearedFields DEF TypeOK, Forcing, Homes
  <2>3. \A g \in Heaps : \A c \in thread_delayed_free'[g] : PageOf[c] # owner.page
    BY <1>0, <1>3, <2>1, <2>2 DEF Forcing
  <2> QED
    BY <1>0, <1>2, <2>1, <2>3 DEF Forcing
<1> QED
  BY <1>5, <1>8, <1>10, <1>11, <1>12, <1>13, <1>14, <1>15, <1>16

-----------------------------------------------------------------------------
(* Heaps are made and deleted.                                              *)

\* The end of pa_heap_delete: nothing refers to the heap that was absorbed.
LEMMA AbsorbDoneInv ==
  ASSUME TypeOK, TypeOK', IInv, AbsorbDone
  PROVE  IInv'
<1> USE DEF IInv
<1>0. /\ owner.pc = "dloop" /\ owner.list = {} /\ owner.op = "absorbed" /\ owner.all
      /\ owner.blk = NoBlock /\ owner.heap \in Heaps /\ owner.heap # backing
      /\ heaps' = heaps \ {owner.heap} /\ owner' = Idle
      /\ UNCHANGED <<page, backing, live, remote>>
  BY DEF AbsorbDone, HeapFree, OwnHeaps, TypeOK, OwnerRecord
<1>1. thread_delayed_free[owner.heap] = {} /\ HeapPages(owner.heap) = {}
  BY <1>0 DEF Moving
<1>2. thread_delayed_free' = thread_delayed_free
  BY <1>0, <1>1 DEF AbsorbDone, ResetPages, TypeOK
<1>3. /\ owner'.pc = "idle" /\ owner'.op = "none" /\ owner'.list = {} /\ owner'.blk = NoBlock
      /\ owner'.cand = NoPage
  BY <1>0, IdleFields
<1>4. Lists' /\ Placed' /\ Homes' /\ FreeingOne' /\ DelayedOwned' /\ Wakes'
  <2>1. \A p \in Pages : page[p].xheap # owner.heap
    BY <1>0, <1>1, NullAssumption DEF Homes, InQueue, Reclaiming, HeapPages
  <2>2. \A p \in Pages : page[p].xheap # NoHeap => page[p].xheap \in heaps'
    BY <1>0, <2>1 DEF Homes
  <2>3. \A g \in Heaps : thread_delayed_free[g] # {} => g \in heaps'
    BY <1>0, <1>1 DEF DelayedOwned
  <2>4. \A g \in Heaps : Absorbing(g) => thread_delayed_free[g] = {}
    BY <1>1 DEF Absorbing
  <2> QED
    BY <1>0, <1>2, <1>3, <2>2, <2>3, <2>4, OwnerControl
<1>5. OwnHeaps' /\ Stages' /\ Candidate' /\ Leaving' /\ Moving' /\ Forcing'
  BY <1>0, <1>3 DEF OwnHeaps, Stages, Candidate, Leaving, Moving, Forcing
<1> QED
  BY <1>4, <1>5

\* The address of a deleted heap may be used again: its delayed list is empty.
LEMMA HeapNewInv ==
  ASSUME TypeOK, TypeOK', IInv, NEW h \in Heaps, HeapNew(h)
  PROVE  IInv'
<1> USE DEF IInv
<1>0. /\ owner.pc = "idle" /\ owner.op = "none" /\ owner.list = {} /\ h \notin heaps
      /\ heaps' = heaps \cup {h} /\ UNCHANGED <<page, backing, live, remote, owner>>
  BY DEF HeapNew, Stages
<1>1. thread_delayed_free' = thread_delayed_free
  <2>1. thread_delayed_free[h] = {}
    BY <1>0 DEF DelayedOwned
  <2> QED
    BY <2>1 DEF HeapNew, TypeOK
<1>2. Lists' /\ Placed' /\ Homes' /\ FreeingOne' /\ DelayedOwned' /\ Wakes'
  <2>1. \A p \in Pages : page[p].xheap # NoHeap => page[p].xheap \in heaps'
    BY <1>0 DEF Homes
  <2>2. \A g \in Heaps : thread_delayed_free[g] # {} => g \in heaps'
    BY <1>0 DEF DelayedOwned
  <2>3. \A g \in Heaps : ~Absorbing(g)
    BY <1>0 DEF Absorbing
  <2> QED
    BY <1>0, <1>1, <2>1, <2>2, <2>3, OwnerControl
<1>3. OwnHeaps' /\ Stages' /\ Candidate' /\ Leaving' /\ Moving' /\ Forcing'
  BY <1>0 DEF OwnHeaps, Stages, Candidate, Leaving, Moving, Forcing
<1> QED
  BY <1>2, <1>3

LEMMA ThreadInitInv ==
  ASSUME TypeOK, TypeOK', IInv, NEW h \in Heaps, ThreadInit(h)
  PROVE  IInv'
<1> USE DEF IInv
<1>0. /\ owner.pc = "gone" /\ owner.op = "none" /\ owner.list = {} /\ owner.blk = NoBlock
      /\ heaps = {} /\ heaps' = {h} /\ backing' = h /\ h \notin NoReclaim
      /\ owner' = Idle /\ UNCHANGED <<page, live, remote>>
  BY DEF ThreadInit, Stages, OwnHeaps, TypeOK, OwnerRecord
<1>1. \A g \in Heaps : thread_delayed_free[g] = {}
  BY <1>0 DEF DelayedOwned
<1>2. thread_delayed_free' = thread_delayed_free
  BY <1>1 DEF ThreadInit, TypeOK
<1>3. /\ owner'.pc = "idle" /\ owner'.op = "none" /\ owner'.list = {} /\ owner'.blk = NoBlock
      /\ owner'.cand = NoPage
  BY <1>0, IdleFields
<1>4. Lists' /\ Placed' /\ Homes' /\ FreeingOne' /\ DelayedOwned' /\ Wakes'
  <2>1. \A p \in Pages : page[p].xheap # NoHeap => page[p].xheap \in heaps'
    BY <1>0 DEF Homes
  <2> QED
    BY <1>0, <1>1, <1>2, <1>3, <2>1, OwnerControl
<1>5. OwnHeaps' /\ Stages' /\ Candidate' /\ Leaving' /\ Moving' /\ Forcing'
  BY <1>0, <1>3 DEF OwnHeaps, Stages, Candidate, Leaving, Moving, Forcing
<1> QED
  BY <1>4, <1>5

\* pa_heap_destroy clears the pages of the heap; nobody but the client has, and no
\* delayed list but that of the heap holds, a block of one of them.
LEMMA HeapDestroyInv ==
  ASSUME TypeOK, TypeOK', IInv, NEW h \in Heaps, HeapDestroy(h)
  PROVE  IInv'
<1> USE DEF IInv
<1> DEFINE H == HeapPages(h)
<1>0. /\ owner.pc = "idle" /\ owner.op = "none" /\ owner.list = {} /\ owner.blk = NoBlock
      /\ h \in heaps /\ h \in NoReclaim
      /\ \A p \in H : page[p].delayed # "FREEING"
      /\ \A t \in Remotes : remote[t].pc = "push" => PageOf[remote[t].blk] \notin H
      /\ live' = {b \in live : PageOf[b] \notin H} /\ heaps' = heaps \ {h}
      /\ UNCHANGED <<backing, remote, owner>>
  BY DEF HeapDestroy, HeapFree, Stages, TypeOK, OwnerRecord
<1>1. /\ \A p \in Pages : page'[p] = IF p \in H THEN Cleared(p) ELSE page[p]
      /\ \A g \in Heaps : thread_delayed_free'[g] = IF g = h THEN {} ELSE thread_delayed_free[g]
  BY DEF HeapDestroy, ResetPages, TypeOK
<1>2. \A g \in Heaps : ~Absorbing(g)
  BY <1>0 DEF Absorbing
<1>3. \A p \in Pages : p \in H <=> page[p].xheap = h
  BY <1>0, NullAssumption DEF HeapPages, Homes, InQueue, Reclaiming
<1>4. H \subseteq Pages
  BY DEF HeapPages
<1> HIDE DEF H
<1>5. \A b \in Blocks, g \in Heaps : Delayed_(b, g) => (g = h <=> PageOf[b] \in H)
  BY <1>2, <1>3, BlocksAssumption DEF DelayedOwned, Delayed_
<1>6. \A t \in Remotes : InFreeing(t) =>
         remote[t].blk \in Blocks /\ PageOf[remote[t].blk] \notin H
  BY <1>0 DEF FreeingOne, TypeOK, InFreeing
<1>7. \A t \in Remotes, b \in Blocks : Held(t, b) => PageOf[b] \notin H
  BY <1>0, <1>6 DEF Held, InFreeing
<1>8. Lists'
  BY <1>1, ClearedLists DEF Lists
<1>9. \A b \in Blocks : ~ByOwner(b) /\ ~ByOwner(b)'
  BY <1>0, NullAssumption DEF ByOwner
<1>10. \A b \in Blocks, g \in Heaps : Delayed_(b, g)' <=> Delayed_(b, g) /\ PageOf[b] \notin H
  BY <1>1, <1>5 DEF Delayed_
<1>11. Placed'
  <2>1. \A b \in Blocks : Listed(b)' <=> Listed(b) \/ PageOf[b] \in H
    <3>1. \A b \in Blocks : PageOf[b] \in Pages /\ b \in BlocksOf(PageOf[b])
      BY BlocksAssumption DEF BlocksOf
    <3> QED
      BY <1>1, <3>1, ClearedLists DEF Listed
  <2>2. \A t \in Remotes, b \in Blocks : Held(t, b)' <=> Held(t, b)
    BY <1>0 DEF Held
  <2>3. \A b \in Blocks : b \in live' <=> b \in live /\ PageOf[b] \notin H
    BY <1>0
  <2>4. owner'.list = {}
    BY <1>0
  <2> QED
    BY <1>7, <1>9, <1>10, <2>1, <2>2, <2>3, <2>4 DEF Placed
<1>12. \A b \in Blocks : PageOf[b] \notin H => (OnDelayed(b)' <=> OnDelayed(b))
  BY <1>0, <1>10 DEF OnDelayed
<1>13. FreeingOne'
  <2>1. \A t \in Remotes : InFreeing(t)' <=> InFreeing(t)
    BY <1>0 DEF InFreeing
  <2>2. /\ \A q \in Pages : page'[q].delayed = "FREEING" <=> page[q].delayed = "FREEING"
        /\ \A q \in Pages : page[q].delayed = "FREEING" => page'[q].xheap = page[q].xheap
    BY <1>0, <1>1, ClearedFields
  <2>3. \A b \in Blocks : page[PageOf[b]].delayed = "FREEING" /\ OnDelayed(b) => OnDelayed(b)'
    BY <1>0, <1>12
  <2> QED
    BY <1>0, <2>1, <2>2, <2>3, FreeingFrame
<1>14. DelayedOwned'
  <2>1. \A g \in Heaps : \A b \in thread_delayed_free'[g] :
           /\ g \in heaps' /\ page'[PageOf[b]].xheap # NoHeap
           /\ page'[PageOf[b]].xheap = g \/ Absorbing(g)'
    <3>1. SUFFICES ASSUME NEW g \in Heaps, NEW b \in thread_delayed_free'[g]
                   PROVE  g \in heaps' /\ page'[PageOf[b]].xheap # NoHeap /\ page'[PageOf[b]].xheap = g
      OBVIOUS
    <3>2. g # h /\ b \in thread_delayed_free[g] /\ b \in Blocks /\ PageOf[b] \in Pages
      BY <1>1, BlocksAssumption DEF TypeOK
    <3>3. PageOf[b] \notin H
      BY <1>5, <3>2 DEF Delayed_
    <3> QED
      BY <1>0, <1>1, <1>2, <3>2, <3>3 DEF DelayedOwned
  <2> QED
    BY <1>9, <2>1 DEF DelayedOwned
<1>15. Homes'
  <2>1. \A q \in Pages : ~Reclaiming(q) /\ ~Reclaiming(q)'
    BY <1>0 DEF Reclaiming
  <2> QED
    BY <1>0, <1>1, <1>3, <2>1, ClearedFields DEF Homes, InQueue
<1>16. Wakes'
  <2>1. \A q \in Pages : q \notin H => (Waiting(q)' <=> Waiting(q))
    BY <1>12 DEF Waiting
  <2> QED
    BY <1>0, <1>1, <2>1, ClearedFields DEF Wakes
<1>17. OwnHeaps' /\ Stages' /\ Candidate' /\ Leaving' /\ Moving' /\ Forcing'
  BY <1>0 DEF OwnHeaps, Stages, Candidate, Leaving, Moving, Forcing
<1> QED
  BY <1>8, <1>11, <1>13, <1>14, <1>15, <1>16, <1>17

-----------------------------------------------------------------------------
(* The inductive invariant.                                                 *)

LEMMA InitInv == Init => IInv
<1> SUFFICES ASSUME Init PROVE IInv
  OBVIOUS
<1>0. TypeOK
  BY InitTypeOK
<1>1. /\ \A p \in Pages : page[p] = Cleared(p)
      /\ \A h \in Heaps : thread_delayed_free[h] = {}
      /\ \A t \in Remotes : remote[t].pc = "idle"
      /\ live = {} /\ heaps = {backing} /\ backing \in Heaps \ NoReclaim
  BY DEF Init, RemoteIdle
<1>2. /\ owner.pc = "idle" /\ owner.op = "none" /\ owner.cand = NoPage
      /\ owner.blk = NoBlock /\ owner.list = {}
  BY IdleFields DEF Init
<1>3. Lists
  BY <1>1, ClearedLists DEF Lists
<1>4. Placed
  <2>1. \A b \in Blocks : Listed(b)
    BY <1>1, ClearedLists, BlocksAssumption DEF Listed, BlocksOf
  <2>2. \A b \in Blocks : ~ByOwner(b) /\ b \notin live
    BY <1>1, <1>2, NullAssumption DEF ByOwner
  <2>3. \A b \in Blocks, h \in Heaps : ~Delayed_(b, h)
    BY <1>1 DEF Delayed_
  <2>4. \A b \in Blocks, t \in Remotes : ~Held(t, b)
    BY <1>1 DEF Held
  <2>5. owner.list = {}
    BY <1>2
  <2> QED
    BY <2>1, <2>2, <2>3, <2>4, <2>5 DEF Placed
<1>5. Homes
  BY <1>1, <1>2, ClearedFields DEF Homes, InQueue, Reclaiming
<1>6. OwnHeaps /\ Stages /\ Candidate /\ Leaving /\ Moving /\ Forcing
  BY <1>1, <1>2 DEF OwnHeaps, Stages, Candidate, Leaving, Moving, Forcing
<1>7. FreeingOne
  BY <1>1, ClearedFields DEF FreeingOne, InFreeing
<1>8. DelayedOwned
  BY <1>1, <1>2, NullAssumption DEF DelayedOwned, ByOwner
<1>9. Wakes
  BY <1>1, ClearedFields DEF Wakes
<1> QED
  BY <1>3, <1>4, <1>5, <1>6, <1>7, <1>8, <1>9 DEF IInv

LEMMA NextInv == TypeOK /\ IInv /\ [Next]_vars => IInv'
<1> SUFFICES ASSUME TypeOK, IInv, [Next]_vars PROVE IInv'
  OBVIOUS
<1>0. TypeOK'
  BY NextTypeOK
<1>1. CASE OwnerStep
  <2>1. CASE \E p \in Pages : FindFull(p) \/ FindCandidate(p) \/ MallocFresh(p)
    BY <1>0, <2>1, FindFullInv, FindCandidateInv, MallocFreshInv
  <2>2. CASE ToFullCollect \/ MallocFound \/ MallocNoPage
    BY <1>0, <2>2, ToFullCollectInv, MallocFoundInv, MallocNoPageInv
  <2>3. CASE DelayedTake \/ DelayedFree \/ DelayedDone
    BY <1>0, <2>3, DelayedTakeInv, DelayedFreeInv, DelayedDoneInv
  <2>4. CASE \E b \in Blocks : DelayedUse(b) \/ DelayedGiveUp(b)
    BY <1>0, <2>4, DelayedUseInv, DelayedGiveUpInv
  <2>5. CASE \E p \in Pages :
               NeverDelayed(p) \/ VisitPage(p) \/ CollectAbandoned(p) \/ AppendHeap(p)
    BY <1>0, <2>5, NeverDelayedInv, VisitPageInv, CollectAbandonedInv, AppendHeapInv
  <2>6. CASE NeverDone \/ VisitDone \/ CollectDone \/ AppendFlag \/ AppendDone \/ AbsorbDone
    BY <1>0, <2>6, NeverDoneInv, VisitDoneInv, CollectDoneInv, AppendFlagInv, AppendDoneInv,
       AbsorbDoneInv
  <2>7. CASE ReclaimFlag \/ ReclaimCollect \/ ForceAbandonNever \/ ForceAbandonDone
    BY <1>0, <2>7, ReclaimFlagInv, ReclaimCollectInv, ForceAbandonNeverInv, ForceAbandonDoneInv
  <2> QED
    BY <1>1, <2>1, <2>2, <2>3, <2>4, <2>5, <2>6, <2>7 DEF OwnerStep
<1>2. CASE OwnerCall
  <2>1. CASE \E h \in Heaps, p \in Pages, b \in Blocks : MallocFast(h, p, b)
    BY <1>0, <2>1, MallocFastInv
  <2>2. CASE \E b \in Blocks : OwnerFree(b)
    BY <1>0, <2>2, OwnerFreeInv
  <2>3. CASE \E h \in Heaps : MallocGeneric(h) \/ HeapCollect(h) \/ HeapAbandon(h)
    BY <1>0, <2>3, MallocGenericInv, HeapCollectInv, HeapAbandonInv
  <2>4. CASE \E h \in Heaps : HeapAbsorb(h) \/ HeapDestroy(h) \/ HeapNew(h) \/ ThreadInit(h)
    BY <1>0, <2>4, HeapAbsorbInv, HeapDestroyInv, HeapNewInv, ThreadInitInv
  <2>5. CASE \E p \in Pages : CollectRetired(p) \/ AbandonedCheck(p) \/ ForceAbandon(p)
    BY <1>0, <2>5, CollectRetiredInv, AbandonedCheckInv, ForceAbandonInv
  <2>6. CASE \E p \in Pages, h \in Heaps : Reclaim(p, h)
    BY <1>0, <2>6, ReclaimInv
  <2> QED
    BY <1>2, <2>1, <2>2, <2>3, <2>4, <2>5, <2>6 DEF OwnerCall
<1>3. CASE \E t \in Remotes, b \in Blocks : RemoteFree(t, b)
  BY <1>3, RemoteFreeInv
<1>4. CASE \E t \in Remotes : RemoteStep(t)
  BY <1>4, RemoteInv
<1>5. CASE UNCHANGED vars
  <2> USE <1>5 DEF vars
  <2>1. Lists' /\ Placed'
    BY DEF IInv, Lists, PageLists, AllLists, UsedBlocks, BlocksOf, Placed, Listed, Delayed_,
           Held, ByOwner
  <2>2. Homes' /\ OwnHeaps' /\ Stages' /\ Candidate'
    BY DEF IInv, Homes, InQueue, Reclaiming, Cleared, BlocksOf, OwnHeaps, Stages, Candidate
  <2>3. FreeingOne' /\ DelayedOwned' /\ Wakes'
    BY DEF IInv, FreeingOne, InFreeing, DelayedOwned, Absorbing, ByOwner, Wakes, Waiting,
           OnDelayed, Delayed_
  <2>4. Leaving' /\ Moving' /\ Forcing'
    BY DEF IInv, Leaving, Moving, Forcing, InQueue, HeapPages
  <2> QED
    BY <2>1, <2>2, <2>3, <2>4 DEF IInv
<1> QED
  BY <1>1, <1>2, <1>3, <1>4, <1>5 DEF Next

\* Whatever the threads do, the parts of the invariant hold in every reachable state:
\* the lists of each page are disjoint and counted, each block has one place, each page
\* has a heap of the owner or none, one thread at a time is in the delayed-free protocol
\* of a page (free.c, page.c, heap.c).
THEOREM Invariance == Spec => [](TypeOK /\ IInv)
<1>1. Init => TypeOK /\ IInv
  BY InitTypeOK, InitInv
<1>2. TypeOK /\ IInv /\ [Next]_vars => (TypeOK /\ IInv)'
  BY NextTypeOK, NextInv
<1> QED
  BY <1>1, <1>2, PTL DEF Spec

-----------------------------------------------------------------------------
(* Invariants.                                                              *)

\* The lists of its page that hold a block: one, if the block is listed.
LEMMA ListsOfBlock ==
  ASSUME TypeOK, IInv, NEW b \in Blocks
  PROVE  LET A == {l \in FreeLists : b \in page[PageOf[b]][l]}
         IN Cardinality(A) = IF Listed(b) THEN 1 ELSE 0
<1> DEFINE p == PageOf[b]
           A == {l \in FreeLists : b \in page[p][l]}
<1> SUFFICES Cardinality(A) = IF Listed(b) THEN 1 ELSE 0
  OBVIOUS
<1>1. p \in Pages /\ PageLists(p, page[p])
  BY BlocksAssumption DEF IInv, Lists
<1>2. Listed(b) <=> \/ b \in page[p].free \/ b \in page[p].local_free
                    \/ b \in page[p].thread_free \/ b \in page[p].fresh
  BY DEF Listed, AllLists
<1>3. CASE ~Listed(b)
  <2>1. A = {}
    BY <1>2, <1>3 DEF FreeLists
  <2> QED
    BY <1>3, <2>1, FS_EmptySet
<1>4. CASE Listed(b)
  <2>1. \E l : A = {l}
    <3>1. CASE b \in page[p].free
      <4>1. A = {"free"}
        BY <1>1, <3>1 DEF FreeLists, PageLists
      <4> QED
        BY <4>1
    <3>2. CASE b \in page[p].local_free
      <4>1. A = {"local_free"}
        BY <1>1, <3>2 DEF FreeLists, PageLists
      <4> QED
        BY <4>1
    <3>3. CASE b \in page[p].thread_free
      <4>1. A = {"thread_free"}
        BY <1>1, <3>3 DEF FreeLists, PageLists
      <4> QED
        BY <4>1
    <3>4. CASE b \in page[p].fresh
      <4>1. A = {"fresh"}
        BY <1>1, <3>4 DEF FreeLists, PageLists
      <4> QED
        BY <4>1
    <3> QED
      BY <1>2, <1>4, <3>1, <3>2, <3>3, <3>4
  <2>2. Cardinality(A) = 1
    BY <2>1, FS_Singleton
  <2> QED
    BY <1>4, <2>2
<1> QED
  BY <1>3, <1>4

LEMMA OnePlace == TypeOK /\ IInv => BlockInOnePlace
<1> SUFFICES ASSUME TypeOK, IInv PROVE BlockInOnePlace
  OBVIOUS
<1>1. ASSUME NEW b \in Blocks PROVE Spots(b) = 1
  <2> DEFINE A == {l \in FreeLists : b \in page[PageOf[b]][l]}
             D == {x \in {"client"} : b \in live}
             E == {x \in {"list"} : b \in owner.list}
             F == {x \in {"freeing"} : b = owner.blk}
  <2>1. Cardinality(A) = IF Listed(b) THEN 1 ELSE 0
    BY ListsOfBlock
  <2>2. Cardinality(D) = IF b \in live THEN 1 ELSE 0
    <3>1. D = IF b \in live THEN {"client"} ELSE {}
      OBVIOUS
    <3> QED
      BY <3>1, FS_EmptySet, FS_Singleton
  <2>3. Cardinality(E) = IF b \in owner.list THEN 1 ELSE 0
    <3>1. E = IF b \in owner.list THEN {"list"} ELSE {}
      OBVIOUS
    <3> QED
      BY <3>1, FS_EmptySet, FS_Singleton
  <2>4. Cardinality(F) = IF b = owner.blk THEN 1 ELSE 0
    <3>1. F = IF b = owner.blk THEN {"freeing"} ELSE {}
      OBVIOUS
    <3> QED
      BY <3>1, FS_EmptySet, FS_Singleton
  <2>5. Cardinality(InDelayed(b)) = IF \E h \in Heaps : Delayed_(b, h) THEN 1 ELSE 0
    <3>1. CASE \E h \in Heaps : Delayed_(b, h)
      <4>1. PICK h \in Heaps : Delayed_(b, h)
        BY <3>1
      <4>2. InDelayed(b) = {h}
        BY <4>1 DEF InDelayed, IInv, Placed, Delayed_
      <4>3. Cardinality(InDelayed(b)) = 1
        BY <4>2, FS_Singleton
      <4> QED
        BY <3>1, <4>3
    <3>2. CASE ~\E h \in Heaps : Delayed_(b, h)
      <4>1. InDelayed(b) = {}
        BY <3>2 DEF InDelayed, Delayed_
      <4> QED
        BY <3>2, <4>1, FS_EmptySet
    <3> QED
      BY <3>1, <3>2
  <2>6. Cardinality(HeldBy(b)) = IF \E t \in Remotes : Held(t, b) THEN 1 ELSE 0
    <3>1. CASE \E t \in Remotes : Held(t, b)
      <4>1. PICK t \in Remotes : Held(t, b)
        BY <3>1
      <4>2. \A u \in Remotes : Held(u, b) => u = t
        BY <4>1 DEF IInv, Placed
      <4>3. HeldBy(b) = {t}
        BY <4>1, <4>2 DEF HeldBy, Held
      <4>4. Cardinality(HeldBy(b)) = 1
        BY <4>3, FS_Singleton
      <4> QED
        BY <3>1, <4>4
    <3>2. CASE ~\E t \in Remotes : Held(t, b)
      <4>1. HeldBy(b) = {}
        BY <3>2 DEF HeldBy, Held
      <4> QED
        BY <3>2, <4>1, FS_EmptySet
    <3> QED
      BY <3>1, <3>2
  <2>7. Spots(b) = Cardinality(A) + Cardinality(InDelayed(b)) + Cardinality(HeldBy(b))
                     + Cardinality(D) + Cardinality(E) + Cardinality(F)
    BY DEF Spots
  <2> HIDE DEF A, D, E, F
  <2> DEFINE dl == \E h \in Heaps : Delayed_(b, h)
             hd == \E t \in Remotes : Held(t, b)
  <2>8. /\ Listed(b) \/ b \in live \/ dl \/ hd \/ b \in owner.list \/ b = owner.blk
        /\ Listed(b) => b \notin live /\ ~dl /\ ~hd /\ b \notin owner.list /\ b # owner.blk
        /\ b \in live => ~dl /\ ~hd /\ b \notin owner.list /\ b # owner.blk
        /\ dl => ~hd /\ b \notin owner.list /\ b # owner.blk
        /\ hd => b \notin owner.list /\ b # owner.blk
        /\ b \in owner.list => b # owner.blk
    BY DEF IInv, Placed, ByOwner
  <2> HIDE DEF dl, hd
  <2>9. /\ Cardinality(InDelayed(b)) = IF dl THEN 1 ELSE 0
        /\ Cardinality(HeldBy(b)) = IF hd THEN 1 ELSE 0
    BY <2>5, <2>6 DEF dl, hd
  <2> QED
    BY <2>1, <2>2, <2>3, <2>4, <2>7, <2>8, <2>9
<1>2. \A p \in Pages : page[p].free \cup page[p].local_free \cup page[p].thread_free
                         \cup page[p].fresh \subseteq BlocksOf(p)
  BY DEF IInv, Lists, PageLists, AllLists
<1> QED
  BY <1>1, <1>2 DEF BlockInOnePlace

\* Every block is in exactly one place at any time: pa_free by any thread, the delayed
\* lists, _pa_page_free_collect, absorbing and reclaiming lose no block and free none twice.
THEOREM BlocksNeverLost == Spec => []BlockInOnePlace
BY Invariance, OnePlace, PTL

LEMMA UsedCounts == TypeOK /\ IInv => UsedCount
<1> SUFFICES ASSUME TypeOK, IInv, NEW p \in Pages
             PROVE  page[p].used + Cardinality(page[p].free)
                      + Cardinality(page[p].local_free) = Capacity(p)
  BY DEF UsedCount
<1> DEFINE F == page[p].free
           L == page[p].local_free
           U == UsedBlocks(p, page[p])
<1>1. page[p] \in PageRecord /\ PageLists(p, page[p])
  BY DEF TypeOK, IInv, Lists
<1>2. F \in SUBSET Blocks /\ L \in SUBSET Blocks /\ U \in SUBSET Blocks
  BY <1>1, UsedFinite DEF PageRecord
<1>3. U \cap F = {} /\ (U \cup F) \cap L = {} /\ BlocksOf(p) \ page[p].fresh = (U \cup F) \cup L
  BY <1>1 DEF PageLists, AllLists, UsedBlocks
<1>4. page[p].used = Cardinality(U)
  BY <1>1 DEF PageLists
<1> HIDE DEF F, L, U
<1>5. IsFiniteSet(F) /\ IsFiniteSet(L) /\ IsFiniteSet(U) /\ IsFiniteSet(U \cup F)
  BY <1>2, FiniteBlocks
<1>6. Cardinality(U) \in Nat /\ Cardinality(F) \in Nat /\ Cardinality(L) \in Nat
  BY <1>5, FS_CardinalityType
<1>7. ASSUME NEW S, NEW T, IsFiniteSet(S), IsFiniteSet(T), S \cap T = {}
      PROVE  Cardinality(S \cup T) = Cardinality(S) + Cardinality(T)
  <2>1. Cardinality(S \cup T) = Cardinality(S) + Cardinality(T) - Cardinality(S \cap T)
    BY <1>7, FS_Union
  <2>2. Cardinality(S \cap T) = 0
    BY <1>7, FS_EmptySet
  <2>3. Cardinality(S) \in Nat /\ Cardinality(T) \in Nat
    BY <1>7, FS_CardinalityType
  <2> QED
    BY <2>1, <2>2, <2>3
<1>8. Cardinality(U \cup F) = Cardinality(U) + Cardinality(F)
  BY <1>3, <1>5, <1>7
<1>9. Cardinality((U \cup F) \cup L) = Cardinality(U \cup F) + Cardinality(L)
  BY <1>3, <1>5, <1>7
<1> QED
  BY <1>3, <1>4, <1>6, <1>8, <1>9 DEF Capacity, F, L

\* page->used counts the blocks that are not on `free` or `local_free`, in every
\* interleaving of the frees of other threads with the collects of the owner
\* (pa_page_is_valid_init).
THEOREM UsedIsExact == Spec => []UsedCount
BY Invariance, UsedCounts, PTL

LEMMA FreeingPinned == TypeOK /\ IInv => FreeingPinsPage
<1> SUFFICES ASSUME TypeOK, IInv, NEW p \in Pages
             PROVE  /\ Cardinality(Freeing(p)) <= 1
                    /\ page[p].delayed = "FREEING" <=> Freeing(p) # {}
                    /\ Freeing(p) # {} => /\ page[p].place # "none" /\ page[p].used > 0
                                          /\ page[p].xheap \in heaps
  BY DEF FreeingPinsPage
<1> USE DEF IInv
<1>1. Freeing(p) = {t \in Remotes : InFreeing(t) /\ PageOf[remote[t].blk] = p}
  BY DEF Freeing, InFreeing
<1>2. page[p].delayed = "FREEING" <=> Freeing(p) # {}
  BY <1>1 DEF FreeingOne
<1>3. Cardinality(Freeing(p)) <= 1
  <2>1. CASE Freeing(p) = {}
    BY <2>1, FS_EmptySet
  <2>2. CASE Freeing(p) # {}
    <3>1. PICK t \in Remotes : Freeing(p) = {t}
      BY <1>1, <2>2 DEF FreeingOne
    <3>2. Cardinality(Freeing(p)) = 1
      BY <3>1, FS_Singleton
    <3> QED
      BY <3>2
  <2> QED
    BY <2>1, <2>2
<1>4. ASSUME Freeing(p) # {}
      PROVE  page[p].place # "none" /\ page[p].used > 0 /\ page[p].xheap \in heaps
  <2>1. PICK t \in Remotes : InFreeing(t) /\ PageOf[remote[t].blk] = p
    BY <1>1, <1>4
  <2> DEFINE b == remote[t].blk
  <2>2. b \in Blocks /\ b \in BlocksOf(p)
    BY <2>1 DEF TypeOK, InFreeing, BlocksOf
  <2>3. Held(t, b) \/ OnDelayed(b)
    BY <2>1 DEF FreeingOne, InFreeing, Held, OnDelayed
  <2>4. ~Listed(b)
    BY <2>2, <2>3 DEF Placed, OnDelayed, ByOwner
  <2>5. page[p] \in PageRecord /\ PageLists(p, page[p]) /\ b \notin AllLists(page[p])
    BY <2>1, <2>4 DEF TypeOK, Lists, Listed
  <2>6. page[p].used > 0
    BY <2>2, <2>5, OffListUsed
  <2>7. page[p].xheap # NoHeap
    BY <1>2, <1>4 DEF FreeingOne
  <2> QED
    BY <2>6, <2>7, ClearedFields DEF Homes
<1> QED
  BY <1>2, <1>3, <1>4

\* From its first compare-and-swap to the reset, a thread that frees into a full page
\* is alone in state PA_DELAYED_FREEING, and the page keeps its heap: what the comment in
\* pa_free_block_delayed_mt relies on.
THEOREM FreeingProtectsPage == Spec => []FreeingPinsPage
BY Invariance, FreeingPinned, PTL

LEMMA HeapValid == TypeOK /\ IInv => RemoteHeapValid
<1> SUFFICES ASSUME TypeOK, IInv, NEW t \in Remotes, remote[t].pc = "delay"
             PROVE  /\ remote[t].heap \in heaps
                    /\ \/ remote[t].heap = page[PageOf[remote[t].blk]].xheap
                       \/ owner.pc = "appflag" /\ remote[t].heap = owner.heap
  BY DEF RemoteHeapValid
<1> USE DEF IInv
<1>1. \/ remote[t].heap = page[PageOf[remote[t].blk]].xheap
      \/ owner.pc = "appflag" /\ remote[t].heap = owner.heap
  BY DEF FreeingOne
<1>2. PageOf[remote[t].blk] \in Pages /\ page[PageOf[remote[t].blk]].delayed = "FREEING"
  BY BlocksAssumption DEF TypeOK, FreeingOne, InFreeing
<1>3. page[PageOf[remote[t].blk]].xheap \in heaps
  BY <1>2 DEF FreeingOne, Homes
<1>4. owner.pc = "appflag" => owner.heap \in heaps
  BY DEF Stages, OwnHeaps
<1> QED
  BY <1>1, <1>3, <1>4

\* The racy read of page->xheap in pa_free_block_delayed_mt yields a heap that exists
\* until the thread has pushed its block there, in spite of pa_heap_delete.
THEOREM RacyHeapReadSafe == Spec => []RemoteHeapValid
BY Invariance, HeapValid, PTL

LEMMA NoDelayedPending == TypeOK /\ IInv => NoDelayedHasPending
<1> SUFFICES ASSUME TypeOK, IInv, NEW p \in Pages, page[p].delayed = "NO"
             PROVE  Pending(p) # {}
  BY DEF NoDelayedHasPending
<1>1. PICK b \in Blocks : PageOf[b] = p /\ OnDelayed(b)
  BY DEF IInv, Wakes, Waiting
<1>2. b \in Pending(p)
  BY <1>1 DEF Pending, BlocksOf, InDelayed, WithOwner, OnDelayed, Delayed_
<1> QED
  BY <1>2

\* PA_NO_DELAYED_FREE is set only while some block of the page is on its way to the
\* owner through a delayed list (the promise in types.h).
THEOREM NoDelayedMeansPending == Spec => []NoDelayedHasPending
BY Invariance, NoDelayedPending, PTL

LEMMA DelayedOwnedByHeap == TypeOK /\ IInv => DelayedRefsOwned
<1> SUFFICES ASSUME TypeOK, IInv, NEW h \in Heaps, NEW b \in thread_delayed_free[h]
             PROVE  LET p == PageOf[b]
                    IN /\ h \in heaps
                       /\ page[p].xheap \in heaps
                       /\ page[p].xheap = h \/ (owner.op \in {"absorb", "absorbed"} /\ owner.heap = h)
  BY DEF DelayedRefsOwned
<1>1. PageOf[b] \in Pages
  BY BlocksAssumption DEF TypeOK
<1>2. /\ h \in heaps /\ page[PageOf[b]].xheap # NoHeap
      /\ page[PageOf[b]].xheap = h \/ Absorbing(h)
  BY DEF IInv, DelayedOwned
<1> QED
  BY <1>1, <1>2 DEF IInv, Homes, Absorbing

\* No delayed list refers to a page that was abandoned or freed, or to a heap that is
\* gone: _pa_heap_delayed_free_all before an abandon, and the two passes around the
\* absorb in pa_heap_delete, are enough.
THEOREM DelayedListsOwned == Spec => []DelayedRefsOwned
BY Invariance, DelayedOwnedByHeap, PTL

LEMMA FullPageWoken == TypeOK /\ IInv => FullPageWakes
<1> SUFFICES ASSUME TypeOK, IInv, NEW p \in Pages, page[p].place = "full",
                    page[p].free \cup page[p].local_free \cup page[p].thread_free # {}
             PROVE  \/ Pending(p) # {} \/ Freeing(p) # {} \/ OwnerWillCollect(p)
                    \/ page[p].delayed = "NEVER"
  BY DEF FullPageWakes
<1>1. Waiting(p) => Pending(p) # {}
  <2>1. SUFFICES ASSUME NEW b \in Blocks, PageOf[b] = p, OnDelayed(b) PROVE Pending(p) # {}
    BY DEF Waiting
  <2>2. b \in Pending(p)
    BY <2>1 DEF Pending, BlocksOf, InDelayed, WithOwner, OnDelayed, Delayed_
  <2> QED
    BY <2>2
<1>2. page[p].delayed = "FREEING" => Freeing(p) # {}
  BY DEF IInv, FreeingOne, InFreeing, Freeing
<1> QED
  BY <1>1, <1>2 DEF IInv, Wakes, OwnerWillCollect

\* A page in the full queue in which a block was freed is never forgotten: the owner or
\* another thread is about to bring it to the owner's notice (page.c, free.c).
THEOREM FullPagesWake == Spec => []FullPageWakes
BY Invariance, FullPageWoken, PTL

-----------------------------------------------------------------------------
(* What a step does to the reusable blocks, the heap and the flag of a page. *)

Reusable(pg) == pg.free \cup pg.fresh

\* A page is cleared, or it keeps its reusable blocks, and one of its flag and heap.
Kept(p) ==
  \/ page'[p] = Cleared(p)
  \/ /\ Reusable(page[p]) \subseteq Reusable(page'[p])
     /\ page'[p].delayed = page[p].delayed \/ page'[p].xheap = page[p].xheap

\* A step that gives no block to the client; one that gives it block b of page p.
Keeps == live' \subseteq live /\ \A p \in Pages : Kept(p)

Gives(p, b) ==
  /\ b \in Reusable(page[p]) /\ live' = live \cup {b} /\ remote' = remote
  /\ \A q \in Pages :
       /\ Reusable(page'[q]) = Reusable(page[q]) \ {b}
       /\ page'[q].delayed = page[q].delayed

LEMMA KeptPage ==
  ASSUME TypeOK, NEW p \in Pages, NEW r, page' = [page EXCEPT ![p] = r],
         \/ r = Cleared(p)
         \/ /\ Reusable(page[p]) \subseteq Reusable(r)
            /\ r.delayed = page[p].delayed \/ r.xheap = page[p].xheap
  PROVE  \A q \in Pages : Kept(q)
<1>1. \A q \in Pages : page'[q] = IF q = p THEN r ELSE page[q]
  BY DEF TypeOK
<1> QED
  BY <1>1 DEF Kept

LEMMA KeptCollect ==
  ASSUME NEW pg \in PageRecord, NEW force \in BOOLEAN
  PROVE  LET c == Collect(pg, force)
         IN /\ c \in PageRecord /\ Reusable(pg) \subseteq Reusable(c)
            /\ c.delayed = pg.delayed /\ c.xheap = pg.xheap /\ c.place = pg.place
<1> DEFINE c == Collect(pg, force)
           freed == pg.local_free \cup pg.thread_free
           move  == pg.free = {} \/ force
<1>1. /\ c \in PageRecord /\ c.fresh = pg.fresh
      /\ c.free = IF move THEN pg.free \cup freed ELSE pg.free
      /\ c.delayed = pg.delayed /\ c.xheap = pg.xheap /\ c.place = pg.place
  <2>1. CASE force = TRUE
    BY <2>1, CollectFields
  <2>2. CASE force = FALSE
    BY <2>2, CollectFields
  <2> QED
    BY <2>1, <2>2
<1> HIDE DEF c
<1>2. Reusable(pg) \subseteq Reusable(c)
  BY <1>1 DEF Reusable
<1> QED
  BY <1>1, <1>2 DEF c

LEMMA KeptFreeLocal ==
  ASSUME NEW p \in Pages, NEW pg \in PageRecord, NEW b \in Blocks
  PROVE  LET r == FreeLocal(p, pg, b)
         IN r = Cleared(p) \/ (Reusable(pg) \subseteq Reusable(r) /\ r.delayed = pg.delayed)
<1> DEFINE r == FreeLocal(p, pg, b)
<1>1. \/ r = Cleared(p)
      \/ pg.free \subseteq r.free /\ r.fresh = pg.fresh /\ r.delayed = pg.delayed
  BY FreeLocalFields
<1> HIDE DEF r
<1>2. r = Cleared(p) \/ (Reusable(pg) \subseteq Reusable(r) /\ r.delayed = pg.delayed)
  BY <1>1 DEF Reusable
<1> QED
  BY <1>2 DEF r

\* Only the flag, or only the heap, of a page is set.
LEMMA KeptField ==
  ASSUME TypeOK, NEW p \in Pages, NEW d,
         page' = [page EXCEPT ![p].delayed = d] \/ page' = [page EXCEPT ![p].xheap = d]
  PROVE  \A q \in Pages : Kept(q)
<1>1. CASE page' = [page EXCEPT ![p].delayed = d]
  <2> DEFINE r == [page[p] EXCEPT !.delayed = d]
  <2>1. page' = [page EXCEPT ![p] = r]
    BY <1>1
  <2>2. r.free = page[p].free /\ r.fresh = page[p].fresh /\ r.xheap = page[p].xheap
    BY DEF TypeOK, PageRecord
  <2> HIDE DEF r
  <2> QED
    BY <2>1, <2>2, KeptPage DEF Reusable
<1>2. CASE page' = [page EXCEPT ![p].xheap = d]
  <2> DEFINE r == [page[p] EXCEPT !.xheap = d]
  <2>1. page' = [page EXCEPT ![p] = r]
    BY <1>2
  <2>2. r.free = page[p].free /\ r.fresh = page[p].fresh /\ r.delayed = page[p].delayed
    BY DEF TypeOK, PageRecord
  <2> HIDE DEF r
  <2> QED
    BY <2>1, <2>2, KeptPage DEF Reusable
<1> QED
  BY <1>1, <1>2

\* The tail of an allocation: the block taken is the only one that is not reusable any more.
LEMMA TakeGives ==
  ASSUME TypeOK, IInv, NEW p \in Pages, NEW pg \in PageRecord, NEW S \in SUBSET pg.fresh,
         NEW b \in pg.free \cup S, TakeBlock(p, Extend(pg, S), b),
         Reusable(pg) = Reusable(page[p]), PageLists(p, pg), pg.delayed = page[p].delayed
  PROVE  Gives(p, b)
<1> DEFINE e == Extend(pg, S)
           got == Pop(e, b)
           r == IF got.used = Cardinality(BlocksOf(p)) THEN ToFull(got) ELSE got
<1>0. page' = [page EXCEPT ![p] = r] /\ live' = live \cup {b} /\ remote' = remote
  BY DEF TakeBlock
<1>1. /\ e \in PageRecord /\ e.free = pg.free \cup S /\ e.fresh = pg.fresh \ S
      /\ e.delayed = pg.delayed
  BY ExtendFields DEF PageRecord
<1> HIDE DEF e
<1>2. /\ got \in PageRecord /\ got.free = e.free \ {b} /\ got.fresh = e.fresh
      /\ got.delayed = e.delayed
  BY <1>1, PopFields
<1> HIDE DEF got
<1>3. r.free = got.free /\ r.fresh = got.fresh /\ r.delayed = got.delayed
  BY <1>2, MoveFields
<1> HIDE DEF r
<1>4. b \in Reusable(page[p]) /\ PageOf[b] = p
  BY DEF Reusable, PageLists, AllLists, BlocksOf
<1>5. b \notin pg.fresh \ S
  BY DEF PageLists
<1>6. Reusable(r) = Reusable(page[p]) \ {b}
  BY <1>1, <1>2, <1>3, <1>5 DEF Reusable
<1>7. \A q \in Pages : page'[q] = IF q = p THEN r ELSE page[q]
  BY <1>0 DEF TypeOK
<1>8. \A q \in Pages : q # p => b \notin Reusable(page[q])
  BY <1>4 DEF IInv, Lists, PageLists, AllLists, BlocksOf, Reusable
<1> QED
  BY <1>0, <1>1, <1>2, <1>3, <1>4, <1>6, <1>7, <1>8 DEF Gives

\* No step of the owner touches the other threads, and only an allocation makes a
\* block not reusable.
LEMMA OwnerMoves ==
  ASSUME TypeOK, IInv, OwnerStep \/ OwnerCall
  PROVE  /\ remote' = remote
         /\ Keeps \/ \E p \in Pages : \E b \in Blocks : Gives(p, b)
<1> DEFINE Goal == /\ remote' = remote
                   /\ Keeps \/ \E p \in Pages : \E b \in Blocks : Gives(p, b)
<1>0. \A p \in Pages : /\ page[p] \in PageRecord /\ PageLists(p, page[p])
  BY DEF TypeOK, IInv, Lists
<1>00. /\ owner \in OwnerRecord
       /\ owner.pc \in WithPage => owner.page \in Pages
       /\ \A b \in Blocks : PageOf[b] \in Pages
       /\ owner.pc = "dfree" => owner.blk \in Blocks
       /\ \A b \in owner.list : b \in Blocks
  BY BlocksAssumption DEF TypeOK, OwnerRecord
<1>1. ASSUME page' = page, live' = live, remote' = remote PROVE Goal
  BY <1>1 DEF Keeps, Kept
<1>2. ASSUME \A p \in Pages : Kept(p), live' \subseteq live, remote' = remote PROVE Goal
  BY <1>2 DEF Keeps
<1> HIDE DEF Goal
<1>3. ASSUME NEW p \in Pages, FindFull(p) PROVE Goal
  <2> DEFINE c == Collect(page[p], FALSE)
  <2>1. /\ page' = [page EXCEPT ![p] = ToFull(c)]
        /\ live' \subseteq live /\ remote' = remote
    BY <1>3 DEF FindFull
  <2>2. /\ c \in PageRecord /\ Reusable(page[p]) \subseteq Reusable(c)
        /\ c.delayed = page[p].delayed
    BY <1>0, KeptCollect
  <2> HIDE DEF c
  <2>3. Reusable(ToFull(c)) = Reusable(c) /\ ToFull(c).delayed = c.delayed
    BY <2>2, MoveFields DEF Reusable
  <2>4. \A q \in Pages : Kept(q)
    BY <2>1, <2>2, <2>3, KeptPage
  <2> QED
    BY <1>2, <2>1, <2>4
<1>4. ASSUME NEW p \in Pages, page' = [page EXCEPT ![p] = Collect(page[p], FALSE)],
             live' = live, remote' = remote
      PROVE  Goal
  <2>1. \A q \in Pages : Kept(q)
    BY <1>0, <1>4, KeptCollect, KeptPage
  <2> QED
    BY <1>2, <1>4, <2>1
<1>5. ASSUME NEW p \in Pages, FindCandidate(p) \/ ForceAbandon(p) PROVE Goal
  BY <1>4, <1>5 DEF FindCandidate, ForceAbandon
<1>6. ASSUME ToFullCollect PROVE Goal
  BY <1>00, <1>4, <1>6 DEF ToFullCollect, WithPage
<1>7. ASSUME NEW p \in Pages, MallocFresh(p) PROVE Goal
  <2> DEFINE pg == InitPage(page[p], owner.heap)
  <2>1. owner.heap \in Heaps /\ owner.pc = "find"
    BY <1>7 DEF MallocFresh, NothingFound, TypeOK, IInv, Stages
  <2>2. /\ pg \in PageRecord /\ pg.free = page[p].free /\ pg.local_free = page[p].local_free
        /\ pg.thread_free = page[p].thread_free /\ pg.fresh = page[p].fresh
        /\ pg.used = page[p].used /\ pg.delayed = page[p].delayed
    BY <1>0, <2>1 DEF InitPage, PageRecord, Places
  <2>3. PICK S \in Extensions(pg) : \E b \in S : TakeBlock(p, Extend(pg, S), b)
    BY <1>7 DEF MallocFresh
  <2>4. PICK b \in S : TakeBlock(p, Extend(pg, S), b)
    BY <2>3
  <2> HIDE DEF pg
  <2>5. PageLists(p, pg) /\ Reusable(pg) = Reusable(page[p])
    BY <1>0, <2>2, SameLists DEF Reusable
  <2>6. S \in SUBSET pg.fresh /\ b \in pg.free \cup S /\ b \in Blocks
    BY <2>2, <2>4 DEF Extensions, PageRecord
  <2>7. Gives(p, b)
    BY <2>2, <2>4, <2>5, <2>6, TakeGives
  <2> QED
    BY <2>6, <2>7 DEF Goal, Gives
<1>8. ASSUME MallocFound PROVE Goal
  <2> DEFINE p == owner.cand
  <2>1. p \in Pages
    BY <1>00, <1>8 DEF MallocFound, OwnerRecord
  <2>2. PICK S \in Extensions(page[p]) : \E b \in page[p].free \cup S :
          TakeBlock(p, Extend(page[p], S), b)
    BY <1>8 DEF MallocFound
  <2>3. PICK b \in page[p].free \cup S : TakeBlock(p, Extend(page[p], S), b)
    BY <2>2
  <2> HIDE DEF p
  <2>4. page[p] \in PageRecord /\ PageLists(p, page[p])
    BY <1>0, <2>1
  <2>5. S \in SUBSET page[p].fresh /\ b \in Blocks
    BY <2>4 DEF Extensions, PageRecord
  <2>6. Gives(p, b)
    BY <2>1, <2>3, <2>4, <2>5, TakeGives
  <2> QED
    BY <2>1, <2>5, <2>6 DEF Goal, Gives
<1>9. ASSUME NEW h \in Heaps, NEW p \in Pages, NEW b \in Blocks, MallocFast(h, p, b) PROVE Goal
  <2> DEFINE r == Pop(page[p], b)
  <2>1. /\ page' = [page EXCEPT ![p] = r] /\ live' = live \cup {b} /\ remote' = remote
        /\ b \in page[p].free
    BY <1>9 DEF MallocFast
  <2>2. /\ r.free = page[p].free \ {b} /\ r.fresh = page[p].fresh
        /\ r.delayed = page[p].delayed
    BY <1>0, PopFields
  <2> HIDE DEF r
  <2>3. b \in Reusable(page[p]) /\ b \notin page[p].fresh /\ PageOf[b] = p
    BY <1>0, <2>1 DEF Reusable, PageLists, AllLists, BlocksOf
  <2>4. \A q \in Pages : page'[q] = IF q = p THEN r ELSE page[q]
    BY <2>1 DEF TypeOK
  <2>5. \A q \in Pages : q # p => b \notin Reusable(page[q])
    BY <2>3 DEF IInv, Lists, PageLists, AllLists, BlocksOf, Reusable
  <2>6. \A q \in Pages : /\ Reusable(page'[q]) = Reusable(page[q]) \ {b}
                         /\ page'[q].delayed = page[q].delayed
    BY <2>2, <2>3, <2>4, <2>5 DEF Reusable
  <2>7. Gives(p, b)
    BY <2>1, <2>3, <2>6 DEF Gives
  <2> QED
    BY <2>1, <2>7 DEF Goal
<1>10. ASSUME MallocNoPage \/ DelayedTake \/ DelayedDone \/ NeverDone \/ VisitDone \/ CollectDone
                \/ AppendDone \/ AbsorbDone
       PROVE  Goal
  BY <1>1, <1>10 DEF MallocNoPage, DelayedTake, DelayedDone, NeverDone, VisitDone, CollectDone,
                     AppendDone, AbsorbDone
<1>11. ASSUME NEW h \in Heaps,
              \/ MallocGeneric(h) \/ HeapCollect(h) \/ HeapAbandon(h) \/ HeapAbsorb(h)
              \/ HeapNew(h) \/ ThreadInit(h)
       PROVE  Goal
  BY <1>1, <1>11 DEF MallocGeneric, HeapCollect, HeapAbandon, HeapAbsorb, HeapNew, ThreadInit
<1>12. ASSUME NEW b \in Blocks, DelayedGiveUp(b) PROVE Goal
  BY <1>1, <1>12 DEF DelayedGiveUp
<1>13. ASSUME NEW p \in Pages, page' = [page EXCEPT ![p] = UseDelayed(page[p])],
              live' = live, remote' = remote
       PROVE  Goal
  <2> DEFINE d == IF page[p].delayed = "NEVER" THEN page[p].delayed ELSE "USE"
  <2>1. page' = [page EXCEPT ![p].delayed = d]
    BY <1>13 DEF UseDelayed
  <2> HIDE DEF d
  <2>2. \A q \in Pages : Kept(q)
    BY <2>1, KeptField
  <2> QED
    BY <1>2, <1>13, <2>2
<1>14. ASSUME NEW b \in Blocks, DelayedUse(b) PROVE Goal
  BY <1>00, <1>13, <1>14 DEF DelayedUse
<1>15. ASSUME AppendFlag PROVE Goal
  BY <1>00, <1>13, <1>15 DEF AppendFlag, WithPage
<1>16. ASSUME DelayedFree PROVE Goal
  <2> DEFINE p == PageOf[owner.blk]
             c == Collect(page[p], FALSE)
  <2>1. /\ p \in Pages /\ owner.blk \in Blocks /\ live' \subseteq live /\ remote' = remote
        /\ page' = [page EXCEPT ![p] = FreeLocal(p, c, owner.blk)]
    BY <1>00, <1>16 DEF DelayedFree
  <2>2. /\ c \in PageRecord /\ Reusable(page[p]) \subseteq Reusable(c)
        /\ c.delayed = page[p].delayed
    BY <1>0, <2>1, KeptCollect
  <2> HIDE DEF c
  <2>3. \/ FreeLocal(p, c, owner.blk) = Cleared(p)
        \/ /\ Reusable(c) \subseteq Reusable(FreeLocal(p, c, owner.blk))
           /\ FreeLocal(p, c, owner.blk).delayed = c.delayed
    BY <2>1, <2>2, KeptFreeLocal
  <2> HIDE DEF p
  <2>4. \A q \in Pages : Kept(q)
    BY <2>1, <2>2, <2>3, KeptPage
  <2> QED
    BY <1>2, <2>1, <2>4
<1>17. ASSUME NEW b \in Blocks, OwnerFree(b) PROVE Goal
  <2> DEFINE p == PageOf[b]
  <2>1. /\ p \in Pages /\ live' \subseteq live /\ remote' = remote
        /\ page' = [page EXCEPT ![p] = FreeLocal(p, page[p], b)]
    BY <1>00, <1>17 DEF OwnerFree
  <2> HIDE DEF p
  <2>2. \A q \in Pages : Kept(q)
    BY <1>0, <2>1, KeptFreeLocal, KeptPage
  <2> QED
    BY <1>2, <2>1, <2>2
<1>18. ASSUME NEW p \in Pages, NEW d, live' = live, remote' = remote,
              page' = [page EXCEPT ![p].delayed = d] \/ page' = [page EXCEPT ![p].xheap = d]
       PROVE  Goal
  BY <1>2, <1>18, KeptField
<1>19. ASSUME NEW p \in Pages, NeverDelayed(p) \/ AppendHeap(p) PROVE Goal
  BY <1>18, <1>19 DEF NeverDelayed, AppendHeap
<1>20. ASSUME ReclaimFlag \/ ForceAbandonNever PROVE Goal
  BY <1>00, <1>18, <1>20 DEF ReclaimFlag, ForceAbandonNever, WithPage
<1>21. ASSUME NEW p \in Pages, NEW h \in Heaps, Reclaim(p, h) PROVE Goal
  BY <1>18, <1>21 DEF Reclaim
<1>22. ASSUME NEW p \in Pages, VisitPage(p) PROVE Goal
  <2> DEFINE c == Collect(page[p], owner.op \in Forced)
             r == CASE c.used = 0 -> Cleared(p)
                    [] c.used # 0 /\ owner.op \in {"abandon", "exit"} -> Abandoned(c)
                    [] OTHER -> c
  <2>1. page' = [page EXCEPT ![p] = r] /\ live' \subseteq live /\ remote' = remote
    BY <1>22 DEF VisitPage
  <2>2. /\ c \in PageRecord /\ Reusable(page[p]) \subseteq Reusable(c)
        /\ c.delayed = page[p].delayed
    <3>1. (owner.op \in Forced) \in BOOLEAN
      OBVIOUS
    <3> QED
      BY <1>0, <3>1, KeptCollect
  <2> HIDE DEF c
  <2>3. Reusable(Abandoned(c)) = Reusable(c) /\ Abandoned(c).delayed = c.delayed
    BY <2>2 DEF Abandoned, PageRecord, Reusable
  <2>4. \/ r = Cleared(p)
        \/ Reusable(page[p]) \subseteq Reusable(r) /\ r.delayed = page[p].delayed
    BY <2>2, <2>3
  <2> HIDE DEF r
  <2>5. \A q \in Pages : Kept(q)
    BY <2>1, <2>4, KeptPage
  <2> QED
    BY <1>2, <2>1, <2>5
<1>23. ASSUME NEW p \in Pages, CollectAbandoned(p) \/ AbandonedCheck(p) PROVE Goal
  <2>1. page' = [page EXCEPT ![p] = CheckFree(p, page[p])] /\ live' \subseteq live /\ remote' = remote
    BY <1>23 DEF CollectAbandoned, AbandonedCheck
  <2>2. \/ CheckFree(p, page[p]) = Cleared(p)
        \/ /\ Reusable(page[p]) \subseteq Reusable(CheckFree(p, page[p]))
           /\ CheckFree(p, page[p]).delayed = page[p].delayed
    BY <1>0, KeptCollect DEF CheckFree
  <2>3. \A q \in Pages : Kept(q)
    BY <2>1, <2>2, KeptPage
  <2> QED
    BY <1>2, <2>1, <2>3
<1>24. ASSUME ReclaimCollect PROVE Goal
  <2> DEFINE p == owner.page
             c == Collect(page[p], FALSE)
             r == IF c.used = 0 THEN Cleared(p) ELSE ToQueue(c)
  <2>1. /\ p \in Pages /\ page' = [page EXCEPT ![p] = r] /\ live' \subseteq live
        /\ remote' = remote
    BY <1>00, <1>24 DEF ReclaimCollect, WithPage
  <2>2. /\ c \in PageRecord /\ Reusable(page[p]) \subseteq Reusable(c)
        /\ c.delayed = page[p].delayed
    BY <1>0, <2>1, KeptCollect
  <2> HIDE DEF c
  <2>3. Reusable(ToQueue(c)) = Reusable(c) /\ ToQueue(c).delayed = c.delayed
    BY <2>2, MoveFields DEF Reusable
  <2>4. \/ r = Cleared(p)
        \/ Reusable(page[p]) \subseteq Reusable(r) /\ r.delayed = page[p].delayed
    BY <2>2, <2>3
  <2> HIDE DEF p, r
  <2>5. \A q \in Pages : Kept(q)
    BY <2>1, <2>4, KeptPage
  <2> QED
    BY <1>2, <2>1, <2>5
<1>25. ASSUME ForceAbandonDone PROVE Goal
  <2> DEFINE p == owner.page
             r == CASE page[p].place = "none" -> page[p]
                    [] page[p].place # "none" /\ page[p].used = 0 -> Cleared(p)
                    [] OTHER -> Abandoned(page[p])
  <2>1. /\ p \in Pages /\ page' = [page EXCEPT ![p] = r] /\ live' \subseteq live
        /\ remote' = remote
    BY <1>00, <1>25 DEF ForceAbandonDone, WithPage
  <2>2. /\ Reusable(Abandoned(page[p])) = Reusable(page[p])
        /\ Abandoned(page[p]).delayed = page[p].delayed
    BY <1>0, <2>1 DEF Abandoned, PageRecord, Reusable
  <2>3. \/ r = Cleared(p)
        \/ Reusable(page[p]) \subseteq Reusable(r) /\ r.delayed = page[p].delayed
    BY <2>2
  <2> HIDE DEF p, r
  <2>4. \A q \in Pages : Kept(q)
    BY <2>1, <2>3, KeptPage
  <2> QED
    BY <1>2, <2>1, <2>4
<1>26. ASSUME NEW p \in Pages, CollectRetired(p) PROVE Goal
  <2>1. \A q \in Pages : Kept(q)
    BY <1>26, KeptPage DEF CollectRetired
  <2> QED
    BY <1>2, <1>26, <2>1 DEF CollectRetired
<1>27. ASSUME NEW h \in Heaps, HeapDestroy(h) PROVE Goal
  <2>1. \A q \in Pages : Kept(q)
    BY <1>27 DEF HeapDestroy, Kept
  <2> QED
    BY <1>2, <1>27, <2>1 DEF HeapDestroy
<1>28. ASSUME OwnerStep PROVE Goal
  <2>1. CASE \E p \in Pages : FindFull(p) \/ FindCandidate(p) \/ MallocFresh(p)
    BY <1>3, <1>5, <1>7, <2>1
  <2>2. CASE ToFullCollect \/ MallocFound \/ MallocNoPage
    BY <1>6, <1>8, <1>10, <2>2
  <2>3. CASE DelayedTake \/ DelayedFree \/ DelayedDone
    BY <1>10, <1>16, <2>3
  <2>4. CASE \E b \in Blocks : DelayedUse(b) \/ DelayedGiveUp(b)
    BY <1>12, <1>14, <2>4
  <2>5. CASE \E p \in Pages :
               NeverDelayed(p) \/ VisitPage(p) \/ CollectAbandoned(p) \/ AppendHeap(p)
    BY <1>19, <1>22, <1>23, <2>5
  <2>6. CASE NeverDone \/ VisitDone \/ CollectDone \/ AppendFlag \/ AppendDone \/ AbsorbDone
    BY <1>10, <1>15, <2>6
  <2>7. CASE ReclaimFlag \/ ReclaimCollect \/ ForceAbandonNever \/ ForceAbandonDone
    BY <1>20, <1>24, <1>25, <2>7
  <2> QED
    BY <1>28, <2>1, <2>2, <2>3, <2>4, <2>5, <2>6, <2>7 DEF OwnerStep
<1>29. ASSUME OwnerCall PROVE Goal
  <2>1. CASE \E h \in Heaps, p \in Pages, b \in Blocks : MallocFast(h, p, b)
    BY <1>9, <2>1
  <2>2. CASE \E b \in Blocks : OwnerFree(b)
    BY <1>17, <2>2
  <2>3. CASE \E h \in Heaps : \/ MallocGeneric(h) \/ HeapCollect(h) \/ HeapAbandon(h)
                              \/ HeapAbsorb(h) \/ HeapDestroy(h) \/ HeapNew(h) \/ ThreadInit(h)
    BY <1>11, <1>27, <2>3
  <2>4. CASE \E p \in Pages : CollectRetired(p) \/ AbandonedCheck(p) \/ ForceAbandon(p)
    BY <1>5, <1>23, <1>26, <2>4
  <2>5. CASE \E p \in Pages, h \in Heaps : Reclaim(p, h)
    BY <1>21, <2>5
  <2> QED
    BY <1>29, <2>1, <2>2, <2>3, <2>4, <2>5 DEF OwnerCall
<1>30. Goal
  BY <1>28, <1>29
<1> QED
  BY <1>30 DEF Goal

\* The other threads set the flag of a page and push on its thread_free list.
LEMMA RemoteMoves ==
  ASSUME TypeOK, NEW t \in Remotes, (\E b \in Blocks : RemoteFree(t, b)) \/ RemoteStep(t)
  PROVE  Keeps /\ \A p \in Pages : page'[p].xheap = page[p].xheap
<1> DEFINE p == PageOf[remote[t].blk]
<1>1. live' \subseteq live
  BY DEF RemoteFree, RemoteStep, RemotePush, RemoteLoadHeap, RemoteDelay, RemoteReset
<1>2. \/ page' = page
      \/ p \in Pages /\ page' = [page EXCEPT ![p].delayed = "FREEING"]
      \/ p \in Pages /\ page' = [page EXCEPT ![p].delayed = "NO"]
      \/ p \in Pages /\ page' = [page EXCEPT ![p].thread_free = @ \cup {remote[t].blk}]
  BY BlocksAssumption DEF TypeOK, RemoteFree, RemoteStep, RemotePush, RemoteLoadHeap,
     RemoteDelay, RemoteReset
<1> HIDE DEF p
<1>3. \A q \in Pages : /\ page'[q].free = page[q].free /\ page'[q].fresh = page[q].fresh
                       /\ page'[q].xheap = page[q].xheap
  BY <1>2 DEF TypeOK, PageRecord
<1> QED
  BY <1>1, <1>3 DEF Keeps, Kept, Reusable

-----------------------------------------------------------------------------
(* Action properties and refinement.                                        *)

\* What PageLeavesHeapSafely asks of a step, for one page.
LeavesSafely(p) ==
  page[p].xheap # NoHeap /\ page'[p].xheap = NoHeap =>
    /\ page[p].delayed # "FREEING"
    /\ page'[p].place = "abandoned" => page[p].delayed = "NEVER"
    /\ \A b \in BlocksOf(p) : page'[p].place = "none" => HeldBy(b) = {} /\ b \notin live'

LEMMA StepLeavesSafely ==
  ASSUME TypeOK, IInv, TypeOK', IInv', [Next]_vars, NEW p \in Pages
  PROVE  LeavesSafely(p)
<1>1. CASE OwnerStep \/ OwnerCall
  <2> SUFFICES ASSUME page[p].xheap # NoHeap, page'[p].xheap = NoHeap
               PROVE  /\ page[p].delayed # "FREEING"
                      /\ page'[p].place = "abandoned" => page[p].delayed = "NEVER"
                      /\ \A b \in BlocksOf(p) :
                           page'[p].place = "none" => HeldBy(b) = {} /\ b \notin live'
    BY DEF LeavesSafely
  <2>1. /\ remote' = remote
        /\ Keeps \/ \E q \in Pages : \E b \in Blocks : Gives(q, b)
    BY <1>1, OwnerMoves
  <2>2. page[p].delayed # "FREEING"
    BY <2>1 DEF IInv, FreeingOne, InFreeing
  <2>3. ASSUME page'[p].place = "abandoned" PROVE page[p].delayed = "NEVER"
    <3>1. page'[p].delayed = "NEVER"
      BY <2>3 DEF IInv, Homes, Reclaiming
    <3>2. page'[p] # Cleared(p)
      BY <2>3 DEF Cleared
    <3> QED
      BY <2>1, <3>1, <3>2 DEF Keeps, Kept, Gives
  <2>4. ASSUME NEW b \in BlocksOf(p), page'[p].place = "none"
        PROVE  HeldBy(b) = {} /\ b \notin live'
    <3>1. b \in Blocks /\ PageOf[b] = p
      BY DEF BlocksOf
    <3>2. page'[p].fresh = BlocksOf(p)
      <4>1. page'[p] = Cleared(p)'
        BY <2>4 DEF IInv, Homes
      <4>2. Cleared(p)' = Cleared(p) /\ Cleared(p).fresh = BlocksOf(p)
        BY DEF Cleared, BlocksOf
      <4> QED
        BY <4>1, <4>2
    <3>3. Listed(b)'
      BY <3>1, <3>2 DEF Listed, AllLists
    <3>4. b \notin live' /\ \A t \in Remotes : ~Held(t, b)'
      BY <3>1, <3>3 DEF IInv, Placed
    <3> QED
      BY <2>1, <3>4 DEF Held, HeldBy
  <2> QED
    BY <2>2, <2>3, <2>4
<1>2. CASE (\E t \in Remotes, b \in Blocks : RemoteFree(t, b)) \/ \E t \in Remotes : RemoteStep(t)
  BY <1>2, RemoteMoves DEF LeavesSafely
<1>3. CASE UNCHANGED vars
  BY <1>3 DEF vars, LeavesSafely
<1> QED
  BY <1>1, <1>2, <1>3 DEF Next

\* A page leaves its heap only when no thread is in the delayed-free protocol on it,
\* with its flag at NEVER if it is abandoned, and if it is freed, with no block of it in
\* the hands of the client or of another thread (page.c, heap.c, segment.c).
THEOREM PagesLeaveSafely == Spec => PageLeavesHeapSafely
<1>1. TypeOK /\ IInv /\ (TypeOK /\ IInv)' /\ [Next]_vars
        => [\A p \in Pages : LeavesSafely(p)]_vars
  BY StepLeavesSafely
<1>2. PageLeavesHeapSafely <=> [][\A p \in Pages : LeavesSafely(p)]_vars
  BY DEF PageLeavesHeapSafely, LeavesSafely
<1> QED
  BY <1>1, <1>2, Invariance, PTL DEF Spec

\* The reusable blocks of all pages are what the pool calls reusable.
AllReusable == UNION {page[p].free \cup page[p].fresh : p \in Pages}

LEMMA PoolInit == Init => Pool!Init
<1> SUFFICES ASSUME Init PROVE live = {} /\ AllReusable = Blocks
  BY DEF Pool!Init, AllReusable
<1>1. \A p \in Pages : page[p].free \cup page[p].fresh = BlocksOf(p)
  BY DEF Init, Cleared, BlocksOf
<1>2. \A b \in Blocks : b \in AllReusable
  BY <1>1, BlocksAssumption DEF AllReusable, BlocksOf
<1>3. AllReusable \subseteq Blocks
  BY <1>1 DEF AllReusable, BlocksOf
<1> QED
  BY <1>2, <1>3 DEF Init

LEMMA PoolStep ==
  ASSUME TypeOK, IInv, TypeOK', IInv', [Next]_vars
  PROVE  [Pool!Next]_(Pool!poolVars)
<1>1. ASSUME Keeps PROVE Pool!Next
  <2>1. AllReusable \subseteq AllReusable'
    <3> SUFFICES ASSUME NEW p \in Pages PROVE Reusable(page[p]) \subseteq Reusable(page'[p])
      BY DEF AllReusable, Reusable
    <3>1. Kept(p)
      BY <1>1 DEF Keeps
    <3>2. Cleared(p).fresh = BlocksOf(p) /\ Reusable(page[p]) \subseteq BlocksOf(p)
      BY DEF Cleared, IInv, Lists, PageLists, AllLists, Reusable
    <3> QED
      BY <3>1, <3>2 DEF Kept, Reusable
  <2>2. AllReusable' \subseteq Blocks \ live'
    <3> SUFFICES ASSUME NEW p \in Pages, NEW b \in Reusable(page'[p])
                 PROVE  b \in Blocks \ live'
      BY DEF AllReusable, Reusable
    <3>1. b \in Blocks /\ PageOf[b] = p
      BY DEF IInv, Lists, PageLists, AllLists, Reusable, BlocksOf
    <3>2. Listed(b)'
      BY <3>1 DEF Listed, AllLists, Reusable
    <3> QED
      BY <3>1, <3>2 DEF IInv, Placed
  <2>3. live' = live \ (live \ live') /\ live \ live' \in SUBSET Blocks
    BY <1>1 DEF Keeps, TypeOK
  <2>4. Pool!Destroy(live \ live')
    BY <2>1, <2>2, <2>3 DEF Pool!Destroy, Pool!Recycle, AllReusable
  <2> QED
    BY <2>3, <2>4 DEF Pool!Next
<1>2. ASSUME NEW p \in Pages, NEW b \in Blocks, Gives(p, b) PROVE Pool!Next
  <2>1. b \in AllReusable /\ live' = live \cup {b}
    BY <1>2 DEF Gives, AllReusable, Reusable
  <2>2. AllReusable' = AllReusable \ {b}
    BY <1>2 DEF Gives, AllReusable, Reusable
  <2>3. Pool!Alloc(b)
    BY <2>1, <2>2 DEF Pool!Alloc, AllReusable
  <2> QED
    BY <2>3 DEF Pool!Next
<1>3. CASE OwnerStep \/ OwnerCall
  BY <1>1, <1>2, <1>3, OwnerMoves
<1>4. CASE (\E t \in Remotes, b \in Blocks : RemoteFree(t, b)) \/ \E t \in Remotes : RemoteStep(t)
  BY <1>1, <1>4, RemoteMoves
<1>5. CASE UNCHANGED vars
  BY <1>5 DEF vars, Pool!poolVars
<1> QED
  BY <1>3, <1>4, <1>5 DEF Next

\* The page protocol implements the pool of blocks the client is promised: a block is
\* handed out only while reusable, and is reusable again only after it was freed
\* (alloc.c, free.c, page.c, heap.c, segment.c).
THEOREM BlocksRefinePool == Spec => ImplementsPool
<1>1. Init => Pool!Init
  BY PoolInit
<1>2. TypeOK /\ IInv /\ (TypeOK /\ IInv)' /\ [Next]_vars => [Pool!Next]_(Pool!poolVars)
  BY PoolStep
<1> QED
  BY <1>1, <1>2, Invariance, PTL DEF Spec, ImplementsPool, Pool!Spec
=============================================================================
