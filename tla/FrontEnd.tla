----------------------------- MODULE FrontEnd -----------------------------
(***************************************************************************)
(* The allocation front end: malloc, calloc, aligned allocation, realloc   *)
(* and its zeroing and aligned forms, the C++ and POSIX entries, guarded   *)
(* objects, padding and free, of one heap with a byte quota.               *)
(*                                                                         *)
(* Memory is modelled by the byte: each holds 0, the tag of the object     *)
(* that wrote it, one of the values the allocator writes, or JUNK, which   *)
(* is any value nobody has promised (a fresh dirty page, a freed block, a  *)
(* block that was not to be zeroed).  A call maps a state [pages, mem,     *)
(* used, prot] of the heap to the set of its outcomes [st, p]; p is NULL   *)
(* when it fails.                                                          *)
(***************************************************************************)
EXTENDS Sizes

CONSTANTS
  PageSlots,        \* slices a page can be in; slice s begins at s * SLICE
  BigSlot,          \* the slice of the page for a very large alignment
  MaxCapacity,      \* bound: blocks of a page
  BLOCK_ALIGN_MAX,  \* PA_BLOCK_ALIGNMENT_MAX
  Builds,           \* [padding, guarded, max, calls]: build options, the quota (0: none),
                    \* the bound on allocations and reallocations, and what the client asks for: sizes, counts <<count, size>>,
                    \* aligned <<size, alignment, offset>>, newsizes and newaligns
  Ids,              \* objects a client can have at a time, numbers from 10 on
  UsedBound         \* bound: used_bytes when another thread may still free

VARIABLES
  build,    \* the build
  st,       \* the heap
  objs,     \* the live objects of the client
  pending,  \* the size of a C++ new that has run out of memory, or -1
  calls     \* calls made so far

frontVars == <<build, st, objs, pending, calls>>

NULL == 0
JUNK == 1
TAG_GUARDED == 2     \* PA_BLOCK_TAG_GUARDED in the first word of a block
FILL == 3            \* PA_DEBUG_PADDING
AllSlots == PageSlots \cup {BigSlot}
Bytes(a, n) == a .. a + n - 1
Wrap(n) == n % (SizeMax + 1)
Pad == IF build.padding THEN WORD ELSE 0

\* pa_page_t as far as the front end reads it; free lists hold addresses.
EmptyPage == [bsize |-> 0, start |-> 0, capacity |-> 0, free |-> << >>, local_free |-> << >>,
              thread_free |-> << >>, has_aligned |-> FALSE, free_is_zero |-> FALSE, delta |-> << >>]

PageOfPtr(p) == p \div SLICE          \* _pa_ptr_page
IndexOf(pg, block) == (block - pg.start) \div pg.bsize + 1
UsableBlock(pg) == pg.bsize - Pad     \* pa_page_usable_block_size
InUse(pg) == pg.capacity - Len(pg.free) - Len(pg.local_free) - Len(pg.thread_free)
Set(mem, bytes, v) == [a \in DOMAIN mem |-> IF a \in bytes THEN v ELSE mem[a]]
Outcome(s, p) == [st |-> s, p |-> p]
-----------------------------------------------------------------------------
(* Pages (page.c, segment.c).                                               *)

\* _pa_page_free_collect
CollectPage(pg) ==
  LET local == pg.thread_free \o pg.local_free
      move == pg.free = << >> /\ local # << >>
  IN [pg EXCEPT !.thread_free = << >>,
                !.local_free = IF move THEN << >> ELSE local,
                !.free = IF move THEN local ELSE @,
                !.free_is_zero = @ /\ ~move]

\* A page of a slot, with its free list linked through its blocks: pa_page_init
\* and pa_page_extend_free on memory that is zero or not.
FreshPage(s, slot, bsize, start, capacity, zero) ==
  LET blocks == [i \in 1 .. capacity |-> start + (i - 1) * bsize]
  IN [s EXCEPT !.pages[slot] =
                  [EmptyPage EXCEPT !.bsize = bsize, !.start = start, !.capacity = capacity, !.free = blocks,
                                    !.free_is_zero = zero, !.delta = [i \in 1 .. capacity |-> 0]],
               !.mem = Set(Set(s.mem, Bytes(slot * SLICE, SLICE), IF zero THEN 0 ELSE JUNK),
                           UNION {Bytes(blocks[i], WORD) : i \in 1 .. capacity}, JUNK)]

\* _pa_page_free: the slot goes back to its segment.
DropPage(s, slot) ==
  [s EXCEPT !.pages[slot] = EmptyPage, !.mem = Set(s.mem, Bytes(slot * SLICE, SLICE), JUNK)]

\* pa_heap_collect: pages without a block in use are freed, others collected.
CollectHeap(s) ==
  [s EXCEPT !.pages = [slot \in AllSlots |-> IF InUse(s.pages[slot]) = 0 THEN EmptyPage
                                             ELSE CollectPage(s.pages[slot])],
            !.mem = Set(s.mem, UNION {Bytes(slot * SLICE, SLICE) :
                                        slot \in {x \in AllSlots : InUse(s.pages[x]) = 0}}, JUNK)]

\* The block size of the class of a size
ClassSize == [size \in 0 .. SizeMax |-> BinSize(BinFast(size))]

\* A fresh page of a class, in an unused slot
FreshOfClass(s, slot, bsize, offset) ==
  LET room == (SLICE - offset) \div bsize
  IN {<<FreshPage(s, slot, bsize, slot * SLICE + offset, Min({room, MaxCapacity}), zero), slot>> :
        zero \in {z \in BOOLEAN : room > 0}}

\* pa_find_free_page: a page of the class with a free block, or a fresh one.
FindFreePage(s, bsize) ==
  LET ready == {slot \in PageSlots : s.pages[slot].bsize = bsize /\ CollectPage(s.pages[slot]).free # << >>}
      unused == {slot \in PageSlots : s.pages[slot].bsize = 0}
  IN IF ready # {} THEN {<<[s EXCEPT !.pages[slot] = CollectPage(@)], slot>> : slot \in ready}
     ELSE UNION {FreshOfClass(s, slot, bsize, PageStartOffset(slot * SLICE, SLICE, bsize)) :
                   slot \in {x \in unused : \A y \in unused : x <= y}}

\* pa_large_huge_page_alloc: a page of one block with room for an aligned
\* object of this size (the segment is made large enough; here the slot is).
LargeHugePage(s, size, alignment) ==
  LET start == BigSlot * SLICE + MAX_ALIGN
      first == IF alignment = 0 THEN start ELSE AlignUpTo(start, alignment)
  IN {<<FreshPage(s, BigSlot, SLICE - MAX_ALIGN, start, 1, zero), BigSlot>> :
        zero \in {z \in BOOLEAN : s.pages[BigSlot].bsize = 0 /\ first + size <= (BigSlot + 1) * SLICE}}

\* pa_find_page: `size` includes the padding and may have wrapped around.
FindPage(s, size, alignment) ==
  LET req_size == Wrap(size - Pad)
  IN IF req_size <= MEDIUM - Pad /\ alignment = 0 THEN FindFreePage(s, ClassSize[size])
     ELSE IF req_size > MAX_ALLOC THEN {} ELSE LargeHugePage(s, size, alignment)
-----------------------------------------------------------------------------
(* Allocation (alloc.c, page.c).                                            *)

\* _pa_page_finish_alloc: zero the block, or only its link when the page is
\* zero; count it; write the padding and the fill in front of it.
FinishAlloc(s, slot, block, size, zero) ==
  LET pg == s.pages[slot]
      delta == UsableBlock(pg) - (size - Pad)
      cleared == IF ~zero THEN Set(s.mem, Bytes(block, pg.bsize), JUNK)
                 ELSE Set(s.mem, Bytes(block, IF pg.free_is_zero THEN WORD ELSE pg.bsize - Pad), 0)
      fill == IF build.padding /\ slot # BigSlot
              THEN Bytes(block + (size - Pad), Min({delta, MAX_ALIGN})) ELSE {}
  IN [s EXCEPT !.mem = Set(cleared, fill, FILL),
               !.used = Wrap(@ + UsableBlock(pg)),
               !.pages[slot].delta[IndexOf(pg, block)] = delta]

\* _pa_page_malloc_zero, with a block on the free list
PageMalloc(s, slot, size, zero) ==
  LET block == Head(s.pages[slot].free)
  IN Outcome(FinishAlloc([s EXCEPT !.pages[slot].free = Tail(@)], slot, block, size, zero), block)

\* max_size - used_bytes as the code computes it
OverQuota(s, size) == build.max # 0 /\ size > Wrap(build.max - s.used)

\* _pa_malloc_generic: when there is no page, collect and look once more.
MallocGeneric(s, size, zero, alignment) ==
  LET from(x, found) == IF found = {} THEN {Outcome(x, NULL)}
                        ELSE {PageMalloc(f[1], f[2], size, zero) : f \in found}
      orCollect(found) == IF found # {} THEN from(s, found)
                          ELSE from(CollectHeap(s), FindPage(CollectHeap(s), size, alignment))
  IN IF OverQuota(s, size) THEN {Outcome(s, NULL)} ELSE orCollect(FindPage(s, size, alignment))

\* pa_block_ptr_set_guarded: protect the last OS page of the block and place
\* the object in front of it.
GuardBlock(s, block, obj_size) ==
  LET pg == s.pages[PageOfPtr(block)]
      guard == block + pg.bsize - OS_PAGE
      marked == [s EXCEPT !.pages[PageOfPtr(block)].has_aligned = TRUE,
                          !.mem = Set(s.mem, Bytes(block, WORD), TAG_GUARDED),
                          !.prot = IF guard % OS_PAGE = 0 THEN @ \cup {guard} ELSE @]
  IN Outcome(marked, block + Min({pg.bsize - OS_PAGE - obj_size, BLOCK_ALIGN_MAX}))

\* _pa_heap_malloc_guarded
MallocGuarded(s, size, zero) ==
  LET obj_size == AlignUpTo(size, MAX_ALIGN)
      req_size == AlignUpTo(AlignUpTo(obj_size + WORD, MAX_ALIGN) + OS_PAGE, OS_PAGE)
  IN {IF o.p = NULL THEN o ELSE GuardBlock(o.st, o.p, obj_size) : o \in MallocGeneric(s, req_size, zero, 0)}

\* pa_heap_malloc_use_guarded: the heap samples some allocations.
Sampled(guarded) == IF build.guarded /\ guarded THEN BOOLEAN ELSE {FALSE}

\* Pages of the class with a block on their free list; pages_free_direct has
\* one page of the class, with such a block or not.
Direct(s, size) ==
  {slot \in PageSlots : s.pages[slot].bsize = ClassSize[size] /\ s.pages[slot].free # << >>}
NoDirect(s, size) ==
  \/ Direct(s, size) = {}
  \/ \E slot \in PageSlots : s.pages[slot].bsize = ClassSize[size] /\ s.pages[slot].free = << >>

\* _pa_heap_malloc_zero_ex and pa_heap_malloc_small_zero, which takes the first
\* block of the direct page when there is one.
MallocEx(s, request, zero, alignment, guarded) ==
  LET size == IF request = 0 /\ (build.padding \/ build.guarded) THEN WORD ELSE request
      full == Wrap(size + Pad)
      small == request <= SMALL
      near == IF small /\ ~OverQuota(s, full) THEN Direct(s, full) ELSE {}
      plain == {PageMalloc(s, slot, full, zero) : slot \in near}
               \cup (IF near = {} \/ NoDirect(s, full)
                     THEN MallocGeneric(s, full, zero, IF small THEN 0 ELSE alignment) ELSE {})
  IN UNION {IF sample THEN MallocGuarded(s, size, zero) ELSE plain :
              sample \in Sampled(guarded /\ (small \/ alignment = 0))}
-----------------------------------------------------------------------------
(* Free and the usable size (free.c).                                       *)

\* _pa_page_ptr_unalign
Unalign(pg, p) == p - ((p - pg.start) % pg.bsize)

\* pa_block_ptr_is_guarded
IsGuarded(s, block, p) == build.guarded /\ p - block >= WORD /\ s.mem[block] = TAG_GUARDED

\* The block of a pointer, for the owner: interior pointers are only looked for
\* when the page has had one.
BlockOf(s, p) ==
  LET pg == s.pages[PageOfPtr(p)] IN IF pg.has_aligned THEN Unalign(pg, p) ELSE p

\* pa_usable_size, from the padding of the block when there is one
UsableIn(s, pg, block, p) ==
  (IF build.padding THEN UsableBlock(pg) - pg.delta[IndexOf(pg, block)] ELSE pg.bsize)
    - (p - block) - (IF IsGuarded(s, block, p) THEN OS_PAGE ELSE 0)
UsableSize(s, p) == UsableIn(s, s.pages[PageOfPtr(p)], BlockOf(s, p), p)

\* pa_block_check_unguard: the guard page is lifted before the block is freed.
Unguard(s, block, p) ==
  IF IsGuarded(s, block, p)
  THEN [s EXCEPT !.prot = @ \ {block + s.pages[PageOfPtr(p)].bsize - OS_PAGE}] ELSE s

\* What a block holds once it is on a free list.
Freed(s, slot, block) == [s EXCEPT !.mem = Set(s.mem, Bytes(block, s.pages[slot].bsize), JUNK)]

\* _pa_page_retire: the page forgets that it had interior pointers; it is kept
\* when it is the only one of its class, and freed otherwise.
Retire(s, slot) ==
  LET only == slot # BigSlot /\ \A x \in PageSlots \ {slot} : s.pages[x].bsize # s.pages[slot].bsize
  IN IF only THEN [s EXCEPT !.pages[slot].has_aligned = FALSE] ELSE DropPage(s, slot)

Uncounted(s, slot, block, usable) ==
  [s EXCEPT !.used = IF @ >= usable THEN @ - usable ELSE 0,
            !.pages[slot].local_free = <<block>> \o @]

\* pa_free_block_local: uncount the block; a page without blocks in use is
\* collected and retired.  Blocks that another thread freed and nobody has
\* collected yet are in use (page->used).
FreeBlock(s, slot, block, p) ==
  LET left == Uncounted(Freed(Unguard(s, block, p), slot, block), slot, block, UsableBlock(s.pages[slot]))
      pg == left.pages[slot]
  IN IF InUse(pg) + Len(pg.thread_free) > 0 THEN left
     ELSE Retire([left EXCEPT !.pages[slot] = CollectPage(pg)], slot)

FreeLocal(s, p) == FreeBlock(s, PageOfPtr(p), BlockOf(s, p), p)

\* pa_free_generic_mt, by another thread: the pointer is always unaligned, and
\* the block waits in thread_free, still counted.
FreeRemote(s, p) ==
  LET slot == PageOfPtr(p)
      block == Unalign(s.pages[slot], p)
  IN [Freed(Unguard(s, block, p), slot, block) EXCEPT !.pages[slot].thread_free = <<block>> \o @]
-----------------------------------------------------------------------------
(* Aligned allocation (alloc-aligned.c).                                    *)

\* pa_malloc_is_naturally_aligned
NaturallyAligned(size, alignment) ==
  /\ alignment <= size
  /\ \/ alignment <= MAX_ALIGN
     \/ GoodSize(size, Pad) <= MEDIUM /\ GoodSize(size, Pad) % alignment = 0

\* Mutant of AlignBlock: the page is not told that it has an interior pointer.
AlignBlockUntold(o, size, alignment, offset) ==
  LET poffset == (o.p + offset) % alignment
  IN IF o.p = NULL THEN o ELSE Outcome(o.st, IF poffset = 0 THEN o.p ELSE o.p + (alignment - poffset))

\* _pa_padding_shrink: the block has min_size usable bytes at least.
PaddingShrink(pg, block, min_size) ==
  IF build.padding THEN [pg EXCEPT !.delta[IndexOf(pg, block)] = Min({@, UsableBlock(pg) - min_size})] ELSE pg

\* The pointer in an over-allocated block that is aligned at the offset; in a
\* guarded build the block is tagged so that it is not taken for a guarded one.
AlignBlock(o, size, alignment, offset) ==
  LET poffset == (o.p + offset) % alignment
      adjust == IF poffset = 0 THEN 0 ELSE alignment - poffset
      tagged == IF build.guarded /\ adjust >= WORD THEN Set(o.st.mem, Bytes(o.p, WORD), 0) ELSE o.st.mem
  IN IF o.p = NULL \/ adjust = 0 THEN o
     ELSE Outcome([o.st EXCEPT !.pages[PageOfPtr(o.p)] = [PaddingShrink(@, o.p, adjust + size) EXCEPT !.has_aligned = TRUE],
                               !.mem = tagged], o.p + adjust)

\* pa_heap_malloc_zero_aligned_at_overalloc; in the page of a very large
\* alignment only the object itself is zeroed.
AlignedOveralloc(s, size, alignment, offset, zero) ==
  LET large == alignment > BLOCK_ALIGN_MAX
      oversize == IF ~large THEN Max({size, MAX_ALIGN}) + alignment - 1
                  ELSE IF size <= SMALL THEN SMALL + 1 ELSE size
      clear(o) == IF o.p # NULL /\ zero /\ large
                  THEN Outcome([o.st EXCEPT !.mem = Set(@, Bytes(o.p, UsableSize(o.st, o.p)), 0)], o.p) ELSE o
  IN IF large /\ offset # 0 THEN {Outcome(s, NULL)}
     ELSE {clear(AlignBlock(o, size, alignment, offset)) :
             o \in MallocEx(s, oversize, zero /\ ~large, IF large THEN alignment ELSE 0, FALSE)}

\* pa_heap_malloc_zero_aligned_at_generic: a block that is aligned by its class,
\* unless it turns out not to be.
AlignedOr(s, natural, size, alignment, offset, zero) ==
  LET right == {o \in natural : o.p % alignment = 0}
      retry == IF natural = {} THEN {s} ELSE {FreeLocal(o.st, o.p) : o \in natural \ right}
  IN right \cup UNION {AlignedOveralloc(x, size, alignment, offset, zero) : x \in retry}

AlignedGeneric(s, size, alignment, offset, zero) ==
  IF size > MAX_ALLOC - Pad THEN {Outcome(s, NULL)}
  ELSE AlignedOr(s, IF offset = 0 /\ NaturallyAligned(size, alignment)
                    THEN MallocEx(s, size, zero, 0, FALSE) ELSE {}, size, alignment, offset, zero)

\* pa_heap_malloc_zero_aligned_at: guarded, or a block at hand that happens to be
\* aligned (which no quota stops), or the generic way.
MallocAligned(s, size, alignment, offset, zero) ==
  LET direct_pages == Direct(s, size + Pad)
      fitting == {slot \in direct_pages : (Head(s.pages[slot].free) + offset) % alignment = 0}
      near == IF size <= SMALL /\ alignment <= size THEN fitting ELSE {}
      plain == {PageMalloc(s, slot, size + Pad, zero) : slot \in near}
               \cup (IF near = {} \/ near # direct_pages \/ NoDirect(s, size + Pad)
                     THEN AlignedGeneric(s, size, alignment, offset, zero) ELSE {})
      guarded == {IF o.p = NULL THEN o ELSE Outcome(o.st, AlignUpTo(o.p, alignment)) :
                    o \in MallocGuarded(s, size + alignment - 1, zero)}
  IN IF alignment = 0 \/ ~IsPowerOfTwo(alignment) THEN {Outcome(s, NULL)}
     ELSE UNION {IF sample THEN guarded ELSE plain :
                   sample \in Sampled(offset = 0 /\ alignment < BLOCK_ALIGN_MAX)}
-----------------------------------------------------------------------------
(* Reallocation (alloc.c, alloc-aligned.c).  Pages of one slice are never   *)
(* extended; the extension of a span is in Segments.                        *)

\* The allocation behind an entry point: alignment 0 when it asks for none.
Allocated(s, size, zero, alignment, offset, aligned) ==
  IF aligned THEN MallocAligned(s, size, alignment, offset, zero) ELSE MallocEx(s, size, zero, 0, TRUE)

\* pa_heap_realloc_zero_aligned_at: when an object of this usable size may stay.
StaysAligned(p, size, newsize, alignment, offset) ==
  newsize <= size /\ newsize >= size - (size \div 2) /\ (p + offset) % alignment = 0

\* The end of a reallocation: zero what is new, copy what is kept, free p.
Move(o, p, size, newsize, zero, aligned) ==
  LET zeroed == IF zero /\ newsize > size THEN Bytes(o.p + size, newsize - size)
                ELSE IF newsize = 0 /\ ~aligned THEN {o.p} ELSE {}
      copied == [a \in DOMAIN o.st.mem |->
                   IF a \in Bytes(o.p, Min({size, newsize})) THEN o.st.mem[a - o.p + p]
                   ELSE IF a \in zeroed THEN 0 ELSE o.st.mem[a]]
  IN IF o.p = NULL THEN o ELSE Outcome(FreeLocal([o.st EXCEPT !.mem = copied], p), o.p)

\* _pa_heap_realloc_zero, and the aligned form for alignments above a word, of
\* an object with `size` usable bytes
Realloc(s, p, size, newsize, zero, alignment, offset) ==
  LET aligned == alignment > WORD
      stays == IF aligned THEN StaysAligned(p, size, newsize, alignment, offset)
               ELSE newsize \in 1 .. size /\ newsize >= size - (size \div 4)
  IN IF stays THEN {Outcome(s, p)}
     ELSE {Move(o, p, size, newsize, zero, aligned) : o \in Allocated(s, newsize, FALSE, alignment, offset, aligned)}
-----------------------------------------------------------------------------
(* The client: what each entry point asks for, on objects of its own.       *)

ENDED == 3
NoObj == [p |-> NULL, size |-> 0, n |-> 0, zeroed |-> -1, align |-> 1, offset |-> 0]

FrontInit ==
  /\ build \in Builds
  /\ st = [pages |-> [slot \in AllSlots |-> EmptyPage], used |-> 0, prot |-> {},
           mem |-> [a \in UNION {Bytes(slot * SLICE, SLICE) : slot \in AllSlots} |-> JUNK]]
  /\ objs = [o \in Ids |-> NoObj]
  /\ pending = -1
  /\ calls = 0

Call == calls < build.calls /\ calls' = calls + 1

Live == {o \in Ids : objs[o].p # NULL}
NextId == {o \in Ids : objs[o].p = NULL /\ \A x \in Ids : x < o => objs[x].p # NULL}

NaturalAlign(size) == IF size >= MAX_ALIGN THEN MAX_ALIGN ELSE 1

\* What an entry point asks of the heap; `fill` says what the client then
\* writes: nothing ("zero"), every byte ("all"), or a text and its end ("text");
\* `new` is an entry that calls the C++ new handler.
Request(size, fill, new) ==
  [size |-> size, fill |-> fill, new |-> new, aligned |-> FALSE, align |-> NaturalAlign(size), offset |-> 0]
AlignedRequest(size, alignment, offset, fill) ==
  [size |-> size, fill |-> fill, new |-> FALSE, aligned |-> TRUE, align |-> alignment, offset |-> offset]

\* pa_malloc, pa_zalloc and the small, heap and `u` forms
MallocRequests == {Request(size, fill, FALSE) : size \in build.sizes, fill \in {"all", "zero"}}

\* pa_calloc and pa_mallocn
CallocRequests ==
  UNION {{Request(total, fill, FALSE) : total \in CountSize(r[1], r[2]), fill \in {"all", "zero"}} : r \in build.counts}

\* pa_malloc_aligned_at, pa_zalloc_aligned_at and the forms without an offset
AlignedRequests == {AlignedRequest(r[1], r[2], r[3], fill) : r \in build.aligned, fill \in {"all", "zero"}}

\* pa_posix_memalign
PosixRequests ==
  {AlignedRequest(r[1], r[2], 0, "all") :
     r \in {x \in build.aligned : x[2] % WORD = 0 /\ x[2] # 0 /\ IsPowerOfTwo(x[2])}}

\* pa_pvalloc (pa_valloc is an aligned allocation of one OS page)
PvallocRequests ==
  {AlignedRequest(AlignUpTo(size, OS_PAGE), OS_PAGE, 0, "all") : size \in {x \in build.sizes : x < SizeMax - OS_PAGE}}

\* pa_strdup, pa_strndup, pa_wcsdup: the text and a zero behind it
StrdupRequests == {Request(len + 1, "text", FALSE) : len \in build.sizes}

\* pa_new and pa_new_n
NewRequests == {Request(size, "all", TRUE) : size \in build.sizes}

\* The object a request makes at p: `n` bytes carry its tag and, unless `zeroed`
\* is -1, those after them are to be zero: 0 for a zeroed object, 1 once it has
\* been reallocated with zeroing (after the next one the code promises no more),
\* ENDED for a text.
Object(p, r) ==
  [p |-> p, size |-> r.size, align |-> r.align, offset |-> r.offset,
   n |-> CASE r.fill = "zero" -> 0 [] r.fill = "text" -> r.size - 1 [] OTHER -> r.size,
   zeroed |-> CASE r.fill = "zero" -> 0 [] r.fill = "text" -> ENDED [] OTHER -> -1]

Written(x, ob, o) ==
  LET tagged == Set(x.st.mem, Bytes(x.p, ob.n), o)
  IN IF x.p = NULL THEN x.st
     ELSE [x.st EXCEPT !.mem = IF ob.zeroed = ENDED THEN Set(tagged, {x.p + ob.n}, 0) ELSE tagged]

\* An allocation by any entry point.  pa_try_new: when there is no memory and
\* the client has objects its new handler can free, the request is pending.
Allocate(o, r) ==
  /\ Call /\ objs[o] = NoObj
  /\ \E x \in Allocated(st, r.size, r.fill = "zero", r.align, r.offset, r.aligned) :
       /\ st' = Written(x, Object(x.p, r), o)
       /\ objs' = IF x.p = NULL THEN objs ELSE [objs EXCEPT ![o] = Object(x.p, r)]
       /\ pending' = IF x.p = NULL /\ r.new /\ Live # {} THEN r.size ELSE pending
  /\ UNCHANGED build

\* The new handler frees an object of the client, and the allocation is tried
\* again; with nothing left to free there is no handler, and new gives up.
NewHandler(victim) ==
  LET left == [objs EXCEPT ![victim] = NoObj]
      r == Request(pending, "all", TRUE)
  IN /\ pending # -1
     /\ \E x \in MallocEx(FreeLocal(st, objs[victim].p), pending, FALSE, 0, TRUE) :
          /\ st' = Written(x, Object(x.p, r), victim)
          /\ objs' = IF x.p = NULL THEN left ELSE [left EXCEPT ![victim] = Object(x.p, r)]
          /\ pending' = IF x.p # NULL \/ \A i \in Ids : left[i] = NoObj THEN -1 ELSE pending
     /\ UNCHANGED <<build, calls>>

Release(o, s) ==
  /\ st' = s
  /\ objs' = [objs EXCEPT ![o] = NoObj]
  /\ UNCHANGED <<build, pending, calls>>

Free(o) == objs[o].p # NULL /\ Release(o, FreeLocal(st, objs[o].p))
FreeElsewhere(o) ==
  /\ objs[o].p # NULL /\ st.used <= UsedBound
  /\ Release(o, FreeRemote(st, objs[o].p))

\* What a reallocated object keeps and promises; without an alignment (0) one
\* that stays in place keeps its own.
Resized(ob, p, newsize, zero, alignment, offset) ==
  [p |-> p, size |-> newsize, n |-> Min({ob.n, newsize}),
   align |-> IF alignment # 0 THEN alignment ELSE IF p = ob.p THEN ob.align ELSE NaturalAlign(newsize),
   offset |-> IF alignment = 0 /\ p = ob.p THEN ob.offset ELSE offset,
   zeroed |-> IF ~zero \/ ob.zeroed \notin {0, 1} \/ newsize < ob.size THEN -1
              ELSE IF p = ob.p /\ (ob.zeroed = 0 \/ newsize = ob.size) THEN ob.zeroed
              ELSE IF ob.zeroed = 0 THEN 1 ELSE -1]

\* pa_realloc, pa_rezalloc, the forms with a count and pa_reallocf, which frees
\* the object when it cannot be reallocated; and the aligned forms, where the
\* offset is that of the old pointer, so that an aligned object stays aligned.
ReallocTo(o, newsize, zero, alignment, free) ==
  LET ob == objs[o]
      offset == IF alignment > WORD THEN ob.p % alignment ELSE 0
      aligned == IF alignment > WORD THEN alignment ELSE 0
  IN /\ Call /\ ob.p # NULL
     /\ free => ~zero /\ alignment = 0
     /\ \E x \in Realloc(st, ob.p, UsableSize(st, ob.p), newsize, zero, alignment, offset) :
          /\ st' = IF x.p = NULL /\ free THEN FreeLocal(x.st, ob.p) ELSE x.st
          /\ objs' = IF x.p # NULL THEN [objs EXCEPT ![o] = Resized(ob, x.p, newsize, zero, aligned, offset)]
                     ELSE IF free THEN [objs EXCEPT ![o] = NoObj] ELSE objs
     /\ UNCHANGED <<build, pending>>

HeapCollect ==
  /\ st' = CollectHeap(st)
  /\ UNCHANGED <<build, objs, pending, calls>>

FrontNext ==
  \/ pending = -1 /\
     \/ HeapCollect
     \/ \E o \in Live :
          \/ Free(o) \/ FreeElsewhere(o)
          \/ \E size \in build.newsizes, alignment \in build.newaligns,
                zero \in BOOLEAN, free \in BOOLEAN :
               ReallocTo(o, size, zero, alignment, free)
     \/ \E o \in NextId :
          \E r \in MallocRequests \cup CallocRequests \cup AlignedRequests \cup PosixRequests
                     \cup PvallocRequests \cup StrdupRequests \cup NewRequests : Allocate(o, r)
  \/ \E victim \in Live : NewHandler(victim)
-----------------------------------------------------------------------------
(* Properties.                                                              *)

\* The bytes a client may use (pa_usable_size, pa_expand), and the block they are in
Owned(o) == Bytes(objs[o].p, UsableSize(st, objs[o].p))
TrueBlock(o) == Unalign(st.pages[PageOfPtr(objs[o].p)], objs[o].p)

\* Every object the front end has handed out is sound: it is aligned as asked
\* at its offset, lies in one block that is on no free list, apart from other
\* objects and from guard pages; its usable size covers it; it still has every
\* byte the client wrote, through reallocations, and zero where zero was
\* promised; the fill behind it is intact, so that free sees no overflow; free
\* finds its block from the pointer; and guard pages lie only in the blocks of
\* live objects.  The quota is charged at least what the live objects hold.
PointersSound ==
  /\ \A o \in Live :
       LET ob == objs[o]
           pg == st.pages[PageOfPtr(ob.p)]
           block == TrueBlock(o)
           used == UsableBlock(pg) - pg.delta[IndexOf(pg, block)]
       IN /\ (ob.p + ob.offset) % ob.align = 0
          /\ pg.bsize > 0 /\ Owned(o) \subseteq Bytes(block, UsableBlock(pg))
          /\ block \notin Range(pg.free) \cup Range(pg.local_free) \cup Range(pg.thread_free)
          /\ BlockOf(st, ob.p) = block
          /\ UsableSize(st, ob.p) >= ob.size
          /\ \A g \in st.prot : Owned(o) \cap Bytes(g, OS_PAGE) = {}
          /\ \A a \in Bytes(ob.p, ob.n) : st.mem[a] = o
          /\ ob.zeroed \in {0, 1, ENDED} => \A a \in Bytes(ob.p + ob.n, ob.size - ob.n) : st.mem[a] = 0
          /\ build.padding /\ PageOfPtr(ob.p) # BigSlot =>
               \A a \in Bytes(block + used, Min({UsableBlock(pg) - used, MAX_ALIGN})) : st.mem[a] = FILL
  /\ \A o, x \in Live : o # x => TrueBlock(o) # TrueBlock(x)
  /\ st.used >= FoldSet(LAMBDA o, sum : sum + UsableBlock(st.pages[PageOfPtr(objs[o].p)]), 0, Live)
  /\ \A g \in st.prot : \E o \in Live : g \in Bytes(TrueBlock(o), st.pages[PageOfPtr(objs[o].p)].bsize)
=============================================================================
