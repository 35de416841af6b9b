# A TLA+ development for palloc

palloc is a general-purpose memory allocator in C, in the style of mimalloc: thread-local
heaps of pages, pages cut from segments, segments taken from arenas, and lock-free
protocols wherever threads meet. This directory holds TLA+ models of those protocols, the
TLC configurations that check them on small instances, and proofs checked by TLAPS.
`PROJECT.json` maps every definition to the lines of the code it models.

## The system

| Component | State | Operations | Meets others through |
|---|---|---|---|
| Blocks and pages (`free.c`, `page.c`, `alloc.c`) | per page: `free`, `local_free`, `xthread_free` (list and 2-bit delayed flag), `used`, `capacity`, `xheap` | malloc (fast, generic), local free, free by another thread, collect, extend, retire | other threads write `xthread_free` and a heap's `thread_delayed_free` |
| Heaps (`heap.c`, `page-queue.c`) | page queues per size class, full queue, `thread_delayed_free`, list of the thread's heaps, byte quota | new, collect, delete (absorb), destroy, abandon at thread end | `xheap` of its pages is read by freeing threads |
| Abandonment (`segment.c`, `arena-abandon.c`) | `thread_id` of a segment, abandoned bits and count, list of OS segments, cursor | abandon, reclaim (on malloc, on free, all), force-abandon | any thread may take an abandoned segment |
| Segments (`segment.c`) | slices, spans, commit and purge masks with expiration | span alloc, split, coalesce, commit, purge | arena alloc and free |
| Arenas (`arena.c`) | bitmaps `inuse`, `committed`, `purge`, `dirty`; two expirations; purge guard | claim, commit, free, schedule purge, try purge | all threads, through atomic bitmaps |
| Bitmaps (`bitmap.c`) | an array of atomic words | claim, find and claim (across fields), unclaim | all threads |
| Segment map (`segment-map.c`) | bits per segment address, in parts made on demand | allocated, freed, lookup | all threads |
| Threads and process (`init.c`) | init state, default and backing heaps, thread data and its cache, thread count, background worker | load, init, thread init and done, exit | waiting for the initialising thread; abandon at thread end; the worker |
| Front end (`alloc.c`, `alloc-aligned.c`, `alloc-posix.c`, `heap.c`) | `used_bytes` and `max_size`; flags, padding and tags in pages and blocks | malloc, calloc, aligned, realloc, posix, new, free | pages and heaps |
| Size arithmetic and queues (`page-queue.c`, `internal.h`, `bitmap.c`, `segment.c`) | queues per bin, table of small pages | bin of a size, push, remove, move, enqueue from | heaps, segments |
| OS layer (`os.c`, `prim/unix`) | mappings, huge-page address, reserved and committed counts | alloc (aligned), free, commit, decommit, reset, protect, huge pages | the OS and the rest of the process |
| Pomai arena (`arena_pomai.c`) | header, bump pointer, committed end, spin lock | create, alloc, reset, destroy | threads that share one arena |
| Vector arenas (`palloc_vector.c`) | bump arena; slot pool; buckets of a batch free | create, alloc, batch, reset, clear, pool alloc and free, batch free | batch free meets the owner of the pages |
| Options and messages (`options.c`) | option values and their state, output function, delayed buffer, counters, recursion flag | get, set, load, warn, error, register output | all threads; nested calls |
| Statistics, random numbers, libc replacements, backends | – | counting, formatting, forwarding | – |

What is hard here:

* **Frees race with the owner.** A thread that frees a block of another thread's page swaps
  two bits and a list head in one word, then reads `xheap` unsynchronised, then pushes on
  that heap's delayed list, then resets the flag. Between any two of these the owner may
  collect, absorb the heap, abandon the page, or exit.
* **Give-up and retry.** The owner yields at most four times on a page in state FREEING,
  and puts the block back.
* **Order of multi-step operations.** Absorb sets the heap before the flag; abandon sets every
  page to NEVER, then empties the delayed list, then abandons; force-abandon clears
  `dont_free` before the last page.
* **Ownership by bits.** A set bit in `blocks_inuse` is the only right to touch memory and
  the other three bitmaps, and the purger needs it too; a claim over several words is not
  atomic and rolls back.
* **Time.** Delayed purges depend on two expirations that are set, tested and reset by
  different threads.
* **Things that must happen in the end.** Calls that spin must return, freed blocks must
  come back, full pages must wake up, scheduled purges must run.

The properties that make each component correct: no block is lost, duplicated or given
out twice and `used` counts exactly (pages); a freeing thread never pushes on a heap that is
gone, and delayed lists never refer to a page that left the heap (heaps, abandonment); claims
are disjoint and rollbacks exact (bitmaps); memory in use is never decommitted and commit
bits are honest (arenas); spans tile a segment and committed memory covers every used
page (segments); a segment is taken by one thread only and the count agrees with the bits
(abandoned bookkeeping); what a client gets is aligned, its own, committed and keeps its bytes
(front end, OS layer, vector allocators); the process is initialised once and the worker ends
before memory is released (life cycle). `PROJECT.json` lists the hazards line by line.

## Modules

| Module | What it is |
|---|---|
| `PageBlocks` | life cycle of blocks, pages and heaps between an owning thread and freeing threads |
| `BlockPool` | abstract specification: what a client may rely on about blocks |
| `PageBlocksInvariant` | the inductive invariant of `PageBlocks` |
| `PageBlocksProofs` | proofs that `PageBlocks` is type correct, that every step preserves the inductive invariant, of the safety properties, and of the refinement of `BlockPool` |
| `Bitmap` | atomic claims and releases of bit ranges, in one field and across fields |
| `BitmapProofs` | proofs that claims never overlap, bits are exact and the scan is right |
| `Arena` | one arena: claim, commit, free, delayed purge, the purger, the clock |
| `ArenaProofs` | proofs about `Arena`: types, one owner of every block in use, and on top of that committed, purge and dirty bits |
| `Segments` | slices, spans, pages, commit and purge masks of segments |
| `SegmentsProofs` | proofs of all invariants of `Segments` |
| `Abandoned` | who may touch a segment: abandoned bits and list, cursor, free, segment map, thread data |
| `AbandonedProofs` | proofs of all invariants of `Abandoned` |
| `OsMemory` | the OS layer over mmap |
| `Arenas` | the table of arenas: reserve, add, search, static meta area, destroy |
| `OsMemoryProofs` | proofs of all invariants of `OsMemory` and of `Arenas` |
| `FrontEnd`, `Sizes` | calls of the client over remembered bytes; the arithmetic and the queues they rest on |
| `PomaiArena`, `VecArena`, `VecPool`, `VectorBatch`, `VectorParams`; `VectorApi` | the vector allocators, their shared constants, and their composition |
| `VectorProofs` | proofs that vectors are usable and that a batch frees each block once |
| `Process` | process and thread life cycle with the background worker |
| `Messages` | options, messages, the delayed output buffer |
| `ProcessProofs` | proofs that the life cycle is safe and that messages and options are sound |
| `MCPageBlocks`, `MCBitmap`, `MCArena`, `MCSegments`, `MCAbandoned`, `MCOsMemory`, `MCFrontEnd`, `MCClient` | constants for TLC; the last three put together modules that share no state, each explored by itself |

A definition called *Mutant of X* is X with a plausible mistake. No specification uses it;
it is there to show that the properties would notice: with X replaced by it, the property
named in `PROJECT.json` fails.

### PageBlocks

One action is one atomic access of a shared word (`xthread_free`, `xheap`,
`thread_delayed_free`) with the private work of the thread next to it. `page[p]` has the fields
of `pa_page_s` the protocol uses; `fresh` are the blocks between `capacity` and `reserved`;
`place` says whether the page is in no queue, in its size queue, in the full queue or
abandoned. `owner` is the progress (pc, operands) of the thread that owns the heaps,
`remote[t]` that of a freeing thread in `pa_free_block_delayed_mt`.

| Code | Actions |
|---|---|
| `pa_free` by another thread | `RemoteFree`, `RemotePush`, `RemoteLoadHeap`, `RemoteDelay`, `RemoteReset` |
| `pa_malloc` | `MallocFast`, `MallocGeneric`, `FindFull`, `FindCandidate`, `ToFullCollect`, `MallocFound`, `MallocFresh`, `MallocNoPage` |
| `pa_free` by the owner, retire | `OwnerFree`, `CollectRetired` |
| `_pa_heap_delayed_free_partial`/`_all` | `DelayedTake`, `DelayedUse`, `DelayedGiveUp`, `DelayedFree`, `DelayedDone` |
| `pa_heap_collect_ex`, thread end | `HeapCollect`, `HeapAbandon`, `NeverDelayed`, `NeverDone`, `VisitPage`, `VisitDone`, `CollectAbandoned`, `CollectDone`, `ThreadInit` |
| `pa_heap_delete` | `HeapAbsorb`, `AppendHeap`, `AppendFlag`, `AppendDone`, `AbsorbDone` |
| `pa_heap_destroy`, `pa_heap_new` | `HeapDestroy`, `HeapNew` |
| reclaim, force-abandon | `Reclaim`, `ReclaimFlag`, `ReclaimCollect`, `AbandonedCheck`, `ForceAbandon`, `ForceAbandonNever`, `ForceAbandonDone` |

What is abstracted. Lists are sets: no code relies on their order. A compare-and-swap loop is its
last round. Memory is sequentially consistent; the orders the code asks for are not
questioned. One thread owns heaps; after it has ended (`gone`) `ThreadInit` starts the next one,
possibly at a reused heap address. A heap has one size class and a segment one page, so
`_pa_page_free` frees the segment. The deferred-free callback, statistics, padding and guard
checks and the thread cache are left out (the cache is off in this build:
`PA_CACHE_MAX_PER_BIN` is 0). When `pa_free` reclaims the segment of the block it frees, the free
that follows is an `OwnerFree`. Retired pages found by a collect are freed by `VisitPage`. The
reclaim of all segments in a forced collect of the main thread is `Reclaim` before the collect.

### Bitmap

A field is the set of its one bits. `thread[t]` is the progress of a thread: a search visits
the fields, a claim across fields looks at the zeros at the end of the first field
(`Across`), scans ahead (`Ahead`), claims the first, middle and final field (`ClaimFirst`,
`ClaimNext`) and rolls back in reverse order (`Rollback`), at most three retries. A claim inside a
field is a load and scan (`InField`) and a compare-and-swap that goes on from the same bit when it
fails (`CasField`). A release clears one field per step (`UnclaimField`). `held` are the ranges
clients have. The masks of claims and of releases are computed by different code, and so by
different operators here.

### Arena

`inuse`, `committed`, `purge` and `dirty` are the bitmaps; `os` and `written` stand for the memory
itself: blocks that may be accessed, and blocks that were used. `allocs` are the
allocations of clients, each with the part the client knows to be committed: the client is a
segment, which commits (`ClientCommit`) and decommits (`ClientPurge`) parts as it goes. Every
access of a bitmap is a step, except that a thread's accesses to bits of blocks it owns, which
nobody else touches, are joined. The arena fits one bitmap field, as the default reserve does, so
that a range operation is one atomic access; the claims across fields are the subject of
`Bitmap`. Options (delay of purges, decommit or reset, whether a decommit needs a
recommit, eager commit) are chosen in `Init`. Times are relative to the clock and `Tick` lowers
them; a thread that has read the clock may be overtaken by `MaxLag` ticks before it uses
the value. With one arena `pa_arenas_try_purge` leaves the global expiration set only after a
forced collect that purged (`max_purge_count` is 1 then).

Not in this module: the choice among arenas, reserve and the static meta area, which are in
`Arenas`; pinned memory (no commit and purge bitmaps), preloading.

### Segments

`segment[s]` has the slices with their `slice_count` and `slice_offset`, the commit and purge masks and the
purge deadline, and what the memory really is (committed by the OS, used before). `tld[t]` has the span
queues of a thread, `blocks` the blocks of clients. A segment is worked on by one thread at a
time, which `Abandoned` shows, so that a call is one step, but for the allocation of a page, which goes back to
its start after getting or reclaiming a segment.

| Code | Actions |
|---|---|
| `_pa_segment_page_alloc` and below | `PageAlloc`, `SegmentAlloc`, `SegmentAllocFails`, `TryReclaim`, `PageAllocAgain`, `HugePageAlloc`, `BlockAlloc` |
| `_pa_heap_realloc_zero`, `_pa_segment_try_extend_span` | `ReallocInPlace` |
| `_pa_segment_page_free`, `_pa_segment_page_abandon` | `PageFree`, `PageAbandon` |
| `_pa_segment_attempt_reclaim`, `pa_segment_force_abandon`, `_pa_abandoned_collect`, `_pa_segment_collect` | `AttemptReclaim`, `ForceAbandon`, `AbandonedCollect`, `SegmentCollect` |
| blocks freed by any thread, the clock | `BlockFree`, `TimePasses` |

Slices, commit grains and purge grains are one unit. The coalescing, splitting and masks are operators on a
segment record. The entries inside a free span, which the code leaves undetermined, are forgotten
after each call. A huge segment is at least as long as a normal one; a shorter one differs only in where its page ends,
which is the end of every loop. `CommitFails` and `ExtendPages` say in which calls the OS may refuse to commit and which
blocks are grown in place; the findings and notes below say what happens in those the run `segments`
leaves out.

### Abandoned

Every step is one access to the bit, to `abandoned_count`, to `thread_id`, to a lock or a list. Threads abandon
(`AbandonStep`), free blocks and reclaim by it (`FreeStep`), walk with a cursor to reclaim, collect,
force or visit (`CursorStep`), and start and end (`ThreadStep`), with the thread data and its cache,
sub-processes, and the segment map with parts made on demand. Inside, a segment has only a number of live blocks.

The map has one part that threads compete to make (`MapCas`, `MapAllocatedAt`). The allocation of the part may fail, and a
segment in `BeyondMap` lies above the addresses the map covers: `MapFails`. The code then uses the segment without a bit in
the map. `map[t]` are the bits in the part thread `t` made; `map[Nobody]` is a history, the live segments that found no part,
which `MapExact` needs to say which segments the map owes. A segment's return clears its bit if there is a part.

### OsMemory and Arenas

The address space is a row of pages of nobody, of palloc, or of the rest of the process, which maps and unmaps
too. Each system call is a step that may fail. Areas are in half pages, to show the rounding. `wanted` is
what the caller may use according to the answers it got. The model is of systems with partial unmap (mmap).
A claim of huge pages goes on page by page (`AllocHugeOsPage`) and ends with all of them, with a failure or a timeout
(`AllocHugeDone`), or with a page that the OS places elsewhere (`AllocHugeElsewhere`), which is freed and lowers `reserved`
though only a page in place raises it. `uncounted` is a history: how far `reserved` was lowered for pages it never
counted, those and the ones missing from a short reservation when it is freed.
In `Arenas` addresses are numbers; a search of the table takes one arena per step, adding an arena
is a compare-and-swap of the count and a later store of the entry, and the structure of an arena comes from the
static area (add, roll back) or from the OS. A claim inside an arena is one step here.

### FrontEnd and Sizes

Memory is modelled by the byte: 0, the tag of the object that wrote it, a value the allocator writes, or `JUNK`,
any value nobody promised. A call maps a heap to the set of its outcomes; the actions are the calls of a
client: allocate in any of the forms, reallocate, free here or elsewhere, collect, and the `new` handler, which may
free an object. A free by the owner that leaves no block in use (`page->used`, which counts what waits on `thread_free`)
collects the page and then retires it (`free.c:62`), which clears `has_aligned` whether the page is kept or not. Builds are plain, with padding and a quota, and guarded. `Sizes` has the arithmetic as the code
does it (bins by table and by bit scan, start of the first block, division by a multiply, overflow tests, commit
mask runs, the walk over used blocks), a probe that runs through the inputs, and the queues with
the table of small pages. Widths are scaled down; the shapes of the formulas are the code's.

### The vector allocators

`PomaiArena`: the bump of a shared arena is a compare-and-swap; the commit takes a spin lock, may fail, and rolls
the bump back with one compare-and-swap. `VecArena` and `VecPool` are for one thread. `VectorBatch`:
a batch is allocated block by block and freed by any thread; blocks of other threads' pages
are put in buckets by page, and each bucket is spliced into `xthread_free`, or delayed, against the steps of an owner
that collects, sets NEVER, abandons and reclaims. `VectorApi` lets a client use one of them at a time.

### Process and Messages

`Process`: either the loader runs first, or the first thread to allocate initialises; the others wait; each thread gets a
default heap, which may fail, the initialising thread before it starts the worker and publishes; the worker checks, sleeps and purges; exit stops and joins it before memory is
released. `Messages`: a thread has a stack of frames, as reading a bad option warns, and a warning reads options,
and the output function of the program may cause messages. A text is its length and its author. `Ended` and
`Quiet` are the states in which the program rests, so that TLC can look for deadlocks.

## Runs

| Run | Instance | Question and answer |
|---|---|---|
| `blocks` | two pages (3 blocks, 1 block), two heaps, two freeing threads | Safety of the whole block life cycle, and that it implements `BlockPool`. Holds; 1.2 million states. |
| `blocks_live` | one page of 2 blocks, two heaps, two freeing threads, fair | Every call returns, freed blocks come back, full pages leave the full queue. Holds. |
| `force_abandon` | one page, one thread | "We can still access the page meta-info": not for the last page of a segment. |
| `bitmap` | two threads, three fields of three bits, counts 2, 3 and 7, one leftover bit | Claims disjoint, bits exact, releases find their bits, scan finds the first place. Holds; 0.4 million states. |
| `arena` | two threads, two blocks, five option settings, lag 1 | One owner, no decommit of memory in use, honest commit bits. Holds; 1.3 million states. |
| `arena_purge` | one thread, one block, fair | A scheduled purge is carried out in the end: never, once the expiration has passed. |
| `segments` | two threads, one segment of four slices, pages of 1 and 2 slices, one or two blocks, failing commits of pages and segments | Spans tile the segment and are queued right, pages stay committed, blocks apart, zero pages clean. Holds. |
| `segments_extend` | one thread, in-place growth of any block | The block that grows stays apart from others: not in a page of several blocks. |
| `abandoned` | two threads, two thread data, in two programs: an arena and an OS segment with two sub-processes; three OS segments, one beyond the map, and a part that may be refused, without walks | One holder of every segment and thread data, exact counts, segments pinned by frees; the map knows what found a part and nothing that was returned. Holds; 1.4 million states. |
| `osmemory` | two threads; seven pages; a table of two arenas with given, reserved and huge memory | Allocations own their memory, what was promised is accessible, nothing leaks and what is reserved is accounted for, the table is sound. Holds; 0.6 million states. |
| `client` | three threads and two slabs and pages; two threads, a worker and a loader; two threads with two messages | Vectors usable, batch frees exact, life cycle safe, messages sound. Holds; 0.9 million states. |
| `front` | three builds, two pages, two objects; sizes up to 140 | Pointers sound through all calls; arithmetic right, small-page table exact. Holds. |

Why the bounds are enough to be interesting. In `blocks` three blocks let one be on
`thread_free`, one on a delayed list and one with a thread in the middle of a free at the same
time; two freeing threads compete for the FREEING state; the second page makes a queue with
a choice, a full queue next to a normal one, and an absorb or abandon of a heap in which pages
are in different stages; two heaps are what absorb and a reused address need. Three
fields and a count of seven are the least for a claim with a middle field, a rollback over two fields and a
range that ends with a field; two threads then also roll back against each other. Two blocks in an
arena allow a purge range that shrinks, and one that is allocated in part between the two reads
of the purge bits; a claimed range with a gap in it needs three, which is beyond TLC with
these options: there the proofs take over, which have no bounds.
Four slices are the least for a page with a free span on each side of it, next to the slice of the segment structure; two
threads for a segment that is abandoned, freed into and reclaimed. One arena segment and one OS segment go through the
two ways of abandoning; two threads compete for each. Two OS segments let two threads make the part of the map at once; the
third finds it beyond its addresses, or fails to find memory for it like the others. Seven pages let an aligned allocation
be over-allocated and trimmed on both sides; areas of three and four half pages share a page with a neighbour on one side, on both
and on none; huge pages have an area of two. A table of two arenas gets full while a third one
is reserved. Three vector threads allow a bump, a bump behind it, and a rollback of the first. A delayed
buffer of four characters overflows with the second message. The front end is bounded by the number of calls
(`calls` of a build): three in a row are the least for a reallocation of an aligned block into a page with a freed one.

The safety runs use symmetry (threads, and blocks of one page); the liveness runs do not.

### Fairness

* `Progress` (`PageBlocks`), `WF_vars(ThreadStep(t))` (`Arena`): a thread inside a call keeps
  running. Operating systems schedule runnable threads, and the spinning loops yield.
* `KeepsCollecting`: the owner keeps using its heaps, and `_pa_malloc_generic` does delayed frees
  on every slow path and a collect every so many; the collects of any thread visit abandoned
  segments. It is strong fairness, as a collect can begin only between calls.
* `WF_vars(Collect(t, FALSE))`, `WF_vars(Tick)` (`Arena`): threads call an unforced collect, or
  free a segment, now and then, and time passes. This is the most a purge can hope for, and
  the violation does not come from a lack of it.

## What is proved

All theorems hold for every value of the constants that satisfies the named assumptions; none
of them bounds the number of threads, pages or blocks.

| Theorem | Module | States | Assumptions |
|---|---|---|---|
| `TypeCorrect` | `PageBlocksProofs` | `[]TypeOK` of `PageBlocks` | `BlocksAssumption`, `NullAssumption`, `HeapsAssumption` |
| `Invariance` | `PageBlocksProofs` | `[](TypeOK /\ IInv)` of `PageBlocks` | the same |
| `BlocksNeverLost` | `PageBlocksProofs` | `[]BlockInOnePlace` | the same |
| `UsedIsExact` | `PageBlocksProofs` | `[]UsedCount` | the same |
| `FreeingProtectsPage` | `PageBlocksProofs` | `[]FreeingPinsPage` | the same |
| `RacyHeapReadSafe` | `PageBlocksProofs` | `[]RemoteHeapValid` | the same |
| `NoDelayedMeansPending` | `PageBlocksProofs` | `[]NoDelayedHasPending` | the same |
| `DelayedListsOwned` | `PageBlocksProofs` | `[]DelayedRefsOwned` | the same |
| `FullPagesWake` | `PageBlocksProofs` | `[]FullPageWakes` | the same |
| `PagesLeaveSafely` | `PageBlocksProofs` | `PageLeavesHeapSafely`, an action property | the same |
| `BlocksRefinePool` | `PageBlocksProofs` | `ImplementsPool`: the refinement of `BlockPool` | the same |
| `Invariance` | `BitmapProofs` | `[](TypeOK /\ IInv)` of `Bitmap` | `SizeAssumption` |
| `ClaimsNeverOverlap` | `BitmapProofs` | `[]ClaimsDisjoint` | `SizeAssumption` |
| `BitmapIsExact` | `BitmapProofs` | `[]BitmapExact` | `SizeAssumption` |
| `ScanCorrect` | `BitmapProofs` | `[]ScanFindsFirst` | `SizeAssumption` |
| `TypeCorrect` | `ArenaProofs` | `[]TypeOK` of `Arena` | `ArenaAssumption` |
| `OwnershipCorrect` | `ArenaProofs` | `[]OneOwner` | `ArenaAssumption` |
| `UsableCorrect` | `ArenaProofs` | `[]UsableIsCommitted` | `ArenaAssumption` |
| `CommittedCorrect` | `ArenaProofs` | `[]CommittedIsCommitted` | `ArenaAssumption` |
| `PurgeCorrect` | `ArenaProofs` | `[]NoneScheduled` | `ArenaAssumption` |
| `ZeroCorrect` | `ArenaProofs` | `[]ZeroIsUnused` | `ArenaAssumption` |
| `Invariance` | `AbandonedProofs` | `[](TypeOK /\ IInv)` of `Abandoned` | `AbandonedAssumption` |
| `SegmentsHaveOneHolder` | `AbandonedProofs` | `[]OneHolder` | `AbandonedAssumption` |
| `CountsAreExact` | `AbandonedProofs` | `[]CountExact` | `AbandonedAssumption` |
| `FreeingKeepsSegments` | `AbandonedProofs` | `[]FreeingPins` | `AbandonedAssumption` |
| `SegmentMapIsExact` | `AbandonedProofs` | `[]MapExact` | `AbandonedAssumption` |
| `ThreadDataIsOwn` | `AbandonedProofs` | `[]DataUnique` | `AbandonedAssumption` |
| `LifecycleIsSafe` | `ProcessProofs` | `[]LifecycleSafe` | `ProcessAssumption` |
| `VectorsAreUsable` | `VectorProofs` | `[]VectorsUsable` | `ParamAssumption`, `PomaiAssumption`, `VecAssumption`, `PoolAssumption`, and `"create" \notin VecCommitFails` |
| `BatchesAreFreedOnce` | `VectorProofs` | `[]BatchFreesOnce` | `BatchAssumption` |
| `OsInvariance` | `OsMemoryProofs` | `[]OsInv` of `OsMemory` | `OsAssumption` |
| `OsAllocationsOwn` | `OsMemoryProofs` | `[]AllocationsOwn` | `OsAssumption` |
| `OsWantedAccessible` | `OsMemoryProofs` | `[]WantedAccessible` | `OsAssumption` |
| `OsNothingLeaks` | `OsMemoryProofs` | `[]NothingLeaks` | `OsAssumption` |
| `ArenasInvariance` | `OsMemoryProofs` | `[]ArenasInv` of `Arenas` | `ArenasAssumption` |
| `ArenasSafe` | `OsMemoryProofs` | `[]ArenasSound` | `ArenasAssumption` |
| `MessagesInvariance` | `ProcessProofs` | `[]MessagesInv` of `Messages` | `MessagesAssumption` |
| `MessagesSafe` | `ProcessProofs` | `[]MessagesSound` | `MessagesAssumption` |
| `SegmentsInvariance` | `SegmentsProofs` | `[]Inv` of `Segments` | `SizesAssumption`, `OptionsAssumption`, `ExtendsSafely` |
| `SegmentsSpansSound` | `SegmentsProofs` | `[]SpansSound` | the same |
| `SegmentsCommitSafe` | `SegmentsProofs` | `[]CommitSafe` | the same |
| `SegmentsBlocksDisjoint` | `SegmentsProofs` | `[]BlocksDisjoint` | the same |
| `SegmentsZeroIsClean` | `SegmentsProofs` | `[]ZeroIsClean` | the same |

*Type correctness* has a lemma per action over a few lemmas about updates of one field of a page
or of a thread. For `Arena` it contains a little more than types: every run of purge bits and every
range stays inside the arena. The smallest block of a set (`Min`, a `CHOOSE`) exists by the
well-foundedness of `<` on the naturals.

*Ownership.* `OneOwner` is stated with unions; `OneOwnerOwners` restates it as the relation
`Owners(inuse, allocs, Own)`, for which there are four facts: a thread claims free blocks, releases
what it owns, gives it to a client, takes it back. Each action is one of these, or keeps what the
thread owns. `OneOwner` is not inductive alone: a thread that purges at once the blocks it is
freeing owns its `range`, the purger owns its `claim`, and the code after the purge tells them
apart. `Shape` says that the first has an empty claim and that the second purges a part of its
claim. The inductive invariant is `TypeOK /\ OneOwner /\ Shape`.

*Bits and memory.* With ownership, the bits of a block change only at the hands of its owner
(`RangesDisjoint`), and most steps are `Quiet`: they change nothing these invariants speak of. Three
invariants are then inductive relative to the first. `CommitInv`: a committed bit is true, or
the block is with a client, or with a thread between setting the bit and the answer of the OS, or
between a decommit and clearing the bit (`Exempt`). This exemption is what a failed commit and
a partly committed free have to repair before the block is free again. `PurgeInv`: an allocation
has taken its range off the purge bits and keeps it off until it is freed. `ZeroInv`: used
memory is dirty, and the zero flag, computed from the dirty bits before they are set, stays true until
the allocation returns.

*Blocks and pages.* `IInv` of `PageBlocksInvariant` has twelve parts. `Lists` and `Placed` say where each block is:
on one list of its page, with the client, on one delayed list, or in the hands of one thread or of the owner;
and `used` counts the blocks off the owner's lists. `Homes` and `OwnHeaps` tie `place` and `xheap` to the heaps that
exist; `FreeingOne` gives the state FREEING to one thread; `DelayedOwned` and `Wakes` tie delayed lists and the flag to
pages with a heap. The others say how far the owner has got where it walks its heaps in several steps
(`Stages`, `Candidate`, `Leaving`, `Moving`, `Forcing`): after the walk that sets NEVER, no page of the heap is FREEING
and none can become so, and after the delayed list is emptied it stays empty. These are what make
abandoning and absorbing a heap safe, and no property of a run mentions them. The safety properties follow from `IInv`
without its step; the action property and the refinement need `IInv` before the step, and the latter maps
each step to one of `BlockPool` or to none.

*Bitmaps.* The bits a thread has taken depend on where it is in a claim or release, so `IInv` adds `ThreadOK` of each
thread's record: the range ends inside the bitmap, every field it is still to claim or clear has bits of the
range, and what a compare-and-swap compares with has no bit of it. A step that changes a word is then the same
for all: the thread's share and the word change alike (`OwnStep`), or a share becomes a client's range and back
(`ToClient`). The scan is a recursive function; it equals the definition by search, since
otherwise there would be a least distance from the end of the field at which the two differ, and one step of
the scan leads to a smaller one (`LeastNat`).

*Abandoned segments.* `IInv` has a part for each piece of shared state: `HoldInv` (who may touch a segment: its owner, a bit, a
list or one thread in a call), `PinInv` (a segment has at least as many blocks as threads about to free one in it),
`MapInv` (a live OS segment is in the map or found no part, `Noted`, unless a thread has still to set or clear its bit; it is not both), `LockInv` (the holder of a
list's lock, and the list's count when nobody holds it), `SubprocInv` (threads work on segments of their own
sub-process), `CountInv` (the counts, with what threads owe) and `DataInv` (thread data and their cache).
`MapExact` follows because a segment has blocks only after its thread is done with the map, which `PinInv` gives.
`OneHolder` counts; `HoldInv` says the same by membership, which is what the provers can use, and finite sets of threads
and segments (assumed) take one to the other at the end.

*Life cycle.* `LifecycleSafe` needs that one thread is between the swap of `process_init_state` and its
publication (`Initialises`), also while it gets its own heap, that the loader comes before all others, that the worker starts only during this time, and that the thread
which releases memory has seen the worker join (`PInv`).

*Vector allocators.* They share no state, so each has an invariant of its own and a step of one leaves the others alone;
the proof does not use that a client takes them one at a time. `PomaiInv`: ranges of the bump pointer belong to a client's
vector or to one call (`PomaiApart`), aligned and below the pointer (`PomaiPlaced`), so that a rollback whose compare-and-swap
succeeds takes back the last of them; memory below the watermark is committed (`PomaiMemory`), and so is what a thread
that is about to store the watermark moves it over (`PomaiCalls`). The arithmetic is that of a
machine word: rounding up wraps to zero, and the proof shows where the checks of the code exclude it. One check, that the
rounding of a commit does not wrap, is what the proof could not do without (`CommitFits`). `VecInv` ties
watermark, used part and reservation of the bump arena. It needs that the first commit of `pa_vec_arena_create_ex` succeeds,
because the code does not look at its result (see the findings): the hypothesis of `VectorsAreUsable`, and the choice of
`VecCommitFails` in the run `client`. Power-of-two alignments enter as divisors of the address space and of a page, or
multiples of it. `PoolInv` counts the bits of each slab. `BatchInv` says that each block is on one place (`BatchPlaces`),
so a step moves it or leaves it (`BatchMoves`), that a page in state FREEING is pinned by one call and keeps its heap
(`BatchPinned`), and that a chain holds blocks of one page only (`CallOK`): a chain is never spliced into
the list of another page, and never lost because the heap is gone.

*OS memory.* `OsInv` says of every page who has it: an allocation or a claim of huge pages that is under way (`OwnedByUs`).
Allocations and claims lie apart, the first below the area for huge pages and the second above it (`AllocsPlaced`,
`ThreadsPlaced`, `Claimed`); what a caller may use is accessible, and so is what a claim has got (`ClaimsAccessible`). The
rounding of half pages is a set of lemmas: a commit covers the pages it touches, a decommit those it covers. For
`NothingLeaks` the pages are counted: every step changes `reserved + uncounted` by as much as the number of palloc's pages
(`Counted`), where freeing a huge reservation that came up short, and a huge page placed elsewhere, are the two steps that
change `uncounted`.

*Arenas.* `ArenasSound` speaks of the memory of clients; `ArenasInv` of what is behind it. An entry of the table leads to the
arena whose id is its index (`TableOK`); a call that adds an arena is the only one that has it, and the entry it got with
the count is empty until it stores (`CallsOK`). The memory that arenas, calls that add one, and clients hold lies apart and
is mapped by the OS or given by the program (`SpansApart`, `SpansPlaced`), and what is mapped is held (`MappedHeld`): so a
full table or a failed structure loses nothing. Blocks of clients are in use, each for one client (`PiecesHere`, `BlocksApart`).
A thread for which the static area is too small has already raised its top: until it lowers it again the top is beyond the end,
so all others fail too, and each goes back to a top that is above every structure (`StaticOK`). After the destroy
at exit the invariant is what the property says of memory that the table kept.

*Messages.* A call that copies owns the cells from the claim to the copy, one that flushes the cell behind the text
(`Owns`); nobody owns a cell of another or of text that is there (`Apart`, `PiecesOK`), and all of them lie below `out_len`
(`FramesOK`), so that a new claim is apart from all. One frame of a thread prints, and `recurse` says so, at any depth of nested
messages (`PrintsOnce`). Loading reads one option after the other, `LoadOK` says how far it is.

*Segments.* `Inv` says of each segment that it is free memory in which no block lies, or that some sets `T` and `P` describe
it (`Held`): `T` are the first slices of spans that tile it (`Tiled`), `P` those in use, the others are free and no two of
them neighbours (`TilesOK`); the slices of `P` are committed and not scheduled (`MaskOK`); `used`, `abandoned` and the owner
agree with `P`; each block is in a page of `P` at a multiple of its size (`BlocksIn`). The queues of a thread hold the free
spans of its segments (`QueuesOK`). Inside a call this does not hold: a span is neither page nor free while it is
cut or merged (`SoundBut`), and a reclaim, a check or a forced abandon is in the middle of its loop, where the free
spans behind the slice it is at are not in the queues yet (`Taking`, `Orphanage`, `Forcing`). Each loop is a
recursive function of the slice; that its invariant holds up to the end is shown by the absence of a least slice at which it
does not (`LeastNat`), as the prover has no induction. For the same reason `SliceBin` and `Spans` are first
shown to exist as functions, and `Spans` to find the spans that tile the segment (`SpansOf`): it is where the loop lands. Merging with
the neighbours reads the last slice of the span before, which is why `Inv` needs the back offset of free
spans and of pages, and of no other slice (`SpanOK`). The hypothesis `ExtendsSafely` is that a page grown in place by
`realloc` has one block, and that its commit does not fail: the values of the run `segments`. Without
the first `BlocksDisjoint` is false (the run `segments_extend`), without the second slices are lost; both are findings.

TLC checked on an instance, before they were proved, `IInv` of `PageBlocks` and the four parts
for `Arena` on the instances of their runs (1.2 and 1.3 million states), `IInv` of `Bitmap` (0.8 million, without
symmetry), of `Abandoned` (1.9 million), `PInv` (23 thousand), `OsInv` and `ArenasInv` (1.0 million) and `MessagesInv` (0.3
million).

What stays with TLC: liveness (it needs fairness, and ENABLED is out of the prover's reach); the invariants of the modules
without a proof module (`FrontEnd` and `Sizes`, which rest on recursive operators); what those
recursive operators of `Sizes` and `FrontEnd` compute, as induction over data cannot be instantiated.

## Findings

`PROJECT.json` gives the quotations. Three runs show a disagreement of the code with its comments: delayed arena purges
are not run by unforced calls after they have expired (`arena.c:624`); force-abandoning the last page of a segment
reads its page structure after the segment may be gone (`segment.c:1503`); reallocation in place grows blocks of
pages with several blocks over their neighbours (`alloc.c:316`).

Met while modelling; the modules do what the code does, and no property claims otherwise:

* Blocks and heaps. The formula for `used` at `types.h:310` is off by `|thread_free|`. Heaps with `no_reclaim` reclaim
  abandoned pages (`segment.c:1313`, against `types.h:585` and `heap.c:258`). `max_size - used_bytes` wraps when
  a block larger than the request was charged (`page.c:1009`), the aligned fast path does not look at the
  quota, and blocks freed by other threads are not subtracted. Absorb and reclaim move pages to a heap that was not charged
  for them; `FrontEnd` has one heap and does not show it. Deleting a heap that cannot be absorbed
  abandons pages of segments the thread still owns, and `free.c:64` then reads a heap that is NULL.
* Bitmaps. A request of three or more blocks never fits the last field of an arena with leftover bits (`bitmap.c:212`).
* Segments. `_pa_segment_try_extend_span` loses the slices when the commit fails (`segment.c:838`); it does not ask whether the
  calling thread owns the segment, and ignores padding and the offset of the pointer.
* Abandonment. `abandoned_count` may be below zero, that is wrap, between two steps. `pa_subproc_delete` looks at the list of OS
  segments only (`init.c:317`).
* Segment map. A segment for which no part of the map can be allocated (`segment-map.c:65`), or beyond its addresses, is used but not
  found by `_pa_segment_of`; the header (`segment-map.c:9`) says "reliably find". `MapExact` excepts those segments.
* OS layer. The id of a huge reservation that came up short has the size asked for (`os.c:706`), and freeing it
  frees pages never got; `NothingLeaks` allows exactly those. The committed statistic drifts, and so does `reserved`,
  which `palloc-stats.h:30` calls "reserved memory bytes": a huge page placed elsewhere is freed by `pa_os_prim_free`, which
  subtracts what was never added (`os.c:676`). `NothingLeaks` accounts for both with `uncounted`.
* Arenas. `pa_arenas_unsafe_destroy` lowers the count to the index of the last arena it keeps (`arena.c:756`), which is
  one too few, and frees the structure of kept arenas; when the table is full the structure leaks
  (`arena.c:877`). With `purge_decommits` off, an assertion about partly committed ranges can fail (`arena.c:492`).
* Front end. `pa_realloc_aligned` keeps `p % alignment` as the offset, so that a pointer that was less aligned stays so
  (`alloc-aligned.c:315`). A chain of `rezalloc` calls copies the slack of a block, which may hold old bytes, where zero is expected
  (`palloc.h:250`).
* Vector allocators. `pa_vec_arena_create_ex` ignores the answer of its first commit (`palloc_vector.c:177`); a failed
  commit of a shared Pomai arena that cannot be rolled back loses the range until the reset; `pa_vec_pool_free` does
  not notice a double free. The chain of a batch free is linked with page keys and read with heap keys in builds
  that encode free lists.
* Messages. One message more than `max_errors` is shown (`palloc.h:398` says "at most N"); the pair of output function and
  argument may be torn; a flush may print room that was claimed and not written yet; two threads that read an option
  first may undo a `pa_option_set` between them.
* Process. The worker may find no thread data (`init.c:251`) when memory is short; the count of threads grows with every try
  of a thread that finds no memory, and a second `pa_thread_done` of the main thread lowers it; fork leaves the worker marked as
  running; `tls_initialized` is a plain bool (`init.c:528`).

## Not modelled

* Windows, WASI and macOS primitives, and systems without partial unmap: other system calls in the same places.
* Statistics, `random.c`, `libc.c`: counters, numeric and text routines without a protocol.
* The backends and the override tables: they forward.
* Benchmarks and tests: clients of the library.
* The thread cache of blocks: off in this build. Detection of double frees and corruption: of no effect on correct programs.
* Weak memory orders: all models are sequentially consistent.
* Heap tags, arena-bound heaps, preloading, the quarter reserve of WASM, fork.

## Plan

Done: `PageBlocks`, `BlockPool`, `Bitmap`, `Arena` with its proofs, `Segments`, `Abandoned`, `OsMemory`, `Arenas`, `FrontEnd`,
`Sizes`, the vector allocators, `Process`, `Messages`, with their runs; the proofs of `PageBlocks` with its refinement, `Bitmap`,
`Arena`, `Abandoned`, `OsMemory`, `Arenas`, `Process`, `Messages`, `Segments` and the vector allocators. Next:

1. Heaps of different tags and arenas in `PageBlocks`, with segments of several pages.
