------------------------------ MODULE Segments ------------------------------
(***************************************************************************)
(* Segments (segment.c): how the slices of a segment are divided into      *)
(* spans, which spans are pages and which are free, the span queues of     *)
(* each thread, the commit and purge masks, and the life of a segment from *)
(* allocation over abandonment and reclaim until it is freed.              *)
(*                                                                         *)
(* A segment is worked on by one thread at a time: its owner, or the       *)
(* thread that cleared its abandoned mark (module Abandoned shows that     *)
(* there is only one).  Each call of segment.c is therefore one step; only *)
(* the allocation of a page, which tries again after getting a segment, is *)
(* several.  What other threads do to the pages of a segment, freeing      *)
(* their blocks, is a step of its own.                                     *)
(*                                                                         *)
(* Sizes are in slices (PA_SEGMENT_SLICE_SIZE = PA_COMMIT_SIZE =           *)
(* PA_MINIMAL_COMMIT_SIZE).  Time is what the code compares: a purge       *)
(* deadline is not set, in the future, passed, or passed for longer than   *)
(* purge_extend_delay.  Entries inside a free span are undetermined        *)
(* (segment.c:654); the model forgets them when a call ends.               *)
(***************************************************************************)
EXTENDS Integers, Sequences, FiniteSets, Functions

CONSTANTS
  Addresses,      \* addresses a segment can have
  Threads,        \* threads
  NoThread,       \* thread_id 0
  SLICES,         \* PA_SLICES_PER_SEGMENT
  INFO,           \* segment_info_slices
  HUGE,           \* slices of a huge segment; a shorter one than SLICES is modelled as one
                  \* of SLICES: its page is its last span and ends every loop either way
  LARGE,          \* PA_LARGE_OBJ_SIZE_MAX in slices
  PageSizes,      \* <<slices of a page, slices of its blocks>>: small, medium, large
  VISITS,         \* abandoned_visits after which a segment is always reclaimed
  PurgeDelay,     \* pa_option_purge_delay: -1 never, 0 at once, 1 later
  FreshMemory,    \* <<committed, zero>>: what arenas and the OS hand out
  FromArena,      \* the addresses in an arena
  CommitFails,    \* calls in which the OS may refuse to commit: "page", "segment", "extend"
  ExtendPages     \* blocks realloc tries to grow in place: "single", "several"

ASSUME SizesAssumption ==
  /\ {SLICES, INFO, HUGE, LARGE, VISITS} \subseteq Nat \ {0}
  /\ INFO + LARGE <= SLICES /\ SLICES <= HUGE
  /\ PageSizes \subseteq (1 .. LARGE) \X (1 .. LARGE)
  /\ \A p \in PageSizes : p[2] <= p[1]

ASSUME OptionsAssumption ==
  /\ PurgeDelay \in {-1, 0, 1}
  /\ FreshMemory \subseteq BOOLEAN \X BOOLEAN
  /\ FromArena \subseteq Addresses
  /\ NoThread \notin Threads
  /\ CommitFails \subseteq {"page", "segment", "extend"}
  /\ ExtendPages \subseteq {"single", "several"}

VARIABLES
  segment,  \* segment[s]: the segment at address s
  tld,      \* tld[t]: pa_segments_tld_t of thread t
  request,  \* request[t]: progress of thread t in _pa_segment_page_alloc
  blocks    \* blocks in the clients' hands

vars == <<segment, tld, request, blocks>>

-----------------------------------------------------------------------------
Slices == 0 .. SLICES - 1
Entries == 0 .. SLICES                      \* one extra, for huge segments

PA_MAX_SLICE_OFFSET_COUNT == SLICES \div 2 - 1

\* The first three fields of pa_slice_t; `size` is the size of the page's
\* blocks, in slices, once pa_page_init has set it.
SliceRecord ==
  [slice_count : Int, slice_offset : Int, block_size : Int, size : Nat]

Zeroed == [slice_count |-> 0, slice_offset |-> 0, block_size |-> 0, size |-> 0]
Undetermined == [slice_count |-> -1, slice_offset |-> 0, block_size |-> -1, size |-> 0]

\* Inner entry of a page, `k` entries after the first.
Inner(k) == [slice_count |-> 0, slice_offset |-> k, block_size |-> 1, size |-> 0]

\* purge_expire against the clock.
UNSET == 0
FUTURE == 1
PASSED == 2
LONGPASSED == 3

\* `os` is what the OS has committed, `orphans` the pages without a heap,
\* `zero_init` the pages with is_zero_init, `dirty` the slices of pages that
\* were freed (kept only while free_is_zero may still promise something).
SegmentRecord ==
  [kind : {"none", "NORMAL", "HUGE"}, thread_id : Threads \cup {NoThread},
   slices : [Entries -> SliceRecord], used : Nat, abandoned : Nat,
   abandoned_visits : 0 .. VISITS + 1, was_reclaimed : BOOLEAN, dont_free : BOOLEAN,
   free_is_zero : BOOLEAN, commit_mask : SUBSET Slices, purge_mask : SUBSET Slices,
   purge_expire : UNSET .. LONGPASSED, os : SUBSET Slices, orphans : SUBSET Slices,
   zero_init : SUBSET Slices, dirty : SUBSET Slices]

NoSegment ==
  [kind |-> "none", thread_id |-> NoThread, slices |-> [i \in Entries |-> Zeroed],
   used |-> 0, abandoned |-> 0, abandoned_visits |-> 0, was_reclaimed |-> FALSE,
   dont_free |-> FALSE, free_is_zero |-> FALSE, commit_mask |-> {}, purge_mask |-> {},
   purge_expire |-> UNSET, os |-> {}, orphans |-> {}, zero_init |-> {}, dirty |-> {}]

\* pa_slice_bin8: up to 8 slices a bin for each number, above that four for each
\* power of two: halving m takes one off its highest bit and keeps the two below.
SliceBin(n) ==
  LET bin[m \in 0 .. SLICES] == IF m < 8 THEN m ELSE 4 + bin[m \div 2]
  IN IF n <= 8 THEN n ELSE bin[n - 1]

Bins == 0 .. SliceBin(SLICES)

\* The queue of a bin, first span first.
Span == Addresses \X Slices
TldRecord == [spans : [Bins -> Seq(Span)], count : Nat, reclaim_count : Nat]

NoRequest == [pc |-> "idle", page |-> <<0, 0>>]
RequestRecord == [pc : {"idle", "find", "grow"}, page : PageSizes \cup {<<0, 0>>}]

\* A block: the page it is in, where it starts and how long it is.
BlockRecord == [seg : Addresses, page : Slices, start : Slices, len : 1 .. HUGE]

Init ==
  /\ segment = [s \in Addresses |-> NoSegment]
  /\ tld = [t \in Threads |-> [spans |-> [b \in Bins |-> <<>>], count |-> 0, reclaim_count |-> 0]]
  /\ request = [t \in Threads |-> NoRequest]
  /\ blocks = {}

-----------------------------------------------------------------------------
(* Reading a segment.                                                       *)

\* The spans, as every loop over a segment finds them: from slice_count to
\* slice_count.  at[k] is where the loop is when it is done with the entries
\* before k.
Spans(g) ==
  LET at[k \in Entries] ==
        IF k = 0 THEN 0
        ELSE IF at[k - 1] = k - 1 THEN at[k - 1] + g.slices[k - 1].slice_count ELSE at[k - 1]
  IN {k \in Slices : at[k] = k}

SliceFirst(g, i) == i - g.slices[i].slice_offset
IsUsed(g, i) == g.slices[i].block_size > 0
FreeSpans(g) == {i \in Spans(g) : g.slices[i].block_size = 0}
Pages(g) == {i \in Spans(g) : IsUsed(g, i)} \ {0}
AllFree(s, i) == \A b \in blocks : ~(b.seg = s /\ b.page = i)
AllowPurge == PurgeDelay >= 0
IsAbandoned(g) == g.kind # "none" /\ g.thread_id = NoThread

\* What the entries inside the free spans hold is not determined.
Settle(g) ==
  [g EXCEPT !.slices = [k \in Entries |->
     IF \E i \in FreeSpans(g) : i < k /\ k < i + g.slices[i].slice_count - 1
       THEN Undetermined ELSE g.slices[k]]]

-----------------------------------------------------------------------------
(* Commit and purge masks.  A range of slices is its own mask, since the    *)
(* commit size is the slice size.                                           *)

Mask(i, n) == (i .. i + n - 1) \cap Slices

\* pa_segment_commit, when the OS answers `ok`.
Commit(g, mask, ok) ==
  LET all  == mask \subseteq g.commit_mask
      done == [g EXCEPT !.commit_mask = @ \cup mask, !.os = IF all THEN @ ELSE @ \cup mask,
                        !.purge_expire = IF g.purge_mask \cap mask # {} THEN FUTURE ELSE @,
                        !.purge_mask = @ \ mask]
  IN IF all \/ ok THEN [ok |-> TRUE, g |-> done] ELSE [ok |-> FALSE, g |-> g]

\* Mutant of EnsureCommitted: a full commit mask is enough, a purge that is
\* still scheduled is overlooked.
EnsureCommittedMaskOnly(g, mask, ok) ==
  IF mask \subseteq g.commit_mask THEN [ok |-> TRUE, g |-> g] ELSE Commit(g, mask, ok)

\* pa_segment_ensure_committed
EnsureCommitted(g, mask, ok) ==
  IF g.commit_mask = Slices /\ g.purge_mask = {} THEN [ok |-> TRUE, g |-> g]
  ELSE Commit(g, mask, ok)

\* pa_segment_purge, on an OS whose decommit needs a recommit.
Purge(g, mask) ==
  IF ~AllowPurge \/ mask = {} THEN g
  ELSE LET any == g.commit_mask \cap mask # {}
       IN [g EXCEPT !.commit_mask = IF any THEN @ \ mask ELSE @,
                    !.os = IF any THEN @ \ mask ELSE @,
                    !.purge_mask = @ \ mask]

\* pa_segment_try_purge
TryPurge(g, force) ==
  IF ~AllowPurge \/ g.purge_expire = UNSET \/ g.purge_mask = {} THEN g
  ELSE IF ~force /\ g.purge_expire = FUTURE THEN g
  ELSE Purge([g EXCEPT !.purge_expire = UNSET, !.purge_mask = {}], g.purge_mask)

\* pa_segment_schedule_purge
SchedulePurge(g, mask) ==
  LET set == [g EXCEPT !.purge_mask = @ \cup (g.commit_mask \cap mask)]
  IN CASE ~AllowPurge -> g
       [] AllowPurge /\ PurgeDelay = 0 -> Purge(g, mask)
       [] PurgeDelay > 0 /\ g.purge_expire = LONGPASSED -> TryPurge(set, TRUE)
       [] PurgeDelay > 0 /\ g.purge_expire # LONGPASSED -> [set EXCEPT !.purge_expire = FUTURE]

-----------------------------------------------------------------------------
(* Spans.  A call works on one segment `g` at address `s` and on the queues *)
(* of one thread: the record w.  w.at is the slice a call returns.          *)

World(t, s) == [g |-> segment[s], tld |-> tld[t], s |-> s, at |-> 0]

\* The sequence q without its element e, if it is there.
Without(q, e) ==
  IF e \notin Range(q) THEN q
  ELSE LET k == CHOOSE k \in DOMAIN q : q[k] = e
       IN SubSeq(q, 1, k - 1) \o SubSeq(q, k + 1, Len(q))

QueuePush(w, bin, i) == [w EXCEPT !.tld.spans[bin] = <<<<w.s, i>>>> \o @]

\* pa_span_queue_delete
QueueDelete(w, i) ==
  [w EXCEPT !.tld.spans[SliceBin(w.g.slices[i].slice_count)] = Without(@, <<w.s, i>>),
            !.g.slices[i].block_size = 1]

\* The entries of a free span of n slices at i: the last one points back to the first.
FreeEntries(g, i, n) ==
  LET last == IF i + n - 1 > SLICES THEN SLICES ELSE i + n - 1
  IN [k \in Entries |->
        IF k = i THEN [g.slices[k] EXCEPT !.slice_count = n, !.slice_offset = 0, !.block_size = 0]
        ELSE IF k = last THEN [Zeroed EXCEPT !.slice_offset = n - 1]
        ELSE g.slices[k]]

\* pa_segment_span_free
SpanFree(w, i, n, purge) ==
  LET free == [w EXCEPT !.g.slices = FreeEntries(w.g, i, n)]
      w1 == IF purge THEN [free EXCEPT !.g = SchedulePurge(@, Mask(i, n))] ELSE free
  IN IF w.g.kind = "HUGE" \/ w.g.thread_id = NoThread THEN w1 ELSE QueuePush(w1, SliceBin(n), i)

\* pa_segment_span_free_coalesce: merge with a free span after and before it.
SpanFreeCoalesce(w, i) ==
  LET g     == w.g
      owned == g.thread_id # NoThread
      next  == i + g.slices[i].slice_count
      prev  == IF i > 0 THEN SliceFirst(g, i - 1) ELSE 0
      after  == next < SLICES /\ g.slices[next].block_size = 0
      before == i > 0 /\ g.slices[prev].block_size = 0
      n  == g.slices[i].slice_count + (IF after THEN g.slices[next].slice_count ELSE 0)
            + (IF before THEN g.slices[prev].slice_count ELSE 0)
      w1 == IF after /\ owned THEN QueueDelete(w, next) ELSE w
      w2 == IF before THEN [w1 EXCEPT !.g.slices[i] = [@ EXCEPT !.slice_count = 0, !.slice_offset = i - prev]]
            ELSE w1
      w3 == IF before /\ owned THEN QueueDelete(w2, prev) ELSE w2
      at == IF before THEN prev ELSE i
  IN IF g.kind = "HUGE" THEN [w EXCEPT !.g.slices[i].block_size = 0, !.at = i]
     ELSE [SpanFree(w3, at, n, TRUE) EXCEPT !.at = at]

\* The entries of a page of n slices at i: every entry it covers points back
\* to the first, up to PA_MAX_SLICE_OFFSET_COUNT and for the last.
PageEntries(g, i, n) ==
  LET extra == IF n - 1 > PA_MAX_SLICE_OFFSET_COUNT THEN PA_MAX_SLICE_OFFSET_COUNT ELSE n - 1
      last  == IF i + n - 1 > SLICES THEN SLICES ELSE i + n - 1
  IN [k \in Entries |->
        IF k = i THEN [slice_count |-> n, slice_offset |-> 0, block_size |-> n, size |-> 0]
        ELSE IF k = last \/ (i < k /\ k <= i + extra /\ k < SLICES) THEN Inner(k - i)
        ELSE g.slices[k]]

\* pa_segment_span_allocate.  _pa_prim_commit never reports zeroed memory, so
\* is_zero_init is free_is_zero.
SpanAllocate(g, i, n, ok) ==
  LET c == EnsureCommitted(g, Mask(i, n), ok)
  IN IF ~c.ok THEN c
     ELSE [ok |-> TRUE,
           g |-> [c.g EXCEPT !.slices = PageEntries(c.g, i, n), !.used = @ + 1,
                             !.zero_init = IF g.free_is_zero THEN @ \cup {i} ELSE @ \ {i}]]

\* pa_segment_slice_split
SliceSplit(w, i, n) ==
  IF w.g.slices[i].slice_count <= n THEN w
  ELSE [SpanFree(w, i + n, w.g.slices[i].slice_count - n, FALSE)
          EXCEPT !.g.slices[i].slice_count = n]

\* pa_segments_page_find_and_allocate: best fit first, queue by queue.
Candidates(q, n) ==
  UNION {{<<b, k>> : k \in {j \in DOMAIN q[b] : segment[q[b][j][1]].slices[q[b][j][2]].slice_count >= n}} :
         b \in SliceBin(n) .. SliceBin(SLICES)}

FindSpan(q, n) ==
  LET c == CHOOSE c \in Candidates(q, n) :
             \A d \in Candidates(q, n) : c[1] < d[1] \/ (c[1] = d[1] /\ c[2] <= d[2])
  IN q[c[1]][c[2]]

AllocateAt(w, i, n, ok) ==
  LET w1 == SliceSplit(QueueDelete(w, i), i, n)
      a  == SpanAllocate(w1.g, i, n, ok)
  IN IF a.ok THEN [ok |-> TRUE, w |-> [w1 EXCEPT !.g = a.g]]
     ELSE [ok |-> FALSE, w |-> SpanFreeCoalesce(w1, i)]

\* _pa_segment_try_extend_span: grow the page at i by the first `need` slices
\* of the free span behind it.
CanExtend(g, i, need) ==
  LET next == i + g.slices[i].slice_count
  IN /\ next + need <= SLICES
     /\ g.slices[next].block_size = 0
     /\ g.slices[next].slice_count > 0
     /\ g.slices[next].slice_count >= need

TryExtendSpan(w, i, need, ok) ==
  LET cur  == w.g.slices[i].slice_count
      next == i + cur
      tail == w.g.slices[next].slice_count - need
      w1 == QueueDelete(w, next)
      w2 == IF tail > 0 THEN SpanFree(w1, next + need, tail, FALSE) ELSE w1
      c  == EnsureCommitted(w2.g, Mask(next, need), ok)
      sl == [k \in Entries |->
               IF k = i THEN [c.g.slices[k] EXCEPT !.slice_count = cur + need,
                                                   !.block_size = cur + need, !.size = cur + need]
               ELSE IF k \in Mask(next, need) THEN Inner(k - i) ELSE c.g.slices[k]]
  IN IF c.ok THEN [ok |-> TRUE, w |-> [w2 EXCEPT !.g = [c.g EXCEPT !.slices = sl]]]
     ELSE [ok |-> FALSE, w |-> w2]

-----------------------------------------------------------------------------
(* Segments.                                                                *)

\* pa_segments_track_size
TrackSize(w, n) == [w EXCEPT !.tld.count = @ + n]

\* Leaving the thread: was_reclaimed no longer counts against it.
Unreclaim(w) ==
  IF ~w.g.was_reclaimed THEN w
  ELSE [w EXCEPT !.tld.reclaim_count = @ - 1, !.g.was_reclaimed = FALSE]

\* The loop over the spans that takes the free ones out of the queues, and keeps
\* them free.
Unqueue(w) ==
  LET queues[k \in Entries] ==
        IF k = 0 THEN w.tld.spans
        ELSE IF k - 1 \in FreeSpans(w.g)
          THEN [queues[k - 1] EXCEPT ![SliceBin(w.g.slices[k - 1].slice_count)] = Without(@, <<w.s, k - 1>>)]
          ELSE queues[k - 1]
  IN [w EXCEPT !.tld.spans = queues[SLICES]]

\* pa_segment_free, pa_segment_os_free
SegmentFree(w) ==
  IF w.g.dont_free THEN w
  ELSE LET w1 == IF w.g.kind = "HUGE" THEN w ELSE Unqueue(w)
       IN [TrackSize(Unreclaim(w1), -1) EXCEPT !.g = NoSegment]

\* pa_segment_abandon: out of the queues, but still free.
SegmentAbandon(w) ==
  LET w1 == [Unqueue(w) EXCEPT !.g = TryPurge(@, w.s \notin FromArena)]
  IN Unreclaim(TrackSize([w1 EXCEPT !.g.thread_id = NoThread, !.g.abandoned_visits = 1], -1))

\* Mutant of PageClear: free_is_zero is not reset.
PageClearStillZero(w, i) ==
  LET n  == w.g.slices[i].slice_count
      w1 == [w EXCEPT !.g.slices[i] = [@ EXCEPT !.block_size = 1, !.size = 0],
                      !.g.zero_init = @ \ {i}, !.g.orphans = @ \ {i},
                      !.g.dirty = IF w.g.free_is_zero THEN @ \cup Mask(i, n) ELSE {}]
      w2 == SpanFreeCoalesce(w1, i)
  IN [w2 EXCEPT !.g.used = @ - 1]

\* pa_segment_page_clear: returns the free span the page is part of now.
PageClear(w, i) ==
  LET w1 == [w EXCEPT !.g.slices[i] = [@ EXCEPT !.block_size = 1, !.size = 0],
                      !.g.zero_init = @ \ {i}, !.g.orphans = @ \ {i}]
      w2 == SpanFreeCoalesce(w1, i)
  IN [w2 EXCEPT !.g.used = @ - 1, !.g.free_is_zero = FALSE, !.g.dirty = {}]

\* Mutant of PageFreed: a segment with nothing but abandoned pages is kept.
PageFreedKeep(w) ==
  IF w.g.used = 0 THEN SegmentFree(w) ELSE [w EXCEPT !.g = TryPurge(@, FALSE)]

\* _pa_segment_page_free, after the page was cleared.
PageFreed(w) ==
  IF w.g.used = 0 THEN SegmentFree(w)
  ELSE IF w.g.used = w.g.abandoned THEN SegmentAbandon(w)
  ELSE [w EXCEPT !.g = TryPurge(@, FALSE)]

\* The loops over the spans that change them: w.at is the slice the loop is at,
\* the first page at the start (pa_slices_start_iterate).
Start(w) == [w EXCEPT !.at = @ + w.g.slices[0].slice_count]
NextSpan(w) == [w EXCEPT !.at = @ + w.g.slices[@].slice_count]

\* pa_segment_check_free: free the pages of an abandoned segment whose blocks
\* have all been freed.
CheckSpan(w) ==
  NextSpan(IF IsUsed(w.g, w.at) /\ AllFree(w.s, w.at)
             THEN PageClear([w EXCEPT !.g.abandoned = @ - 1], w.at) ELSE w)

CheckFree(w) ==
  LET loop[k \in Entries] ==
        IF k = 0 THEN Start(w)
        ELSE IF loop[k - 1].at = k - 1 THEN CheckSpan(loop[k - 1]) ELSE loop[k - 1]
  IN loop[SLICES]

\* A page of blocks of this size that has a free one.
HasFreeBlock(g, s, size) ==
  \E i \in Pages(g) : g.slices[i].size = size
    /\ Cardinality({b \in blocks : b.seg = s /\ b.page = i}) * size < g.slices[i].slice_count

HasPage(g, s, n, size) ==
  (\E i \in FreeSpans(g) : g.slices[i].slice_count >= n) \/ HasFreeBlock(g, s, size)

\* pa_segment_reclaim: its loop, then the segment is freed if nothing is used.
ReclaimSpan(w) ==
  LET done == [w EXCEPT !.g.abandoned = @ - 1, !.g.orphans = @ \ {w.at}]
  IN NextSpan(IF ~IsUsed(w.g, w.at) THEN SpanFreeCoalesce(w, w.at)
              ELSE IF AllFree(w.s, w.at) THEN PageClear(done, w.at)
              ELSE done)

SegmentReclaim(w, t) ==
  LET w1 == TrackSize([w EXCEPT !.g.thread_id = t, !.g.abandoned_visits = 0, !.g.was_reclaimed = TRUE,
                                !.tld.reclaim_count = @ + 1, !.at = 0], 1)
      loop[k \in Entries] ==
        IF k = 0 THEN Start(w1)
        ELSE IF loop[k - 1].at = k - 1 THEN ReclaimSpan(loop[k - 1]) ELSE loop[k - 1]
      w2 == loop[SLICES]
  IN IF w2.g.used = 0 THEN SegmentFree(w2) ELSE w2

-----------------------------------------------------------------------------
(* The steps.                                                               *)

\* The end of a call: what it did to a segment and to the queues of t.
Done(w, t) ==
  /\ segment' = [segment EXCEPT ![w.s] = Settle(w.g)]
  /\ tld' = [tld EXCEPT ![t] = w.tld]

Owned(t, s) == segment[s].kind # "none" /\ segment[s].thread_id = t

\* The OS may refuse to commit in call `c`.
Answers(c) == IF c \in CommitFails THEN BOOLEAN ELSE {TRUE}

\* pa_segments_page_alloc: take a span from the queues.  The page is then
\* initialised and its first block handed out (pa_page_init, _pa_malloc_generic);
\* without a span, or when its commit fails, the thread needs a segment.
FindAndAllocate(t, page) ==
  LET n == page[1]
      e == FindSpan(tld[t].spans, n)
  IN /\ Candidates(tld[t].spans, n) # {}
     /\ \E ok \in Answers("page") :
          LET r == AllocateAt(World(t, e[1]), e[2], n, ok)
              w == [r.w EXCEPT !.g.slices[e[2]].size = page[2]]
          IN IF r.ok
               THEN /\ Done([w EXCEPT !.g = TryPurge(@, FALSE)], t)
                    /\ request' = [request EXCEPT ![t] = NoRequest]
                    /\ blocks' = blocks \cup {[seg |-> e[1], page |-> e[2], start |-> e[2], len |-> page[2]]}
               ELSE /\ Done(r.w, t)
                    /\ request' = [request EXCEPT ![t] = [pc |-> "grow", page |-> page]]
                    /\ UNCHANGED blocks

\* _pa_segment_page_alloc for a small, medium or large block.
PageAlloc(t, page) ==
  /\ request[t].pc = "idle"
  /\ FindAndAllocate(t, page)

\* ... and again, after pa_segment_reclaim_or_alloc.
PageAllocAgain(t) ==
  /\ request[t].pc = "find"
  /\ FindAndAllocate(t, request[t].page)

\* The thread is in pa_segment_reclaim_or_alloc: it found no span, or could not
\* commit the one it found.
NeedsSegment(t, page) ==
  \/ request[t] = [pc |-> "grow", page |-> page]
  \/ /\ request[t] \in {NoRequest, [pc |-> "find", page |-> page]}
     /\ Candidates(tld[t].spans, page[1]) = {}

\* pa_segment_os_alloc: memory that is committed as a whole or only where the
\* segment structure is, zeroed or not.
Fresh(t, kind, committed, zero) ==
  LET mask == IF committed THEN Slices ELSE Mask(0, INFO)
      g == [NoSegment EXCEPT !.kind = kind, !.thread_id = t, !.free_is_zero = zero,
                             !.commit_mask = mask, !.os = mask]
  IN [SpanAllocate(g, 0, INFO, TRUE).g EXCEPT !.used = 0, !.zero_init = {}]

\* pa_segment_alloc, for pages; pa_segments_page_alloc then tries again.
SegmentAlloc(t, page) ==
  /\ NeedsSegment(t, page)
  /\ \E s \in Addresses, m \in FreshMemory :
       /\ segment[s].kind = "none"
       /\ Done(TrackSize(SpanFree([World(t, s) EXCEPT !.g = Fresh(t, "NORMAL", m[1], m[2])],
                                  INFO, SLICES - INFO, FALSE), 1), t)
  /\ request' = [request EXCEPT ![t] = [pc |-> "find", page |-> page]]
  /\ UNCHANGED blocks

\* No memory, or the segment structure cannot be committed: the call fails.  (A
\* call that did nothing before it fails changes nothing and is not a step.)
SegmentAllocFails(t, page) ==
  /\ request[t].pc # "idle" /\ NeedsSegment(t, page)
  /\ "segment" \in CommitFails \/ \A s \in Addresses : segment[s].kind # "none"
  /\ request' = [request EXCEPT ![t] = NoRequest]
  /\ UNCHANGED <<segment, tld, blocks>>

\* pa_segment_huge_page_alloc: a segment of its own, committed as a whole.
HugePageAlloc(t) ==
  /\ request[t].pc = "idle"
  /\ \E s \in Addresses, m \in FreshMemory :
       /\ segment[s].kind = "none"
       /\ LET g == SpanAllocate(Fresh(t, "HUGE", TRUE, m[2]), INFO, HUGE - INFO, TRUE).g
          IN Done(TrackSize([World(t, s) EXCEPT !.g = [g EXCEPT !.slices[INFO].size = HUGE - INFO]], 1), t)
       /\ blocks' = blocks \cup {[seg |-> s, page |-> INFO, start |-> INFO, len |-> HUGE - INFO]}
  /\ UNCHANGED request

\* pa_page_malloc: another block of a page of the thread's heap.
BlockAlloc(t) ==
  /\ \E s \in Addresses : \E i \in Pages(segment[s]) \ segment[s].orphans :
       LET sl == segment[s].slices[i]
       IN /\ Owned(t, s)
          /\ \E k \in 0 .. sl.slice_count \div sl.size - 1 :
               LET b == [seg |-> s, page |-> i, start |-> i + k * sl.size, len |-> sl.size]
               IN /\ \A c \in blocks : ~(c.seg = s /\ c.start = b.start)
                  /\ blocks' = blocks \cup {b}
  /\ UNCHANGED <<segment, tld, request>>

\* pa_free, by any thread.
BlockFree(b) ==
  /\ blocks' = blocks \ {b}
  /\ UNCHANGED <<segment, tld, request>>

\* _pa_segment_page_free, for a page of a heap of t without live blocks.
PageFree(t, s, i) ==
  /\ Owned(t, s) /\ i \in Pages(segment[s]) \ segment[s].orphans
  /\ AllFree(s, i)
  /\ Done(PageFreed(PageClear(World(t, s), i)), t)
  /\ UNCHANGED <<request, blocks>>

\* Mutant of ReallocInPlace: any block of a page of several slices is grown.
ReallocInPlaceAny(t, b, len) ==
  LET g == segment[b.seg]
      n == g.slices[b.page].slice_count
      need == len - n
  IN /\ Owned(t, b.seg)
     /\ len <= LARGE /\ b.len < len /\ n > 1 /\ need > 0
     /\ CanExtend(g, b.page, need)
     /\ Done(TryExtendSpan(World(t, b.seg), b.page, need, TRUE).w, t)
     /\ blocks' = (blocks \ {b}) \cup {[b EXCEPT !.len = len]}
     /\ UNCHANGED request

\* _pa_heap_realloc_zero: the page of the block is extended in place.  The code
\* asks only for a page of several slices; ExtendPages says which of those the
\* model tries.
ReallocInPlace(t, b, len) ==
  LET g == segment[b.seg]
      n == g.slices[b.page].slice_count
      need == len - n
  IN /\ Owned(t, b.seg)
     /\ (IF g.slices[b.page].size < n THEN "several" ELSE "single") \in ExtendPages
     /\ len <= LARGE /\ b.len < len /\ n > 1 /\ need > 0
     /\ CanExtend(g, b.page, need)
     /\ \E ok \in Answers("extend") :
          LET r == TryExtendSpan(World(t, b.seg), b.page, need, ok)
          IN /\ Done(r.w, t)
             /\ blocks' = IF r.ok THEN (blocks \ {b}) \cup {[b EXCEPT !.len = len]} ELSE blocks
     /\ UNCHANGED request

\* _pa_segment_page_abandon
AbandonPage(w, i) ==
  LET w1 == [w EXCEPT !.g.abandoned = @ + 1, !.g.orphans = @ \cup {i}]
  IN IF w1.g.used = w1.g.abandoned THEN SegmentAbandon(w1) ELSE w1

PageAbandon(t, s, i) ==
  /\ Owned(t, s) /\ i \in Pages(segment[s]) \ segment[s].orphans
  /\ Done(AbandonPage(World(t, s), i), t)
  /\ UNCHANGED <<request, blocks>>

\* pa_segment_try_reclaim, for one abandoned segment the cursor finds.
TryReclaim(t, s, page) ==
  LET w1 == CheckFree([World(t, s) EXCEPT !.g.abandoned_visits = @ + 1])
      has == HasPage(w1.g, s, page[1], page[2])
      right == HasFreeBlock(w1.g, s, page[2])
  IN /\ NeedsSegment(t, page)
     /\ IsAbandoned(segment[s])
     /\ IF w1.g.used = 0 \/ has \/ w1.g.abandoned_visits > VISITS
          THEN Done(SegmentReclaim(w1, t), t)
          ELSE Done([w1 EXCEPT !.g = TryPurge(@, FALSE)], t)
     /\ request' = [request EXCEPT ![t] =
                      IF w1.g.used = 0 \/ ~has THEN [pc |-> "grow", page |-> page]
                      ELSE IF right THEN NoRequest ELSE [pc |-> "find", page |-> page]]
     /\ UNCHANGED blocks

\* _pa_segment_attempt_reclaim, by a thread that frees a block of the segment.
AttemptReclaim(t, s) ==
  /\ request[t].pc = "idle"
  /\ IsAbandoned(segment[s])
  /\ \E b \in blocks : b.seg = s
  /\ s \in FromArena => tld[t].reclaim_count * 2 <= tld[t].count
  /\ Done(SegmentReclaim(World(t, s), t), t)
  /\ UNCHANGED <<request, blocks>>

\* _pa_abandoned_collect, for one segment.
AbandonedCollect(t, s, force) ==
  LET w1 == CheckFree(World(t, s))
  IN /\ request[t].pc = "idle"
     /\ IsAbandoned(segment[s])
     /\ Done(IF w1.g.used = 0 THEN SegmentReclaim(w1, t)
             ELSE [w1 EXCEPT !.g = TryPurge(@, force)], t)
     /\ UNCHANGED <<request, blocks>>

\* One span of pa_segment_force_abandon.  With its last page the segment is
\* freed or abandoned and the loop is left; another page that was freed left its
\* entry pointing to the span it was merged into.
ForceAbandonSpan(w) ==
  LET i    == w.at
      last == w.g.used = w.g.abandoned + 1
      w1 == [w EXCEPT !.g.dont_free = ~last]
      w2 == IF AllFree(w.s, i) THEN PageFreed(PageClear(w1, i)) ELSE AbandonPage(w1, i)
  IN IF ~IsUsed(w.g, i) THEN NextSpan(w)
     ELSE IF last THEN [w2 EXCEPT !.at = SLICES]
     ELSE NextSpan([w2 EXCEPT !.at = SliceFirst(w2.g, i)])

\* pa_segment_force_abandon (a segment without abandoned pages).
ForceAbandon(t, s) ==
  LET loop[k \in Entries] ==
        IF k = 0 THEN Start([World(t, s) EXCEPT !.g.dont_free = TRUE])
        ELSE IF loop[k - 1].at = k - 1 THEN ForceAbandonSpan(loop[k - 1]) ELSE loop[k - 1]
      w == loop[SLICES]
  IN /\ request[t].pc = "idle"
     /\ Owned(t, s) /\ segment[s].orphans = {} /\ segment[s].used > 0
     /\ Done([w EXCEPT !.g.dont_free = FALSE], t)
     /\ UNCHANGED <<request, blocks>>

\* _pa_segment_collect
SegmentCollect(t, s, force) ==
  /\ Owned(t, s)
  /\ segment[s].purge_mask # {}
  /\ Done([World(t, s) EXCEPT !.g = TryPurge(@, force)], t)
  /\ UNCHANGED <<request, blocks>>

\* The clock passes a deadline (external).
TimePasses(s) ==
  /\ segment[s].purge_expire \in {FUTURE, PASSED}
  /\ segment' = [segment EXCEPT ![s].purge_expire = @ + 1]
  /\ UNCHANGED <<tld, request, blocks>>

Next ==
  \/ \E t \in Threads :
       \/ \E page \in PageSizes :
            \/ PageAlloc(t, page) \/ SegmentAlloc(t, page) \/ SegmentAllocFails(t, page)
            \/ \E s \in Addresses : TryReclaim(t, s, page)
       \/ PageAllocAgain(t)
       \/ HugePageAlloc(t) \/ BlockAlloc(t)
       \/ \E b \in blocks, len \in 1 .. LARGE : ReallocInPlace(t, b, len)
       \/ \E s \in Addresses :
            \/ \E i \in Slices : PageFree(t, s, i) \/ PageAbandon(t, s, i)
            \/ AttemptReclaim(t, s) \/ ForceAbandon(t, s)
            \/ \E force \in BOOLEAN : AbandonedCollect(t, s, force) \/ SegmentCollect(t, s, force)
  \/ \E b \in blocks : BlockFree(b)
  \/ \E s \in Addresses : TimePasses(s)

Spec == Init /\ [][Next]_vars

-----------------------------------------------------------------------------
(* Properties.                                                              *)

TypeOK ==
  /\ segment \in [Addresses -> SegmentRecord]
  /\ tld \in [Threads -> TldRecord]
  /\ request \in [Threads -> RequestRecord]
  /\ blocks \subseteq BlockRecord

Live == {s \in Addresses : segment[s].kind # "none"}

\* pa_segment_is_valid: the spans tile the segment, the entries a free or an
\* interior pointer needs lead back to the first slice of their span, `used`
\* and `abandoned` count the pages, and coalescing leaves no two free
\* neighbours (segment.c, all functions that change a slice).
SpansTile ==
  \A s \in Live :
    LET g == segment[s]
    IN /\ \A i \in Spans(g) :
            LET n == g.slices[i].slice_count
            IN /\ n > 0 /\ g.slices[i].slice_offset = 0
               /\ g.kind = "NORMAL" => i + n <= SLICES
               /\ \A k \in Mask(i, n) :
                    \/ k = i + n - 1
                    \/ IsUsed(g, i) /\ k - i <= PA_MAX_SLICE_OFFSET_COUNT
                    => SliceFirst(g, k) = i
               /\ (i \in FreeSpans(g) /\ i + n < SLICES) => IsUsed(g, i + n)
       /\ g.used = Cardinality(Pages(g))
       /\ g.abandoned = Cardinality(g.orphans) /\ g.orphans \subseteq Pages(g)
       /\ IsAbandoned(g) => g.used = g.abandoned
       /\ (g.used = g.abandoned /\ g.used > 0) => IsAbandoned(g)

\* The queues of a thread hold exactly the free spans of the normal segments
\* it owns, each once and in the queue of its size: no span of a segment that
\* was freed or given away is ever allocated (span queues, segment.c:218).
QueuesExact ==
  \A t \in Threads :
    LET q == tld[t].spans
        queued == UNION {{<<b, e>> : e \in Range(q[b])} : b \in Bins}
        free == UNION {{<<SliceBin(segment[s].slices[i].slice_count), <<s, i>>>> : i \in FreeSpans(segment[s])} :
                       s \in {a \in Addresses : segment[a].kind = "NORMAL" /\ segment[a].thread_id = t}}
    IN /\ queued = free
       /\ \A b \in Bins : IsInjective(q[b])

\* A segment is cut into spans without gap or overlap, free ones in the right
\* queue of the right thread, after any mix of splitting, merging, extending,
\* abandoning and reclaiming (pa_segment_is_valid, pa_segment_span_free_coalesce).
SpansSound == SpansTile /\ QueuesExact

\* Memory in use is committed and stays so: the slices of pages and of the
\* segment structure are committed by the OS and are not scheduled for a
\* purge; the masks tell the truth (pa_segment_commit, pa_segment_purge).
CommitSafe ==
  \A s \in Live :
    LET g == segment[s]
        inuse == UNION {Mask(i, g.slices[i].slice_count) : i \in Spans(g) \ FreeSpans(g)}
    IN /\ inuse \subseteq g.os
       /\ g.commit_mask \subseteq g.os
       /\ g.purge_mask \subseteq g.commit_mask \ inuse
       /\ g.purge_mask # {} => g.purge_expire # UNSET

\* Live blocks do not overlap, and each lies in the page it is in, whatever
\* is split, merged, extended, abandoned or reclaimed around them
\* (pa_segment_span_allocate, _pa_segment_try_extend_span).
BlocksDisjoint ==
  /\ \A b \in blocks : segment[b.seg].kind # "none" /\ b.page \in Pages(segment[b.seg])
                       /\ b.start + b.len <= b.page + segment[b.seg].slices[b.page].slice_count
  /\ \A b, c \in blocks : (b # c /\ b.seg = c.seg) =>
       b.start + b.len <= c.start \/ c.start + c.len <= b.start

\* A page that says its memory is zero, so that calloc need not clear it, has
\* no slice that another page used before (is_zero_init, segment.c:792).
ZeroIsClean ==
  \A s \in Live : \A i \in segment[s].zero_init \cap Pages(segment[s]) :
    Mask(i, segment[s].slices[i].slice_count) \cap segment[s].dirty = {}
=============================================================================
