------------------------------ MODULE OsMemory -------------------------------
(***************************************************************************)
(* The OS layer (os.c over the mmap primitives of prim/unix/prim.c).       *)
(*                                                                         *)
(* The address space is a row of OS pages that belong to nobody, to palloc *)
(* or to the rest of the process.  Addresses inside an allocation are in   *)
(* half pages, so that the rounding of pa_os_page_align_areax shows.  An   *)
(* allocation is what its memid says (mem.os.base, mem.os.size); `wanted`  *)
(* are the half pages the caller may use according to the answers it got.  *)
(* Pages of the huge area stand for huge OS pages.                         *)
(*                                                                         *)
(* Every call of the OS is a step: between two of them other threads and   *)
(* the rest of the process map and unmap memory.                           *)
(***************************************************************************)
EXTENDS Integers, FiniteSets

CONSTANTS
  Threads,
  PAGES,        \* size of the address space, in pages
  HUGEAREA,     \* first page of the area for huge pages
  ALIGN,        \* alignment asked for, in pages
  Sizes,        \* sizes asked for, in half pages
  AreaSizes,    \* sizes of the areas that are committed and purged, in half pages
  MaxAllocs,    \* bound on the allocations alive at once
  Recommit,     \* whether decommitted memory needs a commit (PA_DEBUG, PA_SECURE)
  Decommits     \* pa_option_purge_decommits

ASSUME OsAssumption ==
  /\ {PAGES, HUGEAREA, ALIGN, MaxAllocs} \subseteq Nat \ {0} /\ HUGEAREA < PAGES
  /\ Sizes \cup AreaSizes \subseteq Nat \ {0}
  /\ {Recommit, Decommits} \subseteq BOOLEAN

VARIABLES
  owner,      \* owner[p]: "free", "palloc" or "other"
  access,     \* palloc's pages that can be read and written
  allocs,     \* the allocations
  reserved,   \* _pa_stats_main.reserved
  uncounted,  \* history: how much `reserved` was lowered for pages it never counted
  huge_start, \* pa_huge_start
  strays,     \* pages palloc unmapped that were not its own
  th          \* th[t]: what the thread is doing

osVars == <<owner, access, allocs, reserved, uncounted, huge_start, strays, th>>

Addresses == 0 .. PAGES - 1
Span(p, n) == p .. p + n - 1
Halves(pages) == {2 * p : p \in pages} \cup {2 * p + 1 : p \in pages}

\* _pa_os_good_alloc_size, below 512 KiB: whole pages.
GoodAllocSize(size) == (size + 1) \div 2

\* pa_os_page_align_areax: the pages inside an area of half pages, or all the
\* pages it touches.
Conservative(a, n) == {p \in Addresses : a <= 2 * p /\ 2 * p + 2 <= a + n}
Liberal(a, n) == {p \in Addresses : 2 * p < a + n /\ a < 2 * p + 2}

AlignUp(p) == ((p + ALIGN - 1) \div ALIGN) * ALIGN

Idle == [pc |-> "idle", size |-> 0, commit |-> FALSE, offset |-> 0, start |-> 0, page |-> 0]

OsInit ==
  /\ owner = [p \in Addresses |-> "free"]
  /\ access = {}
  /\ allocs = {}
  /\ reserved = 0
  /\ uncounted = 0
  /\ huge_start = 0
  /\ strays = {}
  /\ th = [t \in Threads |-> Idle]

-----------------------------------------------------------------------------
(* What the OS does: mmap picks any free range below the huge area.         *)

FreeRange(p, n) == Span(p, n) \subseteq {q \in Addresses : q < HUGEAREA /\ owner[q] = "free"}

Mmap(pages, commit) ==
  /\ owner' = [p \in Addresses |-> IF p \in pages THEN "palloc" ELSE owner[p]]
  /\ access' = IF commit THEN access \cup pages ELSE access
  /\ reserved' = reserved + Cardinality(pages)
  /\ UNCHANGED uncounted

\* munmap takes away whatever is mapped there.
Munmap(pages) ==
  /\ owner' = [p \in Addresses |-> IF p \in pages THEN "free" ELSE owner[p]]
  /\ access' = access \ pages
  /\ reserved' = reserved - Cardinality(pages)
  /\ uncounted' = uncounted + Cardinality({p \in pages : owner[p] # "palloc"})
  /\ strays' = strays \cup {p \in pages : owner[p] = "other"}

\* The rest of the process maps and unmaps memory of its own.
OtherMaps(p) ==
  /\ owner[p] = "free"
  /\ owner' = [owner EXCEPT ![p] = "other"]
  /\ UNCHANGED <<access, allocs, reserved, uncounted, huge_start, strays, th>>

OtherUnmaps(p) ==
  /\ owner[p] = "other"
  /\ owner' = [owner EXCEPT ![p] = "free"]
  /\ UNCHANGED <<access, allocs, reserved, uncounted, huge_start, strays, th>>

-----------------------------------------------------------------------------
(* Allocation.                                                              *)

Room == Cardinality(allocs) + Cardinality({t \in Threads : th[t].pc # "idle"}) < MaxAllocs

NewAlloc(p, base, size, kind, wanted) ==
  [p |-> p, base |-> base, size |-> size, kind |-> kind, wanted |-> wanted]

\* _pa_os_alloc: committed, aligned to a page.
OsAlloc(t, size) ==
  LET n == GoodAllocSize(size)
  IN /\ th[t].pc = "idle" /\ Room
     /\ \E p \in Addresses :
          /\ FreeRange(p, n)
          /\ Mmap(Span(p, n), TRUE)
          /\ allocs' = allocs \cup {NewAlloc(p, p, n, "os", Halves(Span(p, n)))}
     /\ UNCHANGED <<huge_start, strays, th>>

\* _pa_os_alloc_aligned_at_offset: the memory from `start`, of which the part
\* from `extra` on is aligned at the offset; the part before it is decommitted.
AtOffset(start, n, commit, offset) ==
  LET extra == AlignUp(offset) - offset
      p == start + extra
      drop == IF commit /\ extra > 1 THEN Span(start, extra) ELSE {}
  IN /\ owner' = [q \in Addresses |-> IF q \in Span(start, n) THEN "palloc" ELSE owner[q]]
     /\ access' = IF ~commit THEN access
                  ELSE access \cup (IF Recommit THEN Span(start, n) \ drop ELSE Span(start, n))
     /\ reserved' = reserved + n
     /\ UNCHANGED uncounted
     /\ allocs' = allocs \cup {NewAlloc(p, start, n, "os",
                                        IF commit THEN Halves(Span(p, n - extra)) ELSE {})}

Oversize(size, offset) == GoodAllocSize(size) + AlignUp(offset) - offset

\* pa_os_prim_alloc_aligned: the first try is aligned by luck ...
OsAllocAligned(t, size, commit, offset) ==
  LET n == Oversize(size, offset)
  IN /\ th[t].pc = "idle" /\ Room /\ offset <= GoodAllocSize(size)
     /\ \E start \in Addresses :
          /\ FreeRange(start, n) /\ start % ALIGN = 0
          /\ AtOffset(start, n, commit, offset)
     /\ UNCHANGED <<huge_start, strays, th>>

\* ... or it is not; then it is freed again, and more is allocated than needed.
OsAllocUnaligned(t, size, commit, offset) ==
  LET n == Oversize(size, offset)
  IN /\ th[t].pc = "idle" /\ Room /\ offset <= GoodAllocSize(size)
     /\ \E p \in Addresses : FreeRange(p, n) /\ p % ALIGN # 0
     /\ th' = [th EXCEPT ![t] = [Idle EXCEPT !.pc = "over", !.size = n, !.commit = commit, !.offset = offset]]
     /\ UNCHANGED <<owner, access, allocs, reserved, uncounted, huge_start, strays>>

\* Mutant of OsAllocOver: the rest of the over-allocation is not unmapped.
OsAllocOverKeep(t) ==
  LET r == th[t]
  IN /\ r.pc = "over"
     /\ \E p \in Addresses :
          /\ FreeRange(p, r.size + ALIGN)
          /\ owner' = [q \in Addresses |-> IF q \in Span(p, r.size + ALIGN) THEN "palloc" ELSE owner[q]]
          /\ access' = IF r.commit THEN access \cup Span(p, r.size + ALIGN) ELSE access
          /\ reserved' = reserved + r.size
          /\ UNCHANGED uncounted
          /\ allocs' = allocs \cup {NewAlloc(AlignUp(p) + AlignUp(r.offset) - r.offset, AlignUp(p), r.size, "os", {})}
     /\ th' = [th EXCEPT ![t] = Idle]
     /\ UNCHANGED <<huge_start, strays>>

\* The parts before and after the aligned range are unmapped.
OsAllocOver(t) ==
  LET r == th[t]
  IN /\ r.pc = "over"
     /\ \E p \in Addresses :
          /\ FreeRange(p, r.size + ALIGN)
          /\ AtOffset(AlignUp(p), r.size, r.commit, r.offset)
     /\ th' = [th EXCEPT ![t] = Idle]
     /\ UNCHANGED <<huge_start, strays>>

OsAllocFails(t) ==
  /\ th[t].pc = "over"
  /\ \A p \in Addresses : ~FreeRange(p, th[t].size + ALIGN)
  /\ th' = [th EXCEPT ![t] = Idle]
  /\ UNCHANGED <<owner, access, allocs, reserved, uncounted, huge_start, strays>>

\* _pa_os_free_ex, which frees from the base that the memid names.
OsFree(a) ==
  /\ a.kind = "os"
  /\ Munmap(Span(a.base, a.size))
  /\ allocs' = allocs \ {a}
  /\ UNCHANGED <<huge_start, th>>

-----------------------------------------------------------------------------
(* Commit, decommit, reset and protection of a part of an allocation.       *)

\* Half pages of the allocation that the caller can name: an area in it.
Areas(a) == {e \in Halves(Addresses) \X AreaSizes :
               2 * a.p <= e[1] /\ e[1] + e[2] <= 2 * (a.base + a.size)}

Want(a, w) == allocs' = (allocs \ {a}) \cup {[a EXCEPT !.wanted = w]}

\* _pa_os_commit_ex; mprotect may fail.
OsCommit(a, x, n) ==
  /\ access' = access \cup Liberal(x, n)
  /\ Want(a, a.wanted \cup Span(x, n))
  /\ UNCHANGED <<owner, reserved, uncounted, huge_start, strays, th>>

\* Mutant of OsDecommit: the area is rounded the way a commit rounds it.
OsDecommitLiberal(a, x, n) ==
  /\ access' = IF Recommit THEN access \ Liberal(x, n) ELSE access
  /\ Want(a, IF Recommit THEN a.wanted \ Span(x, n) ELSE a.wanted)
  /\ UNCHANGED <<owner, reserved, uncounted, huge_start, strays, th>>

\* pa_os_decommit_ex, _pa_prim_decommit: an area without a whole page in it is
\* left as it is, and the caller told that it needs a recommit all the same.
OsDecommit(a, x, n) ==
  /\ access' = IF Recommit THEN access \ Conservative(x, n) ELSE access
  /\ Want(a, IF Recommit THEN a.wanted \ Span(x, n) ELSE a.wanted)
  /\ UNCHANGED <<owner, reserved, uncounted, huge_start, strays, th>>

\* _pa_os_purge_ex: a decommit, or a reset that keeps the memory committed.
OsPurge(a, x, n) ==
  IF Decommits THEN OsDecommit(a, x, n) ELSE UNCHANGED osVars

\* pa_os_protectx, for the guard pages.
OsProtect(a, x, n, protect) ==
  /\ Conservative(x, n) # {} /\ Span(x, n) = Halves(Conservative(x, n))
  /\ access' = IF protect THEN access \ Conservative(x, n) ELSE access \cup Conservative(x, n)
  /\ Want(a, IF protect THEN a.wanted \ Span(x, n) ELSE a.wanted \cup Span(x, n))
  /\ UNCHANGED <<owner, reserved, uncounted, huge_start, strays, th>>

-----------------------------------------------------------------------------
(* Huge pages.                                                              *)

\* pa_os_claim_huge_pages loads pa_huge_start ...
ClaimHugePages(t, pages) ==
  LET start == IF huge_start = 0 THEN HUGEAREA ELSE huge_start
  IN /\ th[t].pc = "idle" /\ Room
     /\ start + pages <= PAGES
     /\ th' = [th EXCEPT ![t] = [Idle EXCEPT !.pc = "cas", !.size = pages, !.start = huge_start]]
     /\ UNCHANGED <<owner, access, allocs, reserved, uncounted, huge_start, strays>>

\* Mutant of ClaimCas: pa_huge_start is stored without comparing.
ClaimCasStore(t) ==
  LET start == IF th[t].start = 0 THEN HUGEAREA ELSE th[t].start
  IN /\ th[t].pc = "cas"
     /\ huge_start' = start + th[t].size
     /\ th' = [th EXCEPT ![t].pc = "huge", ![t].start = start]
     /\ UNCHANGED <<owner, access, allocs, reserved, uncounted, strays>>

\* ... and moves it on, unless another thread did; then it tries again.
ClaimCas(t) ==
  LET start == IF th[t].start = 0 THEN HUGEAREA ELSE th[t].start
  IN /\ th[t].pc = "cas"
     /\ IF huge_start = th[t].start
          THEN /\ huge_start' = start + th[t].size
               /\ th' = [th EXCEPT ![t].pc = "huge", ![t].start = start]
          ELSE /\ th' = [th EXCEPT ![t] = IF huge_start + th[t].size <= PAGES
                                            THEN [@ EXCEPT !.start = huge_start] ELSE Idle]
               /\ UNCHANGED huge_start
     /\ UNCHANGED <<owner, access, allocs, reserved, uncounted, strays>>

\* _pa_os_alloc_huge_os_pages, one page: it must be where it was asked for.
AllocHugeOsPage(t) ==
  LET r == th[t]
      p == r.start + r.page
  IN /\ r.pc = "huge" /\ r.page < r.size
     /\ owner[p] = "free"
     /\ Mmap({p}, TRUE)
     /\ th' = [th EXCEPT ![t].page = @ + 1]
     /\ UNCHANGED <<allocs, huge_start, strays>>

\* The end of the claim: the memid gets the size that was asked for.
HugeMemid(t) ==
  LET r == th[t]
  IN /\ allocs' = IF r.page = 0 THEN allocs
                  ELSE allocs \cup {NewAlloc(r.start, r.start, r.size, "huge", Halves(Span(r.start, r.page)))}
     /\ th' = [th EXCEPT ![t] = Idle]
     /\ UNCHANGED <<owner, access, huge_start, strays>>

\* All pages are there, or the OS has no more, or it takes too long.
AllocHugeDone(t) ==
  /\ th[t].pc = "huge"
  /\ HugeMemid(t)
  /\ UNCHANGED <<reserved, uncounted>>

\* The OS puts the next page elsewhere: it is freed at once, which lowers the
\* statistic that only a page in place raises.
AllocHugeElsewhere(t) ==
  LET r == th[t]
  IN /\ r.pc = "huge" /\ r.page < r.size
     /\ \E q \in Addresses \ {r.start + r.page} : owner[q] = "free"
     /\ HugeMemid(t)
     /\ reserved' = reserved - 1
     /\ uncounted' = uncounted + 1

\* pa_os_free_huge_os_pages: every page of the memid's size.
FreeHugeOsPages(a) ==
  /\ a.kind = "huge"
  /\ Munmap(Span(a.base, a.size))
  /\ allocs' = allocs \ {a}
  /\ UNCHANGED <<huge_start, th>>

-----------------------------------------------------------------------------
OsNext ==
  \/ \E p \in Addresses : OtherMaps(p) \/ OtherUnmaps(p)
  \/ \E t \in Threads :
       \/ \E size \in Sizes :
            \/ OsAlloc(t, size)
            \/ \E commit \in BOOLEAN, offset \in 0 .. ALIGN :
                 OsAllocAligned(t, size, commit, offset) \/ OsAllocUnaligned(t, size, commit, offset)
       \/ OsAllocOver(t) \/ OsAllocFails(t)
       \/ \E pages \in 1 .. PAGES - HUGEAREA : ClaimHugePages(t, pages)
       \/ ClaimCas(t) \/ AllocHugeOsPage(t) \/ AllocHugeDone(t) \/ AllocHugeElsewhere(t)
  \/ \E a \in allocs :
       \/ OsFree(a) \/ FreeHugeOsPages(a)
       \/ /\ a.kind = "os"
          /\ \E e \in Areas(a) :
               \/ OsCommit(a, e[1], e[2]) \/ OsPurge(a, e[1], e[2])
               \/ \E protect \in BOOLEAN : OsProtect(a, e[1], e[2], protect)

OsSpec == OsInit /\ [][OsNext]_osVars

-----------------------------------------------------------------------------
(* Properties.                                                              *)

\* Huge pages asked for and never gotten, of reservations that came up short.
Short == UNION {{p \in Span(a.base, a.size) : 2 * p \notin a.wanted} :
                a \in {b \in allocs : b.kind = "huge"}}

\* The memory of live allocations is palloc's and never shared, also
\* between threads that claim huge pages at once (_pa_os_alloc_aligned,
\* pa_os_claim_huge_pages).
AllocationsOwn ==
  /\ \A a \in allocs : /\ \A p \in Span(a.base, a.size) \ Short : owner[p] = "palloc"
                       /\ a.base <= a.p /\ a.p < a.base + a.size
  /\ \A a, b \in allocs : a # b => Span(a.base, a.size) \cap Span(b.base, b.size) = {}
  /\ \A t, u \in Threads : (t # u /\ th[t].pc = "huge" /\ th[u].pc = "huge") =>
       Span(th[t].start, th[t].size) \cap Span(th[u].start, th[u].size) = {}
  /\ \A t \in Threads : th[t].pc = "huge" =>
       \A a \in allocs : Span(th[t].start, th[t].size) \cap Span(a.base, a.size) = {}

\* What the caller may use can be used: a commit covers the pages it touches, a
\* decommit spares those it shares with its neighbours (pa_os_page_align_areax).
WantedAccessible ==
  \A a \in allocs : \A h \in a.wanted : (h \div 2) \in access

\* Nothing leaks and nothing foreign is unmapped: palloc's pages are those of
\* its allocations, only a huge reservation that came up short makes it free
\* pages it never got, and the reserved statistic counts palloc's pages but for
\* what it was lowered by such pages, and by those placed elsewhere
\* (pa_os_prim_alloc_aligned, pa_os_prim_free, _pa_os_alloc_huge_os_pages).
NothingLeaks ==
  /\ {p \in Addresses : owner[p] = "palloc"} =
       ((UNION {Span(a.base, a.size) : a \in allocs}) \ Short)
       \cup (UNION {Span(th[t].start, th[t].page) : t \in {u \in Threads : th[u].pc = "huge"}})
  /\ strays \subseteq {p \in Addresses : p >= HUGEAREA}
  /\ reserved + uncounted = Cardinality({p \in Addresses : owner[p] = "palloc"})
  /\ huge_start = 0 => uncounted = 0
=============================================================================
