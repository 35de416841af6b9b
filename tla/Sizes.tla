------------------------------- MODULE Sizes -------------------------------
(***************************************************************************)
(* The arithmetic the allocator rests on: size classes, the table of small *)
(* pages, rounding, overflow tests, commit masks and the walk over the     *)
(* blocks of a page, as the code computes them.  A probe runs through the  *)
(* inputs up to PROBES while pages come to and leave the front of the      *)
(* queues of the small size classes; SizesRight compares each result with  *)
(* its definition.  Widths are scaled: a size_t is below SizeMax + 1, a    *)
(* field of a mask has FIELD_BITS bits, and the division by a multiply     *)
(* keeps DIV_BITS bits of its magic number (32 in the code).               *)
(***************************************************************************)
EXTENDS Integers, FiniteSets, SequencesExt, FiniteSetsExt

CONSTANTS
  WORD,          \* sizeof(void*)
  MAX_ALIGN,     \* PA_MAX_ALIGN_SIZE, two words
  SMALL,         \* PA_SMALL_SIZE_MAX
  MEDIUM,        \* PA_MEDIUM_OBJ_SIZE_MAX, also PA_MAX_ALIGN_GUARANTEE
  MAX_ALLOC,     \* PA_MAX_ALLOC_SIZE
  SizeMax,       \* the largest size_t
  OS_PAGE,       \* the size of an OS page
  SLICE,         \* PA_SEGMENT_SLICE_SIZE
  SEGMENT,       \* PA_SEGMENT_SIZE
  LOOKUP,        \* PA_SIZE2BIN_LOOKUP_MAX
  COLOR3, COLOR1,       \* blocks up to these sizes start some blocks into their page (64, 512)
  FIELD_BITS, FIELDS,   \* PA_COMMIT_MASK_FIELD_BITS and _COUNT, PA_INTPTR_BITS
  DIV_BITS,
  PROBES         \* bound: the largest probe

ASSUME SizesAssumption ==
  /\ {WORD, MAX_ALIGN, SMALL, MEDIUM, MAX_ALLOC, SizeMax, OS_PAGE, SLICE, SEGMENT,
      LOOKUP, COLOR3, COLOR1} \subseteq Nat \ {0}
  /\ {FIELD_BITS, FIELDS, DIV_BITS, PROBES} \subseteq Nat \ {0}
  /\ MAX_ALIGN = 2 * WORD /\ SLICE % OS_PAGE = 0

VARIABLES
  probe,     \* the input under test
  direct,    \* pages_free_direct: the page for each size in words
  queues     \* the page queues of the small bins and the full queue

sizeVars == <<probe, direct, queues>>
-----------------------------------------------------------------------------
(* Rounding, division and overflow (internal.h).                            *)

IsPowerOfTwo(n) == n = 0 \/ \E k \in 0 .. 15 : n = 2 ^ k

AlignUpTo(n, a) == ((n + a - 1) \div a) * a
AlignDownTo(n, a) == (n \div a) * a
DivideUp(n, d) == (n + d - 1) \div d
WSize(size) == DivideUp(size, WORD)

\* pa_clz and pa_ctz: PA_SIZE_BITS for zero.
HighestBit(n) == CHOOSE b \in 0 .. 15 : 2 ^ b <= n /\ n < 2 ^ (b + 1)
LowestBit(n) == CHOOSE b \in 0 .. 15 : n % 2 ^ (b + 1) = 2 ^ b

\* pa_mul_overflow without a builtin: the product is suspect when a factor has
\* a bit in its upper half.
MulOverflow(count, size) ==
  LET could == CHOOSE c \in 1 .. SizeMax : c * c = SizeMax + 1
  IN (count >= could \/ size >= could) /\ size > 0 /\ SizeMax \div size < count

\* pa_count_size_overflow: the total, or nothing ({}) on overflow.
CountSize(count, size) ==
  IF count = 1 THEN {size}
  ELSE IF MulOverflow(count, size) THEN {} ELSE {(count * size) % (SizeMax + 1)}

\* pa_get_fast_divisor and pa_fast_divide
FastDivide(n, d) ==
  LET shift == IF d = 1 THEN 0 ELSE HighestBit(d - 1) + 1
      magic == (2 ^ DIV_BITS * (2 ^ shift - d)) \div d + 1
      hi == (n * magic) \div 2 ^ DIV_BITS
  IN (hi + n) \div 2 ^ shift
-----------------------------------------------------------------------------
(* Size classes (page-queue.c, init.c).                                     *)

\* PA_PAGE_QUEUES_EMPTY: block sizes in words, by bin; the last two are the
\* huge and the full queue.
BinWords == <<1, 1, 2, 3, 4, 5, 6, 7, 8, 10, 12, 14, 16, 20, 24, 28, 32, 40, 48, 56, 64, 65, 66>>
BIN_HUGE == Len(BinWords) - 2
BinSize(bin) == BinWords[bin + 1] * WORD

\* pa_bin, for two words of minimal alignment
Bin(size) ==
  LET w == WSize(size)
      b == HighestBit(w - 1)
  IN IF w <= 1 THEN 1
     ELSE IF w <= 8 THEN AlignUpTo(w, 2)
     ELSE IF w > MEDIUM \div WORD THEN BIN_HUGE
     ELSE 4 * b + (((w - 1) \div 2 ^ (b - 2)) % 4) - 3

\* _pa_size2bin_table_init and _pa_bin_fast
Size2Bin == [s \in 0 .. LOOKUP - 1 |-> Min({Bin(s), BIN_HUGE})]
BinFast(size) == IF size < LOOKUP THEN Size2Bin[size] ELSE Bin(size)

\* pa_good_size, for a padding of pad bytes
GoodSize(size, pad) ==
  IF size <= MEDIUM THEN BinSize(Bin(size + pad))
  ELSE AlignUpTo(size + pad, OS_PAGE)

\* pa_slice_bin8
SliceBin8(count) ==
  LET n == count - 1
      s == HighestBit(n)
  IN IF count <= 1 THEN count
     ELSE IF s <= 2 THEN count
     ELSE 4 * s + ((n \div 2 ^ (s - 2)) % 4) - 4

\* pa_segment_calculate_slices: slices for `required` bytes behind `info` bytes
\* of segment data, with a guard page on both sides in secure mode.
CalculateSlices(required, info, secure) ==
  LET guard == IF secure THEN OS_PAGE ELSE 0
      need == IF secure /\ required > 0 THEN AlignUpTo(required, SLICE) + OS_PAGE ELSE required
      isize == AlignUpTo(AlignUpTo(info, OS_PAGE) + guard, SLICE)
  IN [info_slices |-> isize \div SLICE,
      slices |-> (IF required = 0 THEN SEGMENT ELSE AlignUpTo(need + isize + guard, SLICE)) \div SLICE]

\* _pa_segment_page_start_from_slice: where the blocks of a page begin.
PageStartOffset(pstart, psize, bsize) ==
  LET adjust == bsize - (pstart % Max({bsize, 1}))
      aligned == IF bsize > 0 /\ bsize <= MEDIUM /\ adjust < bsize /\ psize >= bsize + adjust
                 THEN adjust ELSE 0
      color == IF bsize < WORD THEN 0
               ELSE IF bsize <= COLOR3 THEN 3 * bsize
               ELSE IF bsize <= COLOR1 THEN bsize ELSE 0
  IN AlignUpTo(aligned + color, MAX_ALIGN)
-----------------------------------------------------------------------------
(* Commit masks (segment.c): a mask is a sequence of FIELDS numbers.        *)

Full == 2 ^ FIELD_BITS - 1
MaskBits == FIELDS * FIELD_BITS
BitSet(cm, i) == (cm[(i \div FIELD_BITS) + 1] \div 2 ^ (i % FIELD_BITS)) % 2 = 1
Bits(cm) == {i \in 0 .. MaskBits - 1 : BitSet(cm, i)}

\* pa_commit_mask_create
MaskCreate(bitidx, bitcount) ==
  [f \in 1 .. FIELDS |->
     LET from == IF f = (bitidx \div FIELD_BITS) + 1 THEN bitidx % FIELD_BITS ELSE 0
         before == IF f <= (bitidx \div FIELD_BITS) + 1 THEN 0
                   ELSE (f - 1) * FIELD_BITS - bitidx
         count == IF f < (bitidx \div FIELD_BITS) + 1 \/ bitcount <= before THEN 0
                  ELSE Min({FIELD_BITS - from, bitcount - before})
     IN IF bitcount = MaskBits \/ count >= FIELD_BITS THEN Full ELSE (2 ^ count - 1) * 2 ^ from]

\* _pa_commit_mask_committed_size
RECURSIVE Ones(_)
Ones(mask) == IF mask = 0 THEN 0 ELSE (mask % 2) + Ones(mask \div 2)

CommittedSize(cm, total) ==
  (total \div MaskBits) * MapThenSumSet(LAMBDA f : IF cm[f] = Full THEN FIELD_BITS ELSE Ones(cm[f]),
                                        1 .. FIELDS)

\* _pa_commit_mask_next_run: the first bit from idx on, and how many follow.
RECURSIVE FirstOne(_, _, _), CountOnes(_, _, _, _)
FirstOne(cm, i, ofs) ==
  IF i >= FIELDS THEN MaskBits
  ELSE LET mask == cm[i + 1] \div 2 ^ ofs
       IN IF mask # 0 THEN i * FIELD_BITS + ofs + LowestBit(mask) ELSE FirstOne(cm, i + 1, 0)

CountOnes(cm, idx, count, mask) ==
  IF mask % 2 = 0 THEN count
  ELSE LET n == count + 1
           i == (idx + n) \div FIELD_BITS
       IN IF mask \div 2 % 2 = 1 \/ (idx + n) % FIELD_BITS # 0 THEN CountOnes(cm, idx, n, mask \div 2)
          ELSE IF i >= FIELDS THEN n ELSE CountOnes(cm, idx, n, cm[i + 1])

NextRun(cm, from) ==
  LET idx == FirstOne(cm, from \div FIELD_BITS, from % FIELD_BITS)
  IN IF idx >= MaskBits THEN <<MaskBits, 0>>
     ELSE <<idx, CountOnes(cm, idx, 0, cm[(idx \div FIELD_BITS) + 1] \div 2 ^ (idx % FIELD_BITS))>>
-----------------------------------------------------------------------------
(* The walk over the blocks of a page (heap.c).                             *)

\* The free map of _pa_heap_area_visit_blocks: bits past the capacity count as
\* free, and so do the blocks on the free list.
FreeMap(capacity, bsize, free) ==
  [f \in 0 .. DivideUp(capacity, FIELD_BITS) - 1 |->
     {b \in 0 .. FIELD_BITS - 1 :
        \/ /\ f = DivideUp(capacity, FIELD_BITS) - 1 /\ capacity % FIELD_BITS # 0
           /\ b >= capacity % FIELD_BITS
        \/ \E i \in free : LET idx == FastDivide(i * bsize, bsize)
                           IN idx \div FIELD_BITS = f /\ idx % FIELD_BITS = b}]

\* _pa_heap_area_visit_blocks: the offsets it visits, in order.
VisitBlocks(capacity, bsize, free) ==
  LET map == FreeMap(capacity, bsize, free)
      all(n) == [i \in 1 .. n |-> (i - 1) * bsize]
      field(f) == IF map[f] = {}
                  THEN [j \in 1 .. FIELD_BITS |-> (f * FIELD_BITS + j - 1) * bsize]
                  ELSE SetToSortSeq({(f * FIELD_BITS + b) * bsize : b \in (0 .. FIELD_BITS - 1) \ map[f]}, <)
  IN IF Cardinality(free) = capacity THEN << >>
     ELSE IF free = {} THEN all(capacity)
     ELSE FlattenSeq([f \in 1 .. DivideUp(capacity, FIELD_BITS) |-> field(f - 1)])
-----------------------------------------------------------------------------
(* The page queues and the table of small pages (page-queue.c).             *)

Pages == 1 .. 2
NoPage == 0       \* _pa_page_empty
FullQueue == BIN_HUGE + 1
SmallBins == {b \in 1 .. BIN_HUGE - 1 : BinSize(b) <= SMALL /\ Bin(BinSize(b)) = b}
FirstOf(queue) == IF queue = << >> THEN NoPage ELSE Head(queue)

\* The queues below a bin that hold no class of their own are skipped.
PrevBin(bin) == Max({b \in 0 .. bin - 1 : b = 0 \/ Bin(BinSize(b)) # bin})

\* Mutant of FirstUpdate: the queue just below is taken, used or not.
FirstUpdateBelow(bin, page) ==
  LET idx == WSize(BinSize(bin))
      start == IF idx <= 1 THEN 0 ELSE Min({idx, 1 + WSize(BinSize(bin - 1))})
  IN [w \in DOMAIN direct |-> IF w \in start .. idx THEN page ELSE direct[w]]

\* pa_heap_queue_first_update
FirstUpdate(bin, page) ==
  LET idx == WSize(BinSize(bin))
      start == IF idx <= 1 THEN 0 ELSE Min({idx, 1 + WSize(BinSize(PrevBin(bin)))})
  IN IF BinSize(bin) > SMALL \/ direct[idx] = page THEN direct
     ELSE [w \in DOMAIN direct |-> IF w \in start .. idx THEN page ELSE direct[w]]

\* The queues become qs, of which only that of `bin` may have another first page.
SetQueues(qs, bin) ==
  /\ queues' = qs
  /\ direct' = IF FirstOf(qs[bin]) = FirstOf(queues[bin]) THEN direct
               ELSE FirstUpdate(bin, FirstOf(qs[bin]))
  /\ UNCHANGED probe

\* pa_page_queue_push, for a page that is in no queue
QueuePush(bin, page) ==
  /\ \A q \in DOMAIN queues : ~Contains(queues[q], page)
  /\ SetQueues([queues EXCEPT ![bin] = <<page>> \o @], bin)

\* pa_page_queue_remove, from its class or from the full queue
QueueRemove(bin, page) ==
  /\ Contains(queues[bin], page)
  /\ SetQueues([queues EXCEPT ![bin] = Remove(@, page)], bin)

\* pa_page_queue_move_to_front
QueueMoveToFront(bin, page) ==
  /\ Contains(queues[bin], page) /\ Head(queues[bin]) # page
  /\ SetQueues([queues EXCEPT ![bin] = <<page>> \o Remove(@, page)], bin)

\* pa_page_queue_enqueue_from: to the end of the full queue, which has no entry
\* in the table, and pa_page_queue_enqueue_from_full: to the end of its class.
QueueToFull(bin, page) ==
  /\ Contains(queues[bin], page)
  /\ SetQueues([queues EXCEPT ![bin] = Remove(@, page), ![FullQueue] = Append(@, page)], bin)

QueueFromFull(bin, page) ==
  /\ Contains(queues[FullQueue], page)
  /\ SetQueues([queues EXCEPT ![FullQueue] = Remove(@, page), ![bin] = Append(@, page)], bin)

SizesInit ==
  /\ probe = 0
  /\ direct = [w \in 0 .. WSize(SMALL) |-> NoPage]
  /\ queues = [b \in SmallBins \cup {FullQueue} |-> << >>]

\* The probe is of the operators alone, and the queues do not depend on it.
Probe ==
  /\ \A q \in DOMAIN queues : queues[q] = << >>
  /\ probe' = (probe + 1) % (PROBES + 1)
  /\ UNCHANGED <<direct, queues>>

SizesNext ==
  \/ Probe
  \/ \E bin \in SmallBins \cup {FullQueue}, page \in Pages : QueueRemove(bin, page)
  \/ probe = 0 /\ \E bin \in SmallBins, page \in Pages :
       \/ QueuePush(bin, page) \/ QueueMoveToFront(bin, page)
       \/ QueueToFull(bin, page) \/ QueueFromFull(bin, page)
-----------------------------------------------------------------------------
(* What the operators must compute, for the probe.                          *)

\* The block sizes that are in use, and the least one that holds a size.
Classes == {BinSize(b) : b \in {c \in 1 .. BIN_HUGE - 1 : Bin(BinSize(c)) = c}}
LeastClass(size) == Min({c \in Classes : c >= size})

SizeClassesRight(n) ==
  /\ BinFast(n) = Bin(n)
  /\ n \in 0 .. MEDIUM => BinSize(Bin(n)) = LeastClass(n)
  /\ n > MEDIUM => Bin(n) = BIN_HUGE
  /\ \A pad \in {0, WORD} : GoodSize(n, pad) >= n + pad
  \* ... and a span of n slices is not looked for above a longer one
  /\ n \in 1 .. PROBES - 1 => SliceBin8(n) <= SliceBin8(n + 1)

\* The first block of a page is aligned as the blocks are, in the page.
PageStartRight(n) ==
  \A bsize \in {c \in Classes : 2 * c <= SLICE} :
    LET start == n * SLICE + PageStartOffset(n * SLICE, SLICE, bsize)
    IN start % MAX_ALIGN = 0 /\ (bsize % MAX_ALIGN = 0 => start % bsize = 0)

ArithmeticRight(n) ==
  /\ \A d \in 1 .. MEDIUM : FastDivide(n, d) = n \div d
  /\ \A s \in 0 .. SizeMax : CountSize(n, s) = IF n * s > SizeMax THEN {} ELSE {n * s}
  /\ \A secure \in BOOLEAN :
       LET c == CalculateSlices(n, OS_PAGE + 1, secure)
       IN n > 0 => c.slices * SLICE >= c.info_slices * SLICE + n

\* n as a mask, and as a range of bits
MasksRight(n) ==
  LET cm == [f \in 1 .. FIELDS |-> (n \div 2 ^ ((f - 1) * FIELD_BITS)) % 2 ^ FIELD_BITS]
      after(i) == {j \in Bits(cm) : j >= i}
      stops(i) == {j \in i .. MaskBits : j = MaskBits \/ j \notin Bits(cm)}
  IN /\ CommittedSize(cm, SEGMENT) = Cardinality(Bits(cm)) * (SEGMENT \div MaskBits)
     /\ \A i \in 0 .. MaskBits - 1 :
          /\ NextRun(cm, i) = IF after(i) = {} THEN <<MaskBits, 0>>
                              ELSE <<Min(after(i)), Min(stops(Min(after(i)))) - Min(after(i))>>
          /\ \A c \in 0 .. MaskBits - i : Bits(MaskCreate(i, c)) = i .. i + c - 1

\* A page of a capacity up to the probe, with any of its blocks free
VisitRight(n) ==
  n \in 1 .. 2 * FIELD_BITS + 1 =>
    \A free \in SUBSET (0 .. n - 1), bsize \in {2, 6, 10} :
      VisitBlocks(n, bsize, free) = SetToSortSeq({i * bsize : i \in (0 .. n - 1) \ free}, <)

\* The table of small pages names, for every size, the first page of the queue
\* of that size's class.
DirectExact == \A w \in DOMAIN direct : direct[w] = FirstOf(queues[Bin(w * WORD)])

\* The arithmetic of sizes is right for every input: each size gets the least
\* class that holds it, by table and by computation; a page's first block has
\* the alignment of its class; the multiply that replaces a division is exact;
\* a product that does not fit is refused, and only then; commit masks have the
\* bits asked for and their runs are maximal; a walk visits the used blocks of a
\* page once, in order; and the table of small pages always agrees with the
\* queues, whatever pages come, leave, fill up and return.
SizesRight ==
  /\ DirectExact
  /\ SizeClassesRight(probe)
  /\ PageStartRight(probe)
  /\ ArithmeticRight(probe)
  /\ MasksRight(probe)
  /\ VisitRight(probe)
=============================================================================
