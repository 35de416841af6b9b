--------------------------- MODULE OsMemoryProofs ---------------------------
(***************************************************************************)
(* Theorems about the memory that palloc has from the operating system     *)
(* (OsMemory) and about the arenas made of it (Arenas), for any number of  *)
(* threads, pages, blocks and table entries and any sizes.                 *)
(*                                                                         *)
(* OsMemory.  Its promise is about pages, and pages change owner between   *)
(* the steps of a claim of huge pages; OsInv therefore says for each page  *)
(* who has it, an allocation or a claim under way (OwnedByUs), keeps the   *)
(* two apart in their areas (AllocsPlaced, ThreadsPlaced, Claimed) and     *)
(* relates the statistic to the number of pages (Counted).                 *)
(*                                                                         *)
(* Arenas.  Its promise is about pieces of memory that clients have.  It   *)
(* follows from ArenasInv, which is about what is behind them: an entry of *)
(* the table leads to the arena with its id (TableOK), a call that adds an *)
(* arena is the only one with it (CallsOK), memory that arenas, calls and  *)
(* clients hold lies apart and is what is mapped (Spans...), and blocks of *)
(* clients are in use, each for one client (PiecesHere, BlocksApart).  A   *)
(* thread that goes over the top of the static area lifts it past the end  *)
(* for everybody until it has taken that back (StaticOK).                  *)
(***************************************************************************)
EXTENDS OsMemory, Arenas, FiniteSetTheorems, SequenceTheorems, WellFoundedInduction, TLAPS

-----------------------------------------------------------------------------
(* The OS layer: the inductive invariant.                                   *)

\* What the memid of an allocation can say.
HalfPages == SUBSET Halves(Addresses)
Allocation == [p : Nat, base : Nat, size : Nat, kind : {"os", "huge"}, wanted : HalfPages]

\* What a thread can be at.
ThreadState == [pc : {"idle", "over", "cas", "huge"}, size : Nat, commit : BOOLEAN,
                offset : Nat, start : Nat, page : Nat]

OsTypeOK ==
  /\ owner \in [Addresses -> {"free", "palloc", "other"}]
  /\ access \subseteq Addresses
  /\ allocs \subseteq Allocation
  /\ reserved \in Int /\ uncounted \in Nat
  /\ huge_start \in Nat /\ (huge_start = 0 \/ huge_start \in HUGEAREA .. PAGES)
  /\ strays \subseteq Addresses
  /\ th \in [Threads -> ThreadState]

\* The pages of an allocation that the OS has given: of huge pages only those the
\* caller may use.
Has(a, q) == q \in Span(a.base, a.size) /\ (a.kind = "os" \/ 2 * q \in a.wanted)

Claims(t, q) == th[t].pc = "huge" /\ q \in Span(th[t].start, th[t].page)

\* An allocation lies in its area, and its caller uses no more than it.
Placed(a) ==
  /\ a.base <= a.p /\ a.p < a.base + a.size
  /\ a.kind = "os" => a.base + a.size <= HUGEAREA
  /\ a.kind = "huge" => HUGEAREA <= a.base /\ a.base + a.size <= huge_start
  /\ \A h \in a.wanted : h \div 2 \in Span(a.base, a.size)
  /\ a.kind = "huge" => \A h \in a.wanted : 2 * (h \div 2) \in a.wanted

Apart(a, b) == a.base + a.size <= b.base \/ b.base + b.size <= a.base

AllocsPlaced ==
  /\ \A a \in allocs : Placed(a)
  /\ \A a, b \in allocs : a # b => Apart(a, b)

\* What a thread has asked for or claimed is in its area too.
FirstHuge(start) == IF start = 0 THEN HUGEAREA ELSE start

ThreadPlaced(r) ==
  /\ r.pc = "over" => r.size > AlignUp(r.offset) - r.offset
  /\ r.pc = "cas" => /\ r.start = 0 \/ (HUGEAREA <= r.start /\ r.start <= huge_start)
                     /\ r.size > 0 /\ FirstHuge(r.start) + r.size <= PAGES /\ r.page = 0
  /\ r.pc = "huge" => /\ HUGEAREA <= r.start /\ r.start + r.size <= huge_start
                      /\ r.size > 0 /\ r.page <= r.size

ThreadsApart(r, s) ==
  (r.pc = "huge" /\ s.pc = "huge") => (r.start + r.size <= s.start \/ s.start + s.size <= r.start)

ThreadApart(r, a) ==
  r.pc = "huge" => (r.start + r.size <= a.base \/ a.base + a.size <= r.start)

ThreadsPlaced ==
  /\ \A t \in Threads : ThreadPlaced(th[t])
  /\ \A t, u \in Threads : t # u => ThreadsApart(th[t], th[u])

Claimed == \A t \in Threads, a \in allocs : ThreadApart(th[t], a)

\* Every page of palloc belongs to an allocation or to a thread that claims it.
OwnedByUs ==
  \A q \in Addresses :
    owner[q] = "palloc" <=> (\E a \in allocs : Has(a, q)) \/ (\E t \in Threads : Claims(t, q))

ClaimsAccessible == \A t \in Threads, q \in Addresses : Claims(t, q) => q \in access

Ours == {q \in Addresses : owner[q] = "palloc"}

\* The statistic counts palloc's pages, and is lowered beyond that only for pages of
\* huge reservations.
Counted ==
  /\ reserved + uncounted = Cardinality(Ours)
  /\ huge_start = 0 => uncounted = 0

StraysHuge == \A q \in strays : q >= HUGEAREA

OsInv ==
  /\ OsTypeOK
  /\ AllocsPlaced
  /\ ThreadsPlaced
  /\ Claimed
  /\ OwnedByUs
  /\ WantedAccessible
  /\ ClaimsAccessible
  /\ Counted
  /\ StraysHuge
-----------------------------------------------------------------------------
(* Pages, half pages and alignment.                                         *)

LEMMA SpanIn ==
  ASSUME NEW p \in Int, NEW n \in Int, NEW q \in Int
  PROVE  q \in Span(p, n) <=> (p <= q /\ q < p + n)
  BY DEF Span

LEMMA HalvesIn ==
  ASSUME NEW S \in SUBSET Int, NEW h
  PROVE  h \in Halves(S) <=> (h \in Int /\ h \div 2 \in S)
<1>1. ASSUME h \in Halves(S) PROVE h \in Int /\ h \div 2 \in S
  <2>1. PICK q \in S : h = 2 * q \/ h = 2 * q + 1
    BY <1>1 DEF Halves
  <2> QED
    BY <2>1
<1>2. ASSUME h \in Int, h \div 2 \in S PROVE h \in Halves(S)
  <2>1. h = 2 * (h \div 2) \/ h = 2 * (h \div 2) + 1
    BY <1>2
  <2> QED
    BY <1>2, <2>1 DEF Halves
<1> QED
  BY <1>1, <1>2

LEMMA Quotient ==
  ASSUME NEW a \in Nat, NEW d \in Nat \ {0}
  PROVE  /\ a \div d \in Nat /\ a % d \in 0 .. d - 1
         /\ a = (a \div d) * d + (a % d)
OBVIOUS

\* Rounding up to the alignment adds less than the alignment.
LEMMA AlignUpBounds ==
  ASSUME NEW p \in Nat
  PROVE  AlignUp(p) \in Nat /\ p <= AlignUp(p) /\ AlignUp(p) < p + ALIGN
<1> DEFINE m == p + ALIGN - 1
           q == (m \div ALIGN) * ALIGN
<1>1. ALIGN \in Nat \ {0} /\ m \in Nat
  BY OsAssumption
<1>2. m = q + (m % ALIGN) /\ m % ALIGN \in 0 .. ALIGN - 1 /\ q \in Nat
  <2> HIDE DEF m
  <2>1. m \div ALIGN \in Nat /\ m % ALIGN \in 0 .. ALIGN - 1 /\ m = q + (m % ALIGN)
    BY <1>1, Quotient
  <2> QED
    BY <1>1, <2>1
<1>3. AlignUp(p) = q
  BY DEF AlignUp
<1> HIDE DEF q
<1> QED
  BY <1>1, <1>2, <1>3

LEMMA AddressesInt == Addresses \subseteq Nat /\ Addresses \in SUBSET Int /\ IsFiniteSet(Addresses)
<1>1. IsFiniteSet(0 .. PAGES - 1)
  BY OsAssumption, FS_Interval
<1> QED
  BY <1>1, OsAssumption DEF Addresses

LEMMA WantedHalf ==
  ASSUME NEW a \in Allocation, NEW h \in a.wanted
  PROVE  h \in Int /\ h \div 2 \in Addresses
<1>1. a.wanted \in HalfPages
  BY DEF Allocation
<1> QED
  BY <1>1, HalvesIn, AddressesInt DEF HalfPages

LEMMA AllocationFields ==
  ASSUME NEW a \in Allocation
  PROVE  /\ a.p \in Nat /\ a.base \in Nat /\ a.size \in Nat
         /\ a.kind \in {"os", "huge"} /\ a.wanted \in HalfPages
  BY DEF Allocation

LEMMA ThreadFields ==
  ASSUME NEW r \in ThreadState
  PROVE  /\ r.pc \in {"idle", "over", "cas", "huge"} /\ r.size \in Nat /\ r.commit \in BOOLEAN
         /\ r.offset \in Nat /\ r.start \in Nat /\ r.page \in Nat
  BY DEF ThreadState

LEMMA OursFinite == Ours \subseteq Addresses /\ IsFiniteSet(Ours) /\ Cardinality(Ours) \in Nat
<1>1. Ours \subseteq Addresses
  BY DEF Ours
<1> QED
  BY <1>1, AddressesInt, FS_Subset, FS_CardinalityType

LEMMA SpanFinite ==
  ASSUME NEW p \in Int, NEW n \in Nat
  PROVE  IsFiniteSet(Span(p, n)) /\ Cardinality(Span(p, n)) = n
<1>1. IsFiniteSet(p .. p + n - 1) /\ Cardinality(p .. p + n - 1) = IF p > p + n - 1 THEN 0 ELSE p + n - 1 - p + 1
  BY FS_Interval
<1> QED
  BY <1>1 DEF Span

\* Growing and shrinking the pages of palloc.
LEMMA CountUp ==
  ASSUME NEW S, IsFiniteSet(S), IsFiniteSet(Ours), Ours \cap S = {}, Ours' = Ours \cup S,
         Counted, reserved \in Int, uncounted \in Nat, reserved' = reserved + Cardinality(S),
         UNCHANGED <<uncounted, huge_start>>
  PROVE  Counted'
<1>1. Cardinality(Ours \cup S) = Cardinality(Ours) + Cardinality(S) - Cardinality(Ours \cap S)
  BY FS_Union
<1>2. Cardinality({}) = 0
  BY FS_EmptySet
<1>3. Cardinality(Ours) \in Nat /\ Cardinality(S) \in Nat
  BY FS_CardinalityType
<1>4. Cardinality(Ours') = Cardinality(Ours) + Cardinality(S)
  <2>1. Cardinality(Ours \cap S) = 0
    BY <1>2
  <2>2. Cardinality(Ours') = Cardinality(Ours \cup S)
    BY Zenon
  <2> QED
    BY <1>1, <1>3, <2>1, <2>2
<1> QED
  BY <1>3, <1>4 DEF Counted

LEMMA CountDown ==
  ASSUME NEW S, S \subseteq Addresses, IsFiniteSet(S), IsFiniteSet(Ours), Ours' = Ours \ S,
         huge_start # 0 \/ S \subseteq Ours,
         Counted, reserved \in Int, uncounted \in Nat, reserved' = reserved - Cardinality(S),
         uncounted' = uncounted + Cardinality({p \in S : owner[p] # "palloc"}), UNCHANGED huge_start
  PROVE  Counted'
<1>1. Cardinality(Ours \ S) = Cardinality(Ours) - Cardinality(Ours \cap S)
  BY FS_Difference
<1>2. Cardinality(S \ Ours) = Cardinality(S) - Cardinality(S \cap Ours)
  BY FS_Difference
<1>3. {p \in S : owner[p] # "palloc"} = S \ Ours /\ S \cap Ours = Ours \cap S
  BY DEF Ours
<1>4. IsFiniteSet(Ours \cap S)
  BY FS_Intersection
<1>5. Cardinality(Ours) \in Nat /\ Cardinality(S) \in Nat /\ Cardinality(Ours \cap S) \in Nat
  BY <1>4, FS_CardinalityType
<1>6. reserved' + uncounted' = Cardinality(Ours')
  <2>1. Cardinality(Ours') = Cardinality(Ours \ S)
    BY Zenon
  <2>2. uncounted' = uncounted + Cardinality(S \ Ours)
    BY <1>3, Zenon
  <2>3. Cardinality(S \ Ours) = Cardinality(S) - Cardinality(Ours \cap S)
    BY <1>2, <1>3, Zenon
  <2>4. reserved + uncounted = Cardinality(Ours)
    BY DEF Counted
  <2> QED
    BY <1>1, <1>5, <2>1, <2>2, <2>3, <2>4
<1>7. ASSUME huge_start = 0 PROVE uncounted' = 0
  <2>1. S \ Ours = {}
    BY <1>7
  <2>2. Cardinality(S \ Ours) = 0
    BY <2>1, FS_EmptySet
  <2>3. uncounted' = uncounted + Cardinality(S \ Ours)
    BY <1>3, Zenon
  <2>4. uncounted = 0
    BY <1>7 DEF Counted
  <2> QED
    BY <2>2, <2>3, <2>4
<1> QED
  BY <1>6, <1>7 DEF Counted

-----------------------------------------------------------------------------
(* What the invariant says of one allocation and one thread.                *)

LEMMA AllocOf ==
  ASSUME OsInv, NEW a \in allocs
  PROVE  /\ a \in Allocation /\ Placed(a)
         /\ a.p \in Nat /\ a.base \in Nat /\ a.size \in Nat /\ a.size > 0
         /\ a.kind \in {"os", "huge"} /\ a.base + a.size <= PAGES
         /\ a.wanted \in HalfPages
         /\ Span(a.base, a.size) \subseteq Addresses
<1>1. a \in Allocation /\ Placed(a)
  BY DEF OsInv, OsTypeOK, AllocsPlaced
<1>2. a.p \in Nat /\ a.base \in Nat /\ a.size \in Nat /\ a.kind \in {"os", "huge"} /\ a.wanted \in HalfPages
  BY <1>1, AllocationFields
<1>3. huge_start \in Nat /\ huge_start <= PAGES
  BY OsAssumption DEF OsInv, OsTypeOK
<1>4. a.size > 0 /\ a.base + a.size <= PAGES
  BY <1>1, <1>2, <1>3, OsAssumption DEF Placed
<1> QED
  BY <1>1, <1>2, <1>4, OsAssumption DEF Span, Addresses

LEMMA ThreadOf ==
  ASSUME OsInv, NEW t \in Threads
  PROVE  /\ th[t] \in ThreadState /\ ThreadPlaced(th[t])
         /\ th[t].pc \in {"idle", "over", "cas", "huge"} /\ th[t].size \in Nat /\ th[t].commit \in BOOLEAN
         /\ th[t].offset \in Nat /\ th[t].start \in Nat /\ th[t].page \in Nat
         /\ huge_start \in Nat /\ huge_start <= PAGES /\ (huge_start = 0 \/ HUGEAREA <= huge_start)
<1>1. th[t] \in ThreadState /\ ThreadPlaced(th[t])
  BY DEF OsInv, OsTypeOK, ThreadsPlaced
<1>2. huge_start \in Nat /\ huge_start <= PAGES /\ (huge_start = 0 \/ HUGEAREA <= huge_start)
  BY OsAssumption DEF OsInv, OsTypeOK
<1> QED
  BY <1>1, <1>2, ThreadFields

\* Two ranges that are not apart have a page in common.
LEMMA ApartSpans ==
  ASSUME NEW p \in Int, NEW n \in Int, NEW q \in Int, NEW m \in Int
  PROVE  /\ (p + n <= q \/ q + m <= p) => \A x \in Int : ~(x \in Span(p, n) /\ x \in Span(q, m))
         /\ (n > 0 /\ m > 0 /\ ~(p + n <= q \/ q + m <= p)) =>
              \E x \in Int : x \in Span(p, n) /\ x \in Span(q, m)
<1>1. ASSUME n > 0, m > 0, ~(p + n <= q \/ q + m <= p)
      PROVE  \E x \in Int : x \in Span(p, n) /\ x \in Span(q, m)
  <2> DEFINE x == IF p < q THEN q ELSE p
  <2>1. x \in Int /\ x \in Span(p, n) /\ x \in Span(q, m)
    BY <1>1 DEF Span
  <2> QED
    BY <2>1
<1>2. (p + n <= q \/ q + m <= p) => \A x \in Int : ~(x \in Span(p, n) /\ x \in Span(q, m))
  BY DEF Span
<1> QED
  BY <1>1, <1>2

\* A page belongs to one allocation, and not to a thread as well.
LEMMA OneHolder ==
  ASSUME OsInv, NEW a \in allocs, NEW q \in Span(a.base, a.size)
  PROVE  /\ q \in Addresses
         /\ \A b \in allocs : b # a => q \notin Span(b.base, b.size)
         /\ \A t \in Threads : th[t].pc = "huge" => q \notin Span(th[t].start, th[t].size)
         /\ \A t \in Threads : ~Claims(t, q)
<1>1. a.base \in Nat /\ a.size \in Nat /\ q \in Addresses /\ q \in Nat
  BY AllocOf, AddressesInt
<1>2. ASSUME NEW b \in allocs, b # a PROVE q \notin Span(b.base, b.size)
  <2>1. Apart(a, b)
    BY <1>2 DEF OsInv, AllocsPlaced
  <2>2. b.base \in Nat /\ b.size \in Nat
    BY AllocOf
  <2> QED
    BY <1>1, <2>1, <2>2 DEF Apart, Span
<1>3. ASSUME NEW t \in Threads, th[t].pc = "huge" PROVE q \notin Span(th[t].start, th[t].size)
  <2>1. ThreadApart(th[t], a)
    BY DEF OsInv, Claimed
  <2>2. th[t].start \in Nat /\ th[t].size \in Nat
    BY ThreadOf
  <2> QED
    BY <1>1, <1>3, <2>1, <2>2 DEF ThreadApart, Span
<1>4. ASSUME NEW t \in Threads, Claims(t, q) PROVE FALSE
  <2>1. th[t].pc = "huge" /\ q \in Span(th[t].start, th[t].page)
    BY <1>4 DEF Claims
  <2>2. th[t].start \in Nat /\ th[t].size \in Nat /\ th[t].page \in Nat /\ th[t].page <= th[t].size
    BY <2>1, ThreadOf DEF ThreadPlaced
  <2> QED
    BY <1>1, <1>3, <2>1, <2>2 DEF Span
<1> QED
  BY <1>1, <1>2, <1>3, <1>4

LEMMA InitInv == OsInit => OsInv
<1> SUFFICES ASSUME OsInit PROVE OsInv
  OBVIOUS
<1> USE DEF OsInit
<1>0. \A t \in Threads : th[t] = Idle
  OBVIOUS
<1>1. Idle \in ThreadState /\ Idle.pc = "idle"
  BY DEF Idle, ThreadState
<1>2. OsTypeOK
  <2>1. th \in [Threads -> ThreadState]
    BY <1>1
  <2> QED
    BY <2>1 DEF OsTypeOK
<1>3. ThreadsPlaced
  BY <1>0, <1>1 DEF ThreadsPlaced, ThreadPlaced, ThreadsApart
<1>4. OwnedByUs
  BY <1>0, <1>1 DEF OwnedByUs, Claims
<1>5. Counted
  <2>1. Ours = {}
    BY DEF Ours
  <2>2. Cardinality(Ours) = 0
    BY <2>1, FS_EmptySet, Zenon
  <2> QED
    BY <2>2 DEF Counted
<1>6. ClaimsAccessible
  BY <1>0, <1>1 DEF ClaimsAccessible, Claims
<1> QED
  BY <1>2, <1>3, <1>4, <1>5, <1>6 DEF OsInv, AllocsPlaced, Claimed, WantedAccessible, StraysHuge

-----------------------------------------------------------------------------
(* Operations that make and free allocations.                               *)

\* A thread that neither claims huge pages nor is done with claiming them can be
\* anywhere else.
LEMMA ThreadsElsewhere ==
  ASSUME OsInv, UNCHANGED huge_start, th' \in [Threads -> ThreadState],
         \A t \in Threads : \/ th'[t] = th[t]
                            \/ th[t].pc # "huge" /\ th'[t].pc # "huge" /\ ThreadPlaced(th'[t])
  PROVE  /\ ThreadsPlaced'
         /\ \A t \in Threads, q \in Addresses : Claims(t, q)' <=> Claims(t, q)
         /\ \A t \in Threads : \A a : ThreadApart(th[t], a) => ThreadApart(th'[t], a)
<1>1. \A t \in Threads : ThreadPlaced(th[t])' <=> ThreadPlaced(th'[t])
  BY DEF ThreadPlaced, FirstHuge
<1>2. \A t \in Threads : ThreadPlaced(th[t])'
  BY <1>1 DEF OsInv, ThreadsPlaced
<1>3. \A t, u \in Threads : t # u => ThreadsApart(th'[t], th'[u])
  <2> SUFFICES ASSUME NEW t \in Threads, NEW u \in Threads, t # u, th'[t].pc = "huge", th'[u].pc = "huge"
               PROVE  ThreadsApart(th'[t], th'[u])
    BY DEF ThreadsApart
  <2>1. th'[t] = th[t] /\ th'[u] = th[u]
    OBVIOUS
  <2>2. ThreadsApart(th[t], th[u])
    BY DEF OsInv, ThreadsPlaced
  <2> QED
    BY <2>1, <2>2
<1>4. ThreadsPlaced'
  BY <1>2, <1>3 DEF ThreadsPlaced, ThreadsApart
<1>5. \A t \in Threads, q \in Addresses : Claims(t, q)' <=> Claims(t, q)
  BY DEF Claims
<1>6. \A t \in Threads : \A a : ThreadApart(th[t], a) => ThreadApart(th'[t], a)
  BY DEF ThreadApart
<1> QED
  BY <1>4, <1>5, <1>6

LEMMA AddAllocation ==
  ASSUME OsInv,
         NEW a \in Allocation, a.kind = "os", a.base <= a.p, a.p < a.base + a.size,
         \A h \in a.wanted : h \div 2 \in Span(a.base, a.size),
         FreeRange(a.base, a.size),
         owner' = [q \in Addresses |-> IF q \in Span(a.base, a.size) THEN "palloc" ELSE owner[q]],
         access \subseteq access', access' \subseteq Addresses,
         \A h \in a.wanted : h \div 2 \in access',
         reserved' = reserved + a.size,
         allocs' = allocs \cup {a},
         UNCHANGED <<uncounted, huge_start, strays>>,
         th' \in [Threads -> ThreadState],
         \A t \in Threads : \/ th'[t] = th[t]
                            \/ th[t].pc # "huge" /\ th'[t].pc # "huge" /\ ThreadPlaced(th'[t])
  PROVE  OsInv'
<1> DEFINE S == Span(a.base, a.size)
<1>1. /\ a.p \in Nat /\ a.base \in Nat /\ a.size \in Nat /\ a.size > 0
  BY AllocationFields
<1>2. \A q \in S : q \in Addresses /\ q < HUGEAREA /\ owner[q] = "free"
  BY DEF FreeRange
<1>3. a.base + a.size <= HUGEAREA
  <2>1. a.base + a.size - 1 \in S
    BY <1>1 DEF Span
  <2> QED
    BY <1>1, <1>2, <2>1, AddressesInt, OsAssumption
<1>4. /\ owner \in [Addresses -> {"free", "palloc", "other"}] /\ reserved \in Int /\ uncounted \in Nat
      /\ allocs \subseteq Allocation /\ strays \subseteq Addresses
      /\ huge_start \in Nat /\ (huge_start = 0 \/ huge_start \in HUGEAREA .. PAGES)
  BY DEF OsInv, OsTypeOK
<1>5. OsTypeOK'
  BY <1>1, <1>4 DEF OsTypeOK
<1>6. Placed(a)'
  BY <1>3 DEF Placed
<1>7. \A b \in allocs : Placed(b)'
  <2> SUFFICES ASSUME NEW b \in allocs PROVE Placed(b)'
    OBVIOUS
  <2>1. Placed(b)
    BY AllocOf
  <2> QED
    BY <2>1 DEF Placed
<1>8. \A b \in allocs : Apart(a, b) /\ Apart(b, a)
  <2> SUFFICES ASSUME NEW b \in allocs PROVE Apart(a, b)
    BY DEF Apart
  <2>1. b.base \in Nat /\ b.size \in Nat /\ b.size > 0 /\ b.kind \in {"os", "huge"} /\ Placed(b)
    BY AllocOf
  <2>2. CASE b.kind = "huge"
    BY <1>1, <1>3, <2>1, <2>2, OsAssumption DEF Placed, Apart
  <2>3. CASE b.kind = "os"
    <3> SUFFICES ASSUME ~Apart(a, b) PROVE FALSE
      OBVIOUS
    <3>1. PICK x \in Int : x \in S /\ x \in Span(b.base, b.size)
      BY <1>1, <2>1, ApartSpans DEF Apart
    <3>2. Has(b, x) /\ x \in Addresses
      BY <1>2, <2>3, <3>1 DEF Has
    <3>3. owner[x] = "palloc"
      BY <3>2 DEF OsInv, OwnedByUs
    <3> QED
      BY <1>2, <3>1, <3>3
  <2> QED
    BY <2>1, <2>2, <2>3
<1>9. AllocsPlaced'
  <2>1. \A b, c \in allocs : b # c => Apart(b, c)
    BY DEF OsInv, AllocsPlaced
  <2> QED
    BY <1>6, <1>7, <1>8, <2>1 DEF AllocsPlaced, Apart
<1>10. /\ ThreadsPlaced'
       /\ \A t \in Threads, q \in Addresses : Claims(t, q)' <=> Claims(t, q)
       /\ \A t \in Threads : \A b : ThreadApart(th[t], b) => ThreadApart(th'[t], b)
  BY ThreadsElsewhere
<1>11. Claimed'
  <2>1. \A t \in Threads : ThreadApart(th[t], a)
    <3> SUFFICES ASSUME NEW t \in Threads PROVE ThreadApart(th[t], a)
      OBVIOUS
    <3>1. ThreadPlaced(th[t]) /\ th[t].start \in Nat
      BY ThreadOf
    <3> QED
      BY <1>1, <1>3, <3>1, OsAssumption DEF ThreadPlaced, ThreadApart
  <2>2. \A t \in Threads, b \in allocs : ThreadApart(th[t], b)
    BY DEF OsInv, Claimed
  <2>3. \A t \in Threads, b \in allocs' : ThreadApart(th'[t], b)
    BY <1>10, <2>1, <2>2
  <2> QED
    BY <2>3 DEF Claimed, ThreadApart
<1>12. OwnedByUs'
  <2> SUFFICES ASSUME NEW q \in Addresses
               PROVE  owner'[q] = "palloc" <=> (\E b \in allocs' : Has(b, q)) \/ (\E t \in Threads : Claims(t, q)')
    BY DEF OwnedByUs, Has
  <2>1. owner[q] = "palloc" <=> (\E b \in allocs : Has(b, q)) \/ (\E t \in Threads : Claims(t, q))
    BY DEF OsInv, OwnedByUs
  <2>2. Has(a, q) <=> q \in S
    BY DEF Has
  <2>3. owner'[q] = "palloc" <=> q \in S \/ owner[q] = "palloc"
    OBVIOUS
  <2> QED
    BY <1>10, <2>1, <2>2, <2>3
<1>13. WantedAccessible'
  BY DEF OsInv, WantedAccessible
<1>14. Counted'
  <2>1. IsFiniteSet(S) /\ Cardinality(S) = a.size
    BY <1>1, SpanFinite
  <2>2. Ours' = Ours \cup S /\ Ours \cap S = {}
    BY <1>2, <1>4 DEF Ours
  <2>3. Counted
    BY DEF OsInv
  <2> HIDE DEF S
  <2> QED
    BY <1>4, <2>1, <2>2, <2>3, OursFinite, CountUp
<1>15. StraysHuge' /\ ClaimsAccessible'
  BY <1>10 DEF OsInv, StraysHuge, ClaimsAccessible
<1> QED
  BY <1>5, <1>9, <1>10, <1>11, <1>12, <1>13, <1>14, <1>15 DEF OsInv

\* A step of a thread that claims nothing.
LEMMA ThreadStep ==
  ASSUME OsInv, UNCHANGED <<owner, access, allocs, reserved, uncounted, huge_start, strays>>,
         th' \in [Threads -> ThreadState],
         \A t \in Threads : \/ th'[t] = th[t]
                            \/ th[t].pc # "huge" /\ th'[t].pc # "huge" /\ ThreadPlaced(th'[t])
  PROVE  OsInv'
<1>1. /\ ThreadsPlaced'
      /\ \A t \in Threads, q \in Addresses : Claims(t, q)' <=> Claims(t, q)
      /\ \A t \in Threads : \A b : ThreadApart(th[t], b) => ThreadApart(th'[t], b)
  BY ThreadsElsewhere
<1>2. OsTypeOK'
  BY DEF OsInv, OsTypeOK
<1>3. AllocsPlaced'
  BY DEF OsInv, AllocsPlaced, Placed, Apart
<1>4. Claimed'
  <2>1. \A t \in Threads, b \in allocs : ThreadApart(th'[t], b)
    BY <1>1 DEF OsInv, Claimed
  <2> QED
    BY <2>1 DEF Claimed, ThreadApart
<1>5. OwnedByUs'
  BY <1>1 DEF OsInv, OwnedByUs, Has
<1>6. WantedAccessible' /\ ClaimsAccessible' /\ StraysHuge'
  BY <1>1 DEF OsInv, WantedAccessible, ClaimsAccessible, StraysHuge
<1>7. Counted'
  BY DEF OsInv, Counted, Ours
<1> QED
  BY <1>1, <1>2, <1>3, <1>4, <1>5, <1>6, <1>7 DEF OsInv

LEMMA FreeAllocation ==
  ASSUME OsInv, NEW a \in allocs, Munmap(Span(a.base, a.size)),
         allocs' = allocs \ {a}, UNCHANGED <<huge_start, th>>
  PROVE  OsInv'
<1> DEFINE S == Span(a.base, a.size)
<1>1. /\ a \in Allocation /\ Placed(a) /\ a.base \in Nat /\ a.size \in Nat /\ S \subseteq Addresses
      /\ a.kind \in {"os", "huge"}
  BY AllocOf
<1>2. /\ owner \in [Addresses -> {"free", "palloc", "other"}] /\ reserved \in Int /\ uncounted \in Nat
      /\ access \subseteq Addresses /\ allocs \subseteq Allocation /\ strays \subseteq Addresses
      /\ huge_start \in Nat /\ (huge_start = 0 \/ huge_start \in HUGEAREA .. PAGES)
      /\ th \in [Threads -> ThreadState]
  BY DEF OsInv, OsTypeOK
<1>3. /\ IsFiniteSet(S) /\ Cardinality(S) = a.size /\ Cardinality(S) \in Nat
      /\ Cardinality({q \in S : owner[q] # "palloc"}) \in Nat
  <2>1. IsFiniteSet(S) /\ Cardinality(S) = a.size
    BY <1>1, SpanFinite
  <2>2. IsFiniteSet({q \in S : owner[q] # "palloc"})
    BY <2>1, FS_Subset
  <2> QED
    BY <2>1, <2>2, FS_CardinalityType
<1>4. /\ owner' = [q \in Addresses |-> IF q \in S THEN "free" ELSE owner[q]]
      /\ access' = access \ S
      /\ reserved' = reserved - Cardinality(S)
      /\ uncounted' = uncounted + Cardinality({q \in S : owner[q] # "palloc"})
      /\ strays' = strays \cup {q \in S : owner[q] = "other"}
  BY DEF Munmap
<1> HIDE DEF S
<1>5. OsTypeOK'
  BY <1>1, <1>2, <1>3, <1>4 DEF OsTypeOK
<1>6. AllocsPlaced'
  BY DEF OsInv, AllocsPlaced, Placed, Apart
<1>7. ThreadsPlaced'
  BY DEF OsInv, ThreadsPlaced, ThreadPlaced, ThreadsApart, FirstHuge
<1>8. Claimed'
  BY DEF OsInv, Claimed, ThreadApart
<1>9. OwnedByUs'
  <2> SUFFICES ASSUME NEW q \in Addresses
               PROVE  owner'[q] = "palloc" <=> (\E b \in allocs' : Has(b, q)) \/ (\E t \in Threads : Claims(t, q)')
    BY DEF OwnedByUs, Has
  <2>0. \A t \in Threads : Claims(t, q)' <=> Claims(t, q)
    BY DEF Claims
  <2>1. owner[q] = "palloc" <=> (\E b \in allocs : Has(b, q)) \/ (\E t \in Threads : Claims(t, q))
    BY DEF OsInv, OwnedByUs
  <2>2. CASE q \in S
    <3>1. \A b \in allocs : b # a => ~Has(b, q)
      BY <2>2, OneHolder DEF S, Has
    <3>2. \A t \in Threads : ~Claims(t, q)
      BY <2>2, OneHolder DEF S
    <3> QED
      BY <1>4, <2>0, <2>2, <3>1, <3>2
  <2>3. CASE q \notin S
    <3>1. ~Has(a, q)
      BY <2>3 DEF Has, S
    <3> QED
      BY <1>4, <2>0, <2>1, <2>3, <3>1
  <2> QED
    BY <2>2, <2>3
<1>10. WantedAccessible'
  <2> SUFFICES ASSUME NEW b \in allocs, b # a, NEW h \in b.wanted PROVE h \div 2 \in access \ S
    BY <1>4 DEF WantedAccessible
  <2>1. h \div 2 \in access
    BY DEF OsInv, WantedAccessible
  <2>2. h \div 2 \in Span(b.base, b.size)
    BY AllocOf DEF Placed
  <2> QED
    BY <2>1, <2>2, OneHolder DEF S
<1>11. Counted'
  <2>1. Ours' = Ours \ S
    BY <1>2, <1>4 DEF Ours
  <2>2. Counted
    BY DEF OsInv
  <2>3. huge_start # 0 \/ S \subseteq Ours
    <3>1. CASE a.kind = "os"
      <4>1. \A q \in S : q \in Addresses /\ Has(a, q)
        BY <1>1, <3>1 DEF Has, S
      <4> QED
        BY <4>1 DEF OsInv, OwnedByUs, Ours
    <3>2. CASE a.kind = "huge"
      BY <1>1, <1>2, <3>2, OsAssumption DEF Placed
    <3> QED
      BY <1>1, <3>1, <3>2
  <2>4. S \subseteq Addresses
    BY <1>1 DEF S
  <2> QED
    BY <1>2, <1>3, <1>4, <2>1, <2>2, <2>3, <2>4, OursFinite, CountDown
<1>12. StraysHuge'
  <2> SUFFICES ASSUME NEW q \in S, owner[q] = "other" PROVE q >= HUGEAREA
    BY <1>4 DEF OsInv, StraysHuge
  <2>1. q \in Addresses /\ a.kind # "os"
    <3>1. CASE a.kind = "os"
      BY <1>1, <3>1 DEF OsInv, OwnedByUs, Has, S
    <3> QED
      BY <1>1, <3>1
  <2> QED
    BY <1>1, <2>1, AddressesInt, OsAssumption DEF Placed, S, Span
<1>13. ClaimsAccessible'
  <2> SUFFICES ASSUME NEW t \in Threads, NEW q \in Addresses, Claims(t, q) PROVE q \in access \ S
    BY <1>4 DEF ClaimsAccessible, Claims
  <2>1. q \in access
    BY DEF OsInv, ClaimsAccessible
  <2> QED
    BY <2>1, OneHolder DEF S
<1> QED
  BY <1>5, <1>6, <1>7, <1>8, <1>9, <1>10, <1>11, <1>12, <1>13 DEF OsInv

\* A commit, decommit or protection of a part of an allocation changes what its
\* caller may use, and the access to its own pages only.
LEMMA WantOfAllocation ==
  ASSUME OsInv, NEW a \in allocs, a.kind = "os", NEW w \in HalfPages,
         \A h \in w : h \div 2 \in Span(a.base, a.size) /\ h \div 2 \in access',
         access' \subseteq Addresses,
         \A q \in access \ Span(a.base, a.size) : q \in access',
         Want(a, w), UNCHANGED <<owner, reserved, uncounted, huge_start, strays, th>>
  PROVE  OsInv'
<1> DEFINE c == [a EXCEPT !.wanted = w]
<1>1. /\ a \in Allocation /\ Placed(a) /\ a.base \in Nat /\ a.size \in Nat
  BY AllocOf
<1>2. /\ c.p = a.p /\ c.base = a.base /\ c.size = a.size /\ c.kind = "os" /\ c.wanted = w
      /\ c \in Allocation
  BY <1>1 DEF Allocation
<1>3. allocs' = (allocs \ {a}) \cup {c}
  BY DEF Want
<1> HIDE DEF c
<1>4. OsTypeOK'
  BY <1>2, <1>3 DEF OsInv, OsTypeOK
<1>5. AllocsPlaced'
  <2>1. Placed(c)'
    BY <1>1, <1>2 DEF Placed
  <2>2. \A b \in allocs : Placed(b)'
    BY DEF OsInv, AllocsPlaced, Placed
  <2>3. \A b, d \in allocs : b # d => Apart(b, d)
    BY DEF OsInv, AllocsPlaced
  <2>4. \A b \in allocs : b # a => Apart(b, c) /\ Apart(c, b)
    BY <1>2, <2>3 DEF Apart
  <2> QED
    BY <1>3, <2>1, <2>2, <2>3, <2>4 DEF AllocsPlaced, Apart
<1>6. ThreadsPlaced'
  BY DEF OsInv, ThreadsPlaced, ThreadPlaced, ThreadsApart, FirstHuge
<1>7. Claimed'
  BY <1>2, <1>3 DEF OsInv, Claimed, ThreadApart
<1>8. OwnedByUs'
  <2>1. \A q \in Addresses : Has(c, q) <=> Has(a, q)
    BY <1>2 DEF Has
  <2>2. \A q \in Addresses : (\E b \in allocs' : Has(b, q)) <=> (\E b \in allocs : Has(b, q))
    BY <1>3, <2>1
  <2> QED
    BY <2>2 DEF OsInv, OwnedByUs, Has, Claims
<1>9. WantedAccessible'
  <2>1. ASSUME NEW b \in allocs, b # a, NEW h \in b.wanted PROVE h \div 2 \in access'
    <3>1. h \div 2 \in access
      BY DEF OsInv, WantedAccessible
    <3>2. h \div 2 \in Span(b.base, b.size)
      BY AllocOf DEF Placed
    <3> QED
      BY <2>1, <3>1, <3>2, OneHolder
  <2> QED
    BY <1>2, <1>3, <2>1 DEF WantedAccessible
<1>10. Counted' /\ StraysHuge'
  BY DEF OsInv, Counted, Ours, StraysHuge
<1>11. ClaimsAccessible'
  <2> SUFFICES ASSUME NEW t \in Threads, NEW q \in Addresses, Claims(t, q) PROVE q \in access'
    BY DEF ClaimsAccessible, Claims
  <2>1. q \in access
    BY DEF OsInv, ClaimsAccessible
  <2> QED
    BY <2>1, OneHolder
<1> QED
  BY <1>4, <1>5, <1>6, <1>7, <1>8, <1>9, <1>10, <1>11 DEF OsInv

-----------------------------------------------------------------------------
(* One step per operation.                                                  *)

LEMMA IdleState ==
  /\ Idle \in ThreadState /\ Idle.pc = "idle" /\ ThreadPlaced(Idle)
  BY DEF Idle, ThreadState, ThreadPlaced

LEMMA ToIdle ==
  ASSUME OsInv, NEW t \in Threads, th[t].pc # "huge", th' = [th EXCEPT ![t] = Idle]
  PROVE  /\ th' \in [Threads -> ThreadState]
         /\ \A u \in Threads : \/ th'[u] = th[u]
                               \/ th[u].pc # "huge" /\ th'[u].pc # "huge" /\ ThreadPlaced(th'[u])
<1>1. th \in [Threads -> ThreadState]
  BY DEF OsInv, OsTypeOK
<1> QED
  BY <1>1, IdleState

LEMMA SameThreads ==
  ASSUME OsInv, UNCHANGED th
  PROVE  /\ th' \in [Threads -> ThreadState]
         /\ \A u \in Threads : \/ th'[u] = th[u]
                               \/ th[u].pc # "huge" /\ th'[u].pc # "huge" /\ ThreadPlaced(th'[u])
  BY DEF OsInv, OsTypeOK

LEMMA GoodAllocSizeIs ==
  ASSUME NEW size \in Sizes
  PROVE  GoodAllocSize(size) \in Nat \ {0}
<1>1. size \in Nat \ {0}
  BY OsAssumption
<1> QED
  BY <1>1 DEF GoodAllocSize

LEMMA OsAllocInv ==
  ASSUME OsInv, NEW t \in Threads, NEW size \in Sizes, OsAlloc(t, size)
  PROVE  OsInv'
<1> DEFINE n == GoodAllocSize(size)
<1>1. n \in Nat \ {0}
  BY GoodAllocSizeIs
<1>2. PICK p \in Addresses :
        /\ FreeRange(p, n)
        /\ Mmap(Span(p, n), TRUE)
        /\ allocs' = allocs \cup {NewAlloc(p, p, n, "os", Halves(Span(p, n)))}
  BY DEF OsAlloc
<1> HIDE DEF n
<1> DEFINE a == NewAlloc(p, p, n, "os", Halves(Span(p, n)))
<1>3. p \in Nat /\ Span(p, n) \subseteq Addresses /\ Span(p, n) \in SUBSET Int
  BY <1>2, AddressesInt DEF FreeRange
<1>4. Halves(Span(p, n)) \in HalfPages
  BY <1>3 DEF HalfPages, Halves
<1>5. /\ a.p = p /\ a.base = p /\ a.size = n /\ a.kind = "os" /\ a.wanted = Halves(Span(p, n))
      /\ a \in Allocation
  BY <1>1, <1>3, <1>4 DEF NewAlloc, Allocation
<1>6. \A h \in a.wanted : h \div 2 \in Span(p, n)
  BY <1>3, <1>5, HalvesIn
<1>7. Cardinality(Span(p, n)) = n
  BY <1>1, <1>3, SpanFinite
<1>8. access \subseteq Addresses
  BY DEF OsInv, OsTypeOK
<1>9. /\ owner' = [q \in Addresses |-> IF q \in Span(p, n) THEN "palloc" ELSE owner[q]]
      /\ access' = access \cup Span(p, n)
      /\ reserved' = reserved + n /\ uncounted' = uncounted
  BY <1>2, <1>7 DEF Mmap
<1>10. UNCHANGED <<uncounted, huge_start, strays, th>>
  BY <1>9 DEF OsAlloc
<1>11. allocs' = allocs \cup {a}
  BY <1>2
<1> HIDE DEF a
<1>12. /\ a.base <= a.p /\ a.p < a.base + a.size /\ FreeRange(a.base, a.size)
       /\ \A h \in a.wanted : h \div 2 \in Span(a.base, a.size) /\ h \div 2 \in access'
       /\ access \subseteq access' /\ access' \subseteq Addresses
  <2>1. a.base <= a.p /\ a.p < a.base + a.size
    BY <1>1, <1>3, <1>5
  <2>2. FreeRange(a.base, a.size)
    BY <1>2, <1>5, Zenon
  <2>3. access \subseteq access' /\ access' \subseteq Addresses
    BY <1>3, <1>8, <1>9
  <2>4. \A h \in a.wanted : h \div 2 \in Span(a.base, a.size) /\ h \div 2 \in access'
    BY <1>5, <1>6, <1>9
  <2> QED
    BY <2>1, <2>2, <2>3, <2>4
<1>13. /\ owner' = [q \in Addresses |-> IF q \in Span(a.base, a.size) THEN "palloc" ELSE owner[q]]
       /\ reserved' = reserved + a.size
  BY <1>5, <1>9
<1> QED
  BY <1>5, <1>10, <1>11, <1>12, <1>13, SameThreads, AddAllocation

\* The first pages of an allocation at an offset are not used.
LEMMA AtOffsetInv ==
  ASSUME OsInv, NEW start \in Nat, NEW n \in Nat, NEW commit \in BOOLEAN, NEW offset \in Nat,
         n > AlignUp(offset) - offset, FreeRange(start, n), AtOffset(start, n, commit, offset),
         UNCHANGED <<huge_start, strays>>,
         th' \in [Threads -> ThreadState],
         \A t \in Threads : \/ th'[t] = th[t]
                            \/ th[t].pc # "huge" /\ th'[t].pc # "huge" /\ ThreadPlaced(th'[t])
  PROVE  OsInv'
<1> DEFINE extra == AlignUp(offset) - offset
           p == start + extra
           drop == IF commit /\ extra > 1 THEN Span(start, extra) ELSE {}
           w == IF commit THEN Halves(Span(p, n - extra)) ELSE {}
           a == NewAlloc(p, start, n, "os", w)
<1>1. extra \in Nat /\ n - extra \in Nat /\ p \in Nat /\ start <= p /\ p < start + n
  BY AlignUpBounds
<1>2. /\ owner' = [q \in Addresses |-> IF q \in Span(start, n) THEN "palloc" ELSE owner[q]]
      /\ access' = IF ~commit THEN access
                   ELSE access \cup (IF Recommit THEN Span(start, n) \ drop ELSE Span(start, n))
      /\ reserved' = reserved + n /\ uncounted' = uncounted
      /\ allocs' = allocs \cup {a}
  BY DEF AtOffset
<1> HIDE DEF extra
<1>3. Span(start, n) \subseteq Addresses /\ Span(start, n) \in SUBSET Int
  BY AddressesInt DEF FreeRange
<1>4. Span(p, n - extra) \subseteq Span(start, n) \ drop
  BY <1>1 DEF Span
<1>5. Span(p, n - extra) \in SUBSET Int
  BY <1>3, <1>4
<1>6. w \in HalfPages /\ \A h \in w : commit /\ h \div 2 \in Span(p, n - extra)
  <2>1. CASE commit
    <3>1. \A h \in w : h \div 2 \in Span(p, n - extra)
      BY <1>5, <2>1, HalvesIn
    <3>2. w \in HalfPages
      BY <1>3, <1>4, <2>1 DEF HalfPages, Halves
    <3> QED
      BY <2>1, <3>1, <3>2
  <2>2. CASE ~commit
    BY <2>2 DEF HalfPages
  <2> QED
    BY <2>1, <2>2
<1> HIDE DEF w, p, drop
<1>7. /\ a.p = p /\ a.base = start /\ a.size = n /\ a.kind = "os" /\ a.wanted = w
      /\ a \in Allocation
  BY <1>1, <1>6 DEF NewAlloc, Allocation
<1>8. access \subseteq Addresses /\ access \subseteq access' /\ access' \subseteq Addresses
  BY <1>2, <1>3 DEF OsInv, OsTypeOK
<1>9. \A h \in w : h \div 2 \in Span(start, n) /\ h \div 2 \in access'
  BY <1>2, <1>4, <1>6
<1> HIDE DEF a
<1> QED
  BY <1>1, <1>2, <1>7, <1>8, <1>9, AddAllocation

LEMMA OversizeIs ==
  ASSUME NEW size \in Sizes, NEW offset \in 0 .. ALIGN
  PROVE  /\ offset \in Nat /\ Oversize(size, offset) \in Nat
         /\ Oversize(size, offset) > AlignUp(offset) - offset
<1>1. offset \in Nat
  BY OsAssumption
<1> QED
  BY <1>1, AlignUpBounds, GoodAllocSizeIs DEF Oversize

LEMMA OsAllocAlignedInv ==
  ASSUME OsInv, NEW t \in Threads, NEW size \in Sizes, NEW commit \in BOOLEAN,
         NEW offset \in 0 .. ALIGN, OsAllocAligned(t, size, commit, offset)
  PROVE  OsInv'
<1>1. PICK start \in Addresses : /\ FreeRange(start, Oversize(size, offset))
                                 /\ AtOffset(start, Oversize(size, offset), commit, offset)
  BY DEF OsAllocAligned
<1>2. UNCHANGED <<huge_start, strays, th>>
  BY DEF OsAllocAligned
<1>3. start \in Nat
  BY AddressesInt
<1> QED
  BY <1>1, <1>2, <1>3, OversizeIs, SameThreads, AtOffsetInv

LEMMA OsAllocUnalignedInv ==
  ASSUME OsInv, NEW t \in Threads, NEW size \in Sizes, NEW commit \in BOOLEAN,
         NEW offset \in 0 .. ALIGN, OsAllocUnaligned(t, size, commit, offset)
  PROVE  OsInv'
<1> DEFINE n == Oversize(size, offset)
           r == [Idle EXCEPT !.pc = "over", !.size = n, !.commit = commit, !.offset = offset]
<1>1. offset \in Nat /\ n \in Nat /\ n > AlignUp(offset) - offset
  BY OversizeIs
<1>2. /\ th[t].pc = "idle" /\ th' = [th EXCEPT ![t] = r]
      /\ UNCHANGED <<owner, access, allocs, reserved, uncounted, huge_start, strays>>
  BY DEF OsAllocUnaligned
<1> HIDE DEF n
<1>3. r \in ThreadState /\ r.pc = "over" /\ r.size = n /\ r.offset = offset
  BY <1>1 DEF Idle, ThreadState
<1> HIDE DEF r
<1>4. ThreadPlaced(r)
  BY <1>1, <1>3 DEF ThreadPlaced
<1>5. th \in [Threads -> ThreadState]
  BY DEF OsInv, OsTypeOK
<1>6. /\ th' \in [Threads -> ThreadState]
      /\ \A u \in Threads : \/ th'[u] = th[u]
                            \/ th[u].pc # "huge" /\ th'[u].pc # "huge" /\ ThreadPlaced(th'[u])
  BY <1>2, <1>3, <1>4, <1>5
<1> QED
  BY <1>2, <1>6, ThreadStep

LEMMA OsAllocOverInv ==
  ASSUME OsInv, NEW t \in Threads, OsAllocOver(t)
  PROVE  OsInv'
<1> DEFINE r == th[t]
<1>1. PICK p \in Addresses : /\ FreeRange(p, r.size + ALIGN)
                             /\ AtOffset(AlignUp(p), r.size, r.commit, r.offset)
  BY DEF OsAllocOver
<1>2. r.pc = "over" /\ th' = [th EXCEPT ![t] = Idle] /\ UNCHANGED <<huge_start, strays>>
  BY DEF OsAllocOver
<1>3. r.size \in Nat /\ r.commit \in BOOLEAN /\ r.offset \in Nat /\ r.size > AlignUp(r.offset) - r.offset
  BY <1>2, ThreadOf DEF ThreadPlaced
<1>4. p \in Nat /\ AlignUp(p) \in Nat /\ p <= AlignUp(p) /\ AlignUp(p) < p + ALIGN
  BY AddressesInt, AlignUpBounds
<1>5. Span(AlignUp(p), r.size) \subseteq Span(p, r.size + ALIGN)
  BY <1>3, <1>4, OsAssumption DEF Span
<1>6. FreeRange(AlignUp(p), r.size)
  BY <1>1, <1>5 DEF FreeRange
<1>7. /\ th' \in [Threads -> ThreadState]
      /\ \A u \in Threads : \/ th'[u] = th[u]
                            \/ th[u].pc # "huge" /\ th'[u].pc # "huge" /\ ThreadPlaced(th'[u])
  BY <1>2, ToIdle
<1> HIDE DEF r
<1> QED
  BY <1>1, <1>2, <1>3, <1>4, <1>6, <1>7, AtOffsetInv

LEMMA OsAllocFailsInv ==
  ASSUME OsInv, NEW t \in Threads, OsAllocFails(t)
  PROVE  OsInv'
<1>1. /\ th[t].pc = "over" /\ th' = [th EXCEPT ![t] = Idle]
      /\ UNCHANGED <<owner, access, allocs, reserved, uncounted, huge_start, strays>>
  BY DEF OsAllocFails
<1> QED
  BY <1>1, ToIdle, ThreadStep

LEMMA FreeInv ==
  ASSUME OsInv, NEW a \in allocs, OsFree(a) \/ FreeHugeOsPages(a)
  PROVE  OsInv'
<1>1. Munmap(Span(a.base, a.size)) /\ allocs' = allocs \ {a} /\ UNCHANGED <<huge_start, th>>
  BY DEF OsFree, FreeHugeOsPages
<1> QED
  BY <1>1, FreeAllocation

\* An area in an allocation covers pages of the allocation only.
LEMMA AreaPages ==
  ASSUME OsInv, NEW a \in allocs, a.kind = "os", NEW e \in Areas(a)
  PROVE  /\ e[1] \in Nat /\ e[2] \in Nat
         /\ Liberal(e[1], e[2]) \subseteq Span(a.base, a.size)
         /\ Conservative(e[1], e[2]) \subseteq Liberal(e[1], e[2])
         /\ Liberal(e[1], e[2]) \subseteq Addresses
         /\ Span(e[1], e[2]) \in HalfPages
         /\ \A h \in Span(e[1], e[2]) : h \div 2 \in Liberal(e[1], e[2])
         /\ \A h \in HalfPages : h \ Span(e[1], e[2]) \in HalfPages /\ h \cup Span(e[1], e[2]) \in HalfPages
         /\ \A h \in Int : h \div 2 \in Conservative(e[1], e[2]) => h \in Span(e[1], e[2])
<1> DEFINE x == e[1]
           n == e[2]
<1>1. /\ a.p \in Nat /\ a.base \in Nat /\ a.size \in Nat /\ a.base <= a.p /\ a.base + a.size <= PAGES
      /\ Span(a.base, a.size) \subseteq Addresses
  BY AllocOf DEF Placed
<1>2. /\ x \in Halves(Addresses) /\ n \in AreaSizes
      /\ 2 * a.p <= x /\ x + n <= 2 * (a.base + a.size)
  BY DEF Areas
<1>3. x \in Nat /\ n \in Nat
  BY <1>2, OsAssumption DEF Halves, Addresses
<1> HIDE DEF x, n
<1>4. \A q \in Addresses : q \in Int
  BY AddressesInt
<1>5. Liberal(x, n) \subseteq Span(a.base, a.size)
  BY <1>1, <1>2, <1>3, <1>4 DEF Liberal, Span
<1>6. Conservative(x, n) \subseteq Liberal(x, n)
  BY <1>3, <1>4 DEF Liberal, Conservative
<1>7. Liberal(x, n) \subseteq Addresses
  BY DEF Liberal
<1>8. ASSUME NEW h \in Span(x, n) PROVE h \in Int /\ h \div 2 \in Liberal(x, n)
  <2>1. h \in Int /\ x <= h /\ h < x + n
    BY <1>3, <1>8 DEF Span
  <2>2. h \div 2 \in Int /\ 2 * (h \div 2) <= h /\ h < 2 * (h \div 2) + 2
    BY <2>1
  <2>3. a.base <= h \div 2 /\ h \div 2 < a.base + a.size
    BY <1>1, <1>2, <1>3, <2>1, <2>2
  <2>4. h \div 2 \in Addresses
    BY <1>1, <2>2, <2>3 DEF Span
  <2> QED
    BY <1>3, <2>1, <2>2, <2>4 DEF Liberal
<1>9. Span(x, n) \in HalfPages
  BY <1>7, <1>8, HalvesIn, AddressesInt DEF HalfPages
<1>10. ASSUME NEW h \in Int, h \div 2 \in Conservative(x, n) PROVE h \in Span(x, n)
  <2>1. h \div 2 \in Int /\ 2 * (h \div 2) <= h /\ h < 2 * (h \div 2) + 2
    OBVIOUS
  <2>2. x <= 2 * (h \div 2) /\ 2 * (h \div 2) + 2 <= x + n
    BY <1>10 DEF Conservative
  <2> QED
    BY <1>3, <2>1, <2>2 DEF Span
<1>11. \A h \in HalfPages : h \ Span(x, n) \in HalfPages /\ h \cup Span(x, n) \in HalfPages
  BY <1>9 DEF HalfPages
<1> QED
  BY <1>3, <1>5, <1>6, <1>7, <1>8, <1>9, <1>10, <1>11 DEF x, n

\* What the caller of an allocation may use has access.
LEMMA WantedOf ==
  ASSUME OsInv, NEW a \in allocs
  PROVE  /\ a.wanted \in HalfPages /\ access \subseteq Addresses
         /\ \A h \in a.wanted : /\ h \in Int /\ h \div 2 \in Span(a.base, a.size)
                                /\ h \div 2 \in access
<1>1. \A h \in a.wanted : h \in Int
  BY AllocOf, WantedHalf
<1>2. \A h \in a.wanted : h \div 2 \in Span(a.base, a.size)
  BY AllocOf DEF Placed
<1>3. access \subseteq Addresses /\ \A h \in a.wanted : h \div 2 \in access
  BY DEF OsInv, OsTypeOK, WantedAccessible
<1> QED
  BY <1>1, <1>2, <1>3, AllocOf

LEMMA OsCommitInv ==
  ASSUME OsInv, NEW a \in allocs, a.kind = "os", NEW e \in Areas(a), OsCommit(a, e[1], e[2])
  PROVE  OsInv'
<1> DEFINE w == a.wanted \cup Span(e[1], e[2])
<1>1. /\ access' = access \cup Liberal(e[1], e[2]) /\ Want(a, w)
      /\ UNCHANGED <<owner, reserved, uncounted, huge_start, strays, th>>
  BY DEF OsCommit
<1>2. w \in HalfPages
  BY AreaPages, WantedOf
<1>3. /\ \A h \in w : h \div 2 \in Span(a.base, a.size) /\ h \div 2 \in access'
      /\ access' \subseteq Addresses
      /\ \A q \in access \ Span(a.base, a.size) : q \in access'
  BY <1>1, AreaPages, WantedOf
<1> HIDE DEF w
<1> QED
  BY <1>1, <1>2, <1>3, WantOfAllocation

\* A decommit takes from the caller at least the pages that lose access.
LEMMA TakeAway ==
  ASSUME OsInv, NEW a \in allocs, a.kind = "os", NEW e \in Areas(a),
         access' = access \ Conservative(e[1], e[2]), Want(a, a.wanted \ Span(e[1], e[2])),
         UNCHANGED <<owner, reserved, uncounted, huge_start, strays, th>>
  PROVE  OsInv'
<1> DEFINE w == a.wanted \ Span(e[1], e[2])
<1>2. w \in HalfPages
  BY AreaPages, WantedOf
<1>3. \A h \in w : h \in Int /\ h \div 2 \in Span(a.base, a.size) /\ h \div 2 \in access
                   /\ h \notin Span(e[1], e[2])
  BY WantedOf
<1>4. \A h \in w : h \div 2 \notin Conservative(e[1], e[2])
  BY <1>3, AreaPages
<1>5. /\ access' \subseteq Addresses
      /\ \A q \in access \ Span(a.base, a.size) : q \in access'
  BY AreaPages, WantedOf
<1>6. Want(a, w)
  OBVIOUS
<1> HIDE DEF w
<1> QED
  BY <1>2, <1>3, <1>4, <1>5, <1>6, WantOfAllocation

LEMMA OsDecommitInv ==
  ASSUME OsInv, NEW a \in allocs, a.kind = "os", NEW e \in Areas(a), OsDecommit(a, e[1], e[2])
  PROVE  OsInv'
<1>1. CASE Recommit
  BY <1>1, TakeAway DEF OsDecommit
<1>2. CASE ~Recommit
  <2>1. access' = access /\ Want(a, a.wanted) /\ UNCHANGED <<owner, reserved, uncounted, huge_start, strays, th>>
    BY <1>2 DEF OsDecommit
  <2> QED
    BY <2>1, WantedOf, WantOfAllocation
<1> QED
  BY <1>1, <1>2

LEMMA OsProtectInv ==
  ASSUME OsInv, NEW a \in allocs, a.kind = "os", NEW e \in Areas(a), NEW protect \in BOOLEAN,
         OsProtect(a, e[1], e[2], protect)
  PROVE  OsInv'
<1>1. CASE protect
  BY <1>1, TakeAway DEF OsProtect
<1>2. CASE ~protect
  <2> DEFINE w == a.wanted \cup Span(e[1], e[2])
             C == Conservative(e[1], e[2])
  <2>1. /\ access' = access \cup C /\ Want(a, w) /\ Span(e[1], e[2]) = Halves(C)
        /\ UNCHANGED <<owner, reserved, uncounted, huge_start, strays, th>>
    BY <1>2 DEF OsProtect
  <2>2. C \subseteq Addresses /\ C \subseteq Span(a.base, a.size) /\ C \in SUBSET Int
    BY AreaPages, AddressesInt
  <2>3. \A h \in Halves(C) : h \div 2 \in C
    BY <2>2, HalvesIn
  <2>4. w \in HalfPages
    BY AreaPages, WantedOf
  <2>5. /\ \A h \in w : h \div 2 \in Span(a.base, a.size) /\ h \div 2 \in access'
        /\ access' \subseteq Addresses
        /\ \A q \in access \ Span(a.base, a.size) : q \in access'
    <3> HIDE DEF C
    <3> QED
      BY <2>1, <2>2, <2>3, WantedOf
  <2> HIDE DEF w
  <2> QED
    BY <2>1, <2>4, <2>5, WantOfAllocation
<1> QED
  BY <1>1, <1>2

-----------------------------------------------------------------------------
(* Huge pages.                                                              *)

LEMMA ClaimHugePagesInv ==
  ASSUME OsInv, NEW t \in Threads, NEW pages \in 1 .. PAGES - HUGEAREA, ClaimHugePages(t, pages)
  PROVE  OsInv'
<1> DEFINE r == [Idle EXCEPT !.pc = "cas", !.size = pages, !.start = huge_start]
<1>1. /\ th[t].pc = "idle" /\ th' = [th EXCEPT ![t] = r] /\ FirstHuge(huge_start) + pages <= PAGES
      /\ UNCHANGED <<owner, access, allocs, reserved, uncounted, huge_start, strays>>
  BY DEF ClaimHugePages, FirstHuge
<1>2. pages \in Nat /\ pages > 0 /\ huge_start \in Nat /\ (huge_start = 0 \/ HUGEAREA <= huge_start)
  BY OsAssumption, ThreadOf
<1>3. r \in ThreadState /\ r.pc = "cas" /\ r.size = pages /\ r.start = huge_start /\ r.page = 0
  BY <1>2 DEF Idle, ThreadState
<1> HIDE DEF r
<1>4. ThreadPlaced(r)
  BY <1>1, <1>2, <1>3 DEF ThreadPlaced
<1>5. th \in [Threads -> ThreadState]
  BY DEF OsInv, OsTypeOK
<1>6. /\ th' \in [Threads -> ThreadState]
      /\ \A u \in Threads : \/ th'[u] = th[u]
                            \/ th[u].pc # "huge" /\ th'[u].pc # "huge" /\ ThreadPlaced(th'[u])
  BY <1>1, <1>3, <1>4, <1>5
<1> QED
  BY <1>1, <1>6, ThreadStep

\* The claim fails: another thread moved pa_huge_start.
LEMMA ClaimRetryInv ==
  ASSUME OsInv, NEW t \in Threads, ClaimCas(t), huge_start # th[t].start
  PROVE  OsInv'
<1> DEFINE r == th[t]
           s == IF huge_start + r.size <= PAGES THEN [r EXCEPT !.start = huge_start] ELSE Idle
<1>1. /\ r.pc = "cas" /\ th' = [th EXCEPT ![t] = s]
      /\ UNCHANGED <<owner, access, allocs, reserved, uncounted, huge_start, strays>>
  BY DEF ClaimCas
<1>2. /\ r \in ThreadState /\ ThreadPlaced(r) /\ r.start \in Nat /\ r.size \in Nat /\ huge_start \in Nat
      /\ (huge_start = 0 \/ HUGEAREA <= huge_start)
  BY ThreadOf
<1>3. huge_start >= HUGEAREA
  BY <1>1, <1>2, OsAssumption DEF ThreadPlaced
<1>4. s \in ThreadState /\ s.pc # "huge" /\ ThreadPlaced(s)
  <2>1. CASE huge_start + r.size <= PAGES
    <3> DEFINE c == [r EXCEPT !.start = huge_start]
    <3>1. /\ c \in ThreadState /\ c.pc = "cas" /\ c.size = r.size /\ c.start = huge_start
          /\ c.page = r.page /\ s = c
      BY <1>1, <1>2, <2>1 DEF ThreadState
    <3> HIDE DEF c, s, r
    <3>2. ThreadPlaced(c)
      BY <1>1, <1>2, <1>3, <2>1, <3>1, OsAssumption DEF ThreadPlaced, FirstHuge
    <3> QED
      BY <3>1, <3>2
  <2>2. CASE ~(huge_start + r.size <= PAGES)
    BY <2>2, IdleState
  <2> QED
    BY <2>1, <2>2
<1>5. th \in [Threads -> ThreadState]
  BY DEF OsInv, OsTypeOK
<1> HIDE DEF s
<1>6. /\ th' \in [Threads -> ThreadState]
      /\ \A u \in Threads : \/ th'[u] = th[u]
                            \/ th[u].pc # "huge" /\ th'[u].pc # "huge" /\ ThreadPlaced(th'[u])
  BY <1>1, <1>4, <1>5
<1> QED
  BY <1>1, <1>6, ThreadStep

\* The claim succeeds: what it takes lies beyond what was ever claimed.
LEMMA ClaimedInv ==
  ASSUME OsInv, NEW t \in Threads, ClaimCas(t), huge_start = th[t].start
  PROVE  OsInv'
<1> DEFINE r == th[t]
           start == FirstHuge(r.start)
           s == [r EXCEPT !.pc = "huge", !.start = start]
<1>1. /\ r.pc = "cas" /\ huge_start' = start + r.size
      /\ th' = [th EXCEPT ![t].pc = "huge", ![t].start = start]
      /\ UNCHANGED <<owner, access, allocs, reserved, uncounted, strays>>
  BY DEF ClaimCas, FirstHuge
<1>2. /\ r \in ThreadState /\ ThreadPlaced(r) /\ r.start \in Nat /\ r.size \in Nat /\ r.page \in Nat
      /\ huge_start \in Nat /\ (huge_start = 0 \/ HUGEAREA <= huge_start)
  BY ThreadOf
<1>3. /\ start \in Nat /\ HUGEAREA <= start /\ huge_start <= start /\ start + r.size <= PAGES /\ r.size > 0
  BY <1>1, <1>2, OsAssumption DEF ThreadPlaced, FirstHuge
<1> HIDE DEF start
<1>4. th \in [Threads -> ThreadState]
  BY DEF OsInv, OsTypeOK
<1>5. /\ s \in ThreadState /\ s.pc = "huge" /\ s.start = start /\ s.size = r.size /\ s.page = 0
      /\ th' = [th EXCEPT ![t] = s]
  BY <1>1, <1>2, <1>3, <1>4 DEF ThreadState, ThreadPlaced
<1> HIDE DEF s
<1>6. \A u \in Threads : th'[u] = IF u = t THEN s ELSE th[u]
  BY <1>4, <1>5
<1>7. OsTypeOK'
  <2>1. huge_start' \in Nat /\ huge_start' \in HUGEAREA .. PAGES
    BY <1>1, <1>2, <1>3, OsAssumption
  <2> QED
    BY <1>1, <1>4, <1>5, <2>1 DEF OsInv, OsTypeOK
<1>8. huge_start' \in Nat /\ huge_start <= huge_start' /\ r.size = s.size /\ huge_start' = s.start + s.size
  BY <1>1, <1>2, <1>3, <1>5
<1>9. AllocsPlaced'
  <2>1. ASSUME NEW a \in allocs PROVE Placed(a)'
    <3>1. Placed(a) /\ a.base \in Nat /\ a.size \in Nat
      BY AllocOf
    <3> QED
      BY <1>2, <1>8, <3>1 DEF Placed
  <2> QED
    BY <1>1, <2>1 DEF OsInv, AllocsPlaced, Apart
<1>10. ASSUME NEW u \in Threads, u # t PROVE ThreadPlaced(th[u])' /\ ThreadsApart(s, th[u]) /\ ThreadsApart(th[u], s)
  <2>1. /\ ThreadPlaced(th[u]) /\ th[u].start \in Nat /\ th[u].size \in Nat /\ th[u].page \in Nat
    BY ThreadOf
  <2>2. th'[u] = th[u]
    BY <1>6, <1>10
  <2>3. ThreadPlaced(th[u])'
    BY <1>2, <1>8, <2>1, <2>2, OsAssumption DEF ThreadPlaced, FirstHuge
  <2>4. ThreadsApart(s, th[u]) /\ ThreadsApart(th[u], s)
    BY <1>2, <1>3, <1>5, <2>1 DEF ThreadPlaced, ThreadsApart
  <2> QED
    BY <2>3, <2>4
<1>11. ThreadPlaced(th[t])'
  <2>1. th'[t] = s
    BY <1>6
  <2> QED
    BY <1>2, <1>3, <1>5, <1>8, <2>1, OsAssumption DEF ThreadPlaced
<1>12. ThreadsPlaced'
  <2>1. \A u, v \in Threads : u # v => ThreadsApart(th'[u], th'[v])
    BY <1>6, <1>10 DEF OsInv, ThreadsPlaced
  <2> QED
    BY <1>10, <1>11, <2>1 DEF ThreadsPlaced, ThreadsApart
<1>13. Claimed'
  <2>1. ASSUME NEW a \in allocs PROVE ThreadApart(s, a)
    <3>1. Placed(a) /\ a.base \in Nat /\ a.size \in Nat /\ a.kind \in {"os", "huge"}
      BY AllocOf
    <3> QED
      BY <1>2, <1>3, <1>5, <3>1, OsAssumption DEF Placed, ThreadApart
  <2>2. \A u \in Threads, a \in allocs : ThreadApart(th'[u], a)
    BY <1>6, <2>1 DEF OsInv, Claimed
  <2> QED
    BY <1>1, <2>2 DEF Claimed, ThreadApart
<1>14. \A u \in Threads, q \in Addresses : Claims(u, q)' <=> Claims(u, q)
  <2> SUFFICES ASSUME NEW u \in Threads, NEW q \in Addresses PROVE Claims(u, q)' <=> Claims(u, q)
    OBVIOUS
  <2>1. CASE u = t
    <3>1. ~Claims(u, q)
      BY <1>1, <2>1 DEF Claims
    <3>2. ~Claims(u, q)'
      BY <1>3, <1>5, <1>6, <2>1, AddressesInt DEF Claims, Span
    <3> QED
      BY <3>1, <3>2
  <2>2. CASE u # t
    BY <1>6, <2>2 DEF Claims
  <2> QED
    BY <2>1, <2>2
<1>15. OwnedByUs'
  BY <1>1, <1>14 DEF OsInv, OwnedByUs, Has
<1>16. WantedAccessible' /\ ClaimsAccessible' /\ Counted' /\ StraysHuge'
  <2>1. huge_start' # 0
    BY <1>1, <1>2, <1>3, OsAssumption DEF FirstHuge
  <2> QED
    BY <1>1, <1>14, <2>1 DEF OsInv, WantedAccessible, ClaimsAccessible, Counted, Ours, StraysHuge
<1> QED
  BY <1>7, <1>9, <1>12, <1>13, <1>15, <1>16 DEF OsInv

LEMMA AllocHugeOsPageInv ==
  ASSUME OsInv, NEW t \in Threads, AllocHugeOsPage(t)
  PROVE  OsInv'
<1> DEFINE r == th[t]
           p == r.start + r.page
           s == [r EXCEPT !.page = r.page + 1]
<1>1. /\ r.pc = "huge" /\ r.page < r.size /\ owner[p] = "free" /\ Mmap({p}, TRUE)
      /\ th' = [th EXCEPT ![t].page = r.page + 1]
      /\ UNCHANGED <<allocs, huge_start, strays>>
  BY DEF AllocHugeOsPage
<1>2. /\ r \in ThreadState /\ ThreadPlaced(r) /\ r.start \in Nat /\ r.size \in Nat /\ r.page \in Nat
      /\ huge_start \in Nat /\ huge_start <= PAGES
  BY ThreadOf
<1>3. /\ owner \in [Addresses -> {"free", "palloc", "other"}] /\ th \in [Threads -> ThreadState]
      /\ access \subseteq Addresses /\ reserved \in Int /\ uncounted \in Nat
  BY DEF OsInv, OsTypeOK
<1>4. p \in Addresses /\ p \in Int
  BY <1>1, <1>2, OsAssumption DEF ThreadPlaced, Addresses
<1>5. /\ s \in ThreadState /\ s.pc = "huge" /\ s.start = r.start /\ s.size = r.size /\ s.page = r.page + 1
      /\ th' = [th EXCEPT ![t] = s]
  BY <1>1, <1>2, <1>3 DEF ThreadState
<1>6. IsFiniteSet({p}) /\ Cardinality({p}) = 1
  BY FS_Singleton
<1>7. /\ owner' = [q \in Addresses |-> IF q \in {p} THEN "palloc" ELSE owner[q]]
      /\ access' = access \cup {p} /\ reserved' = reserved + Cardinality({p}) /\ uncounted' = uncounted
  BY <1>1 DEF Mmap
<1> HIDE DEF s
<1>8. \A u \in Threads : th'[u] = IF u = t THEN s ELSE th[u]
  BY <1>3, <1>5
<1>9. OsTypeOK'
  BY <1>1, <1>3, <1>4, <1>5, <1>6, <1>7 DEF OsInv, OsTypeOK
<1>10. AllocsPlaced'
  BY <1>1 DEF OsInv, AllocsPlaced, Placed, Apart
<1>11. ThreadsPlaced'
  <2>1. ThreadPlaced(s)
    BY <1>1, <1>2, <1>5 DEF ThreadPlaced
  <2>2. \A u, v \in Threads : u # v => ThreadsApart(th[u], th[v])
    BY DEF OsInv, ThreadsPlaced
  <2>3. \A u \in Threads : u # t => ThreadsApart(s, th[u]) /\ ThreadsApart(th[u], s)
    BY <1>1, <1>5, <2>2 DEF ThreadsApart
  <2>4. \A u, v \in Threads : u # v => ThreadsApart(th'[u], th'[v])
    BY <1>8, <2>2, <2>3
  <2>5. \A u \in Threads : ThreadPlaced(th'[u])
    BY <1>8, <2>1 DEF OsInv, ThreadsPlaced
  <2> QED
    BY <1>1, <2>4, <2>5 DEF ThreadsPlaced, ThreadsApart, ThreadPlaced, FirstHuge
<1>12. Claimed'
  <2>1. \A a \in allocs : ThreadApart(s, a)
    BY <1>1, <1>5 DEF OsInv, Claimed, ThreadApart
  <2>2. \A u \in Threads, a \in allocs : ThreadApart(th'[u], a)
    BY <1>8, <2>1 DEF OsInv, Claimed
  <2> QED
    BY <1>1, <2>2 DEF Claimed, ThreadApart
<1>13. /\ \A q \in Addresses : (\E u \in Threads : Claims(u, q)') <=> (\E u \in Threads : Claims(u, q)) \/ q = p
       /\ \A q \in Addresses, u \in Threads : Claims(u, q)' => Claims(u, q) \/ q = p
  <2>1. \A u \in Threads, q \in Addresses : u # t => (Claims(u, q)' <=> Claims(u, q))
    BY <1>8 DEF Claims
  <2>2. \A q \in Addresses : Claims(t, q)' <=> Claims(t, q) \/ q = p
    <3>1. \A q \in Int : q \in Span(r.start, r.page + 1) <=> q \in Span(r.start, r.page) \/ q = p
      BY <1>2 DEF Span
    <3>2. \A q : Claims(t, q)' <=> q \in Span(r.start, r.page + 1)
      BY <1>5, <1>8 DEF Claims
    <3>3. \A q : Claims(t, q) <=> q \in Span(r.start, r.page)
      BY <1>1 DEF Claims
    <3> HIDE DEF p, r
    <3> QED
      BY <3>1, <3>2, <3>3, AddressesInt
  <2> QED
    BY <2>1, <2>2
<1>14. OwnedByUs'
  <2>1. \A q \in Addresses : owner'[q] = "palloc" <=> owner[q] = "palloc" \/ q = p
    BY <1>7
  <2>2. \A q \in Addresses : (\E a \in allocs' : Has(a, q)') <=> (\E a \in allocs : Has(a, q))
    BY <1>1 DEF Has
  <2> QED
    BY <1>13, <2>1, <2>2 DEF OsInv, OwnedByUs, Has
<1>15. WantedAccessible' /\ ClaimsAccessible' /\ StraysHuge'
  BY <1>1, <1>7, <1>13 DEF OsInv, WantedAccessible, ClaimsAccessible, StraysHuge
<1>16. Counted'
  <2>1. Ours' = Ours \cup {p} /\ Ours \cap {p} = {}
    BY <1>1, <1>3, <1>4, <1>7 DEF Ours
  <2>2. Counted
    BY DEF OsInv
  <2> HIDE DEF p
  <2> QED
    BY <1>1, <1>3, <1>6, <1>7, <2>1, <2>2, OursFinite, CountUp
<1> QED
  BY <1>9, <1>10, <1>11, <1>12, <1>14, <1>15, <1>16 DEF OsInv

\* The allocation of a thread that is done has the pages that it claimed.
LEMMA AllocHugeDoneInv ==
  ASSUME OsInv, NEW t \in Threads, AllocHugeDone(t) \/ AllocHugeElsewhere(t)
  PROVE  OsInv'
<1> DEFINE r == th[t]
           S == Span(r.start, r.page)
           a == NewAlloc(r.start, r.start, r.size, "huge", Halves(S))
<1>1. /\ r.pc = "huge" /\ th' = [th EXCEPT ![t] = Idle]
      /\ allocs' = IF r.page = 0 THEN allocs ELSE allocs \cup {a}
      /\ UNCHANGED <<owner, access, huge_start, strays>>
      /\ \/ UNCHANGED <<reserved, uncounted>>
         \/ reserved' = reserved - 1 /\ uncounted' = uncounted + 1
  BY DEF AllocHugeDone, AllocHugeElsewhere, HugeMemid
<1>2. /\ r \in ThreadState /\ ThreadPlaced(r) /\ r.start \in Nat /\ r.size \in Nat /\ r.page \in Nat
      /\ huge_start \in Nat /\ huge_start <= PAGES
  BY ThreadOf
<1>3. th \in [Threads -> ThreadState] /\ allocs \subseteq Allocation /\ reserved \in Int /\ uncounted \in Nat
  BY DEF OsInv, OsTypeOK
<1>4. r.page <= r.size /\ r.size > 0 /\ HUGEAREA <= r.start /\ r.start + r.size <= huge_start
  BY <1>1, <1>2 DEF ThreadPlaced
<1>5. S \subseteq Addresses /\ S \in SUBSET Int /\ \A q \in S : q \in Span(r.start, r.size)
  BY <1>2, <1>4, OsAssumption DEF Span, Addresses
<1>6. Halves(S) \in HalfPages /\ \A h : h \in Halves(S) <=> (h \in Int /\ h \div 2 \in S)
  BY <1>5, HalvesIn DEF HalfPages, Halves
<1>7. /\ a.p = r.start /\ a.base = r.start /\ a.size = r.size /\ a.kind = "huge" /\ a.wanted = Halves(S)
      /\ a \in Allocation
  BY <1>2, <1>6 DEF NewAlloc, Allocation
<1> HIDE DEF a
<1>8. \A u \in Threads : th'[u] = IF u = t THEN Idle ELSE th[u]
  BY <1>1, <1>3
<1>9. th' \in [Threads -> ThreadState]
  BY <1>1, <1>3, IdleState
<1>10. OsTypeOK'
  BY <1>1, <1>3, <1>7, <1>9 DEF OsInv, OsTypeOK
<1>11. Placed(a)
  <2>1. \A h \in a.wanted : h \div 2 \in Span(a.base, a.size)
    BY <1>5, <1>6, <1>7
  <2>2. \A h \in a.wanted : 2 * (h \div 2) \in a.wanted
    <3> SUFFICES ASSUME NEW h \in a.wanted PROVE 2 * (h \div 2) \in a.wanted
      OBVIOUS
    <3>1. h \in Int /\ h \div 2 \in S
      BY <1>6, <1>7
    <3>2. 2 * (h \div 2) \in Int /\ (2 * (h \div 2)) \div 2 = h \div 2
      BY <3>1
    <3> QED
      BY <1>6, <1>7, <3>1, <3>2
  <2> QED
    BY <1>2, <1>4, <1>7, <2>1, <2>2 DEF Placed
<1>12. \A b \in allocs : Apart(a, b) /\ Apart(b, a)
  <2>1. \A b \in allocs : ThreadApart(r, b)
    BY DEF OsInv, Claimed
  <2> QED
    BY <1>1, <1>7, <2>1 DEF ThreadApart, Apart
<1>13. AllocsPlaced'
  <2>1. \A b \in allocs : Placed(b)
    BY DEF OsInv, AllocsPlaced
  <2>2. \A b, c \in allocs : b # c => Apart(b, c)
    BY DEF OsInv, AllocsPlaced
  <2>3. \A b \in allocs' : Placed(b)
    BY <1>1, <1>11, <2>1
  <2>4. \A b, c \in allocs' : b # c => Apart(b, c)
    BY <1>1, <1>12, <2>2
  <2> QED
    BY <1>1, <2>3, <2>4 DEF AllocsPlaced, Placed, Apart
<1>14. ThreadsPlaced'
  <2>1. \A u, v \in Threads : u # v => ThreadsApart(th'[u], th'[v])
    BY <1>8, IdleState DEF OsInv, ThreadsPlaced, ThreadsApart
  <2>2. \A u \in Threads : ThreadPlaced(th'[u])
    BY <1>8, IdleState DEF OsInv, ThreadsPlaced
  <2> QED
    BY <1>1, <2>1, <2>2 DEF ThreadsPlaced, ThreadsApart, ThreadPlaced, FirstHuge
<1>15. Claimed'
  <2>1. \A u \in Threads, b \in allocs : ThreadApart(th'[u], b)
    BY <1>8, IdleState DEF OsInv, Claimed, ThreadApart
  <2>2. \A u \in Threads : ThreadApart(th'[u], a)
    <3> SUFFICES ASSUME NEW u \in Threads, u # t PROVE ThreadApart(th[u], a)
      BY <1>8, IdleState DEF ThreadApart
    <3>1. ThreadsApart(th[u], r)
      BY DEF OsInv, ThreadsPlaced
    <3> QED
      BY <1>1, <1>7, <3>1 DEF ThreadsApart, ThreadApart
  <2>3. \A u \in Threads, b \in allocs' : ThreadApart(th'[u], b)
    BY <1>1, <2>1, <2>2
  <2> QED
    BY <2>3 DEF Claimed, ThreadApart
<1>16. OwnedByUs'
  <2> SUFFICES ASSUME NEW q \in Addresses
               PROVE  owner[q] = "palloc" <=> (\E b \in allocs' : Has(b, q)) \/ (\E u \in Threads : Claims(u, q)')
    BY <1>1 DEF OwnedByUs, Has
  <2>1. owner[q] = "palloc" <=> (\E b \in allocs : Has(b, q)) \/ (\E u \in Threads : Claims(u, q))
    BY DEF OsInv, OwnedByUs
  <2>2. \A u \in Threads : Claims(u, q)' <=> u # t /\ Claims(u, q)
    BY <1>8, IdleState DEF Claims
  <2>3. Claims(t, q) <=> q \in S
    BY <1>1 DEF Claims
  <2>4. Has(a, q) <=> q \in S
    <3>1. q \in Int /\ 2 * q \in Int /\ (2 * q) \div 2 = q
      BY AddressesInt
    <3>2. 2 * q \in a.wanted <=> q \in S
      BY <1>6, <1>7, <3>1
    <3> QED
      BY <1>5, <1>7, <3>2 DEF Has
  <2>5. CASE r.page = 0
    <3>1. q \notin S
      BY <1>2, <2>5, AddressesInt DEF Span
    <3> QED
      BY <1>1, <2>1, <2>2, <2>3, <2>5, <3>1
  <2>6. CASE r.page # 0
    BY <1>1, <2>1, <2>2, <2>3, <2>4, <2>6
  <2> QED
    BY <2>5, <2>6
<1>17. WantedAccessible'
  <2> SUFFICES ASSUME NEW h \in a.wanted, r.page # 0 PROVE h \div 2 \in access
    BY <1>1 DEF OsInv, WantedAccessible
  <2>1. h \div 2 \in S
    BY <1>6, <1>7
  <2>2. Claims(t, h \div 2)
    BY <1>1, <2>1 DEF Claims
  <2> QED
    BY <1>5, <2>1, <2>2 DEF OsInv, ClaimsAccessible
<1>18. ClaimsAccessible' /\ Counted' /\ StraysHuge'
  <2>1. \A u \in Threads, q \in Addresses : Claims(u, q)' => Claims(u, q)
    BY <1>8, IdleState DEF Claims
  <2>2. huge_start' # 0 /\ reserved' + uncounted' = reserved + uncounted
    BY <1>1, <1>2, <1>3, <1>4, OsAssumption
  <2> QED
    BY <1>1, <2>1, <2>2 DEF OsInv, ClaimsAccessible, Counted, Ours, StraysHuge
<1> QED
  BY <1>10, <1>13, <1>14, <1>15, <1>16, <1>17, <1>18 DEF OsInv

-----------------------------------------------------------------------------
(* Every step.                                                              *)

\* What the rest of the process does with its own pages.
LEMMA OtherInv ==
  ASSUME OsInv, NEW p \in Addresses, OtherMaps(p) \/ OtherUnmaps(p)
  PROVE  OsInv'
<1>1. /\ owner[p] # "palloc" /\ UNCHANGED <<access, allocs, reserved, uncounted, huge_start, strays, th>>
      /\ owner' = [owner EXCEPT ![p] = "other"] \/ owner' = [owner EXCEPT ![p] = "free"]
  BY DEF OtherMaps, OtherUnmaps
<1>2. owner \in [Addresses -> {"free", "palloc", "other"}]
  BY DEF OsInv, OsTypeOK
<1>3. \A q \in Addresses : owner'[q] = "palloc" <=> owner[q] = "palloc"
  BY <1>1, <1>2
<1>4. OsTypeOK'
  BY <1>1, <1>2 DEF OsInv, OsTypeOK
<1>5. AllocsPlaced' /\ ThreadsPlaced' /\ Claimed'
  BY <1>1 DEF OsInv, AllocsPlaced, Placed, Apart, ThreadsPlaced, ThreadPlaced, ThreadsApart, FirstHuge,
              Claimed, ThreadApart
<1>6. OwnedByUs'
  BY <1>1, <1>3 DEF OsInv, OwnedByUs, Has, Claims
<1>7. Ours' = Ours
  BY <1>3 DEF Ours
<1>8. Counted' /\ WantedAccessible' /\ ClaimsAccessible' /\ StraysHuge'
  BY <1>1, <1>7 DEF OsInv, Counted, WantedAccessible, ClaimsAccessible, Claims, StraysHuge
<1> QED
  BY <1>4, <1>5, <1>6, <1>8 DEF OsInv

LEMMA StutterInv == ASSUME OsInv, UNCHANGED osVars PROVE OsInv'
<1>1. UNCHANGED <<owner, access, allocs, reserved, uncounted, huge_start, strays, th>>
  BY DEF osVars
<1>2. th' \in [Threads -> ThreadState]
  BY <1>1 DEF OsInv, OsTypeOK
<1> QED
  BY <1>1, <1>2, ThreadStep

LEMMA StepInv == OsInv /\ [OsNext]_osVars => OsInv'
<1> SUFFICES ASSUME OsInv, [OsNext]_osVars PROVE OsInv'
  OBVIOUS
<1>1. CASE UNCHANGED osVars
  BY <1>1, StutterInv
<1>2. CASE \E p \in Addresses : OtherMaps(p) \/ OtherUnmaps(p)
  BY <1>2, OtherInv
<1>3. ASSUME NEW t \in Threads, NEW size \in Sizes, OsAlloc(t, size) PROVE OsInv'
  BY <1>3, OsAllocInv
<1>4. ASSUME NEW t \in Threads, NEW size \in Sizes, NEW commit \in BOOLEAN, NEW offset \in 0 .. ALIGN,
             OsAllocAligned(t, size, commit, offset) \/ OsAllocUnaligned(t, size, commit, offset)
      PROVE  OsInv'
  BY <1>4, OsAllocAlignedInv, OsAllocUnalignedInv
<1>5. ASSUME NEW t \in Threads, OsAllocOver(t) \/ OsAllocFails(t) PROVE OsInv'
  BY <1>5, OsAllocOverInv, OsAllocFailsInv
<1>6. ASSUME NEW t \in Threads, NEW pages \in 1 .. PAGES - HUGEAREA, ClaimHugePages(t, pages) PROVE OsInv'
  BY <1>6, ClaimHugePagesInv
<1>7. ASSUME NEW t \in Threads, ClaimCas(t) PROVE OsInv'
  BY <1>7, ClaimRetryInv, ClaimedInv
<1>8. ASSUME NEW t \in Threads, AllocHugeOsPage(t) \/ AllocHugeDone(t) \/ AllocHugeElsewhere(t) PROVE OsInv'
  BY <1>8, AllocHugeOsPageInv, AllocHugeDoneInv
<1>9. ASSUME NEW a \in allocs, OsFree(a) \/ FreeHugeOsPages(a) PROVE OsInv'
  BY <1>9, FreeInv
<1>10. ASSUME NEW a \in allocs, a.kind = "os", NEW e \in Areas(a), OsCommit(a, e[1], e[2]) PROVE OsInv'
  BY <1>10, OsCommitInv
<1>11. ASSUME NEW a \in allocs, a.kind = "os", NEW e \in Areas(a), OsPurge(a, e[1], e[2]) PROVE OsInv'
  BY <1>11, OsDecommitInv, StutterInv DEF OsPurge
<1>12. ASSUME NEW a \in allocs, a.kind = "os", NEW e \in Areas(a), NEW protect \in BOOLEAN,
              OsProtect(a, e[1], e[2], protect)
       PROVE  OsInv'
  BY <1>12, OsProtectInv
<1>13. CASE OsNext
  BY <1>2, <1>3, <1>4, <1>5, <1>6, <1>7, <1>8, <1>9, <1>10, <1>11, <1>12, <1>13 DEF OsNext
<1> QED
  BY <1>1, <1>13

\* What the OS layer relies on, whatever the order of the calls of threads and of the
\* rest of the process: allocations and claims of huge pages lie apart, each in its
\* area, and palloc's pages are theirs (os.c).
THEOREM OsInvariance == OsSpec => []OsInv
<1>1. OsInit => OsInv
  BY InitInv
<1>2. OsInv /\ [OsNext]_osVars => OsInv'
  BY StepInv
<1> QED
  BY <1>1, <1>2, PTL DEF OsSpec

-----------------------------------------------------------------------------
(* The safety properties.                                                   *)

\* Pages that a reservation of huge pages did not get are not its own.
LEMMA ShortIs ==
  ASSUME OsInv, NEW a \in allocs, NEW q \in Span(a.base, a.size)
  PROVE  q \notin Short <=> Has(a, q)
<1>1. q \in Short <=> \E b \in allocs : b.kind = "huge" /\ q \in Span(b.base, b.size) /\ 2 * q \notin b.wanted
  BY DEF Short
<1>2. \A b \in allocs : q \in Span(b.base, b.size) => b = a
  BY OneHolder
<1>3. a.kind \in {"os", "huge"}
  BY AllocOf
<1> QED
  BY <1>1, <1>2, <1>3 DEF Has

LEMMA InvOwn == OsInv => AllocationsOwn
<1> SUFFICES ASSUME OsInv PROVE AllocationsOwn
  OBVIOUS
<1>1. ASSUME NEW a \in allocs, NEW q \in Span(a.base, a.size) \ Short PROVE owner[q] = "palloc"
  <2>1. q \in Addresses /\ Has(a, q)
    BY OneHolder, ShortIs
  <2> QED
    BY <2>1 DEF OsInv, OwnedByUs
<1>2. ASSUME NEW a \in allocs PROVE a.base <= a.p /\ a.p < a.base + a.size
  BY AllocOf DEF Placed
<1>3. ASSUME NEW a \in allocs, NEW b \in allocs, a # b
      PROVE  Span(a.base, a.size) \cap Span(b.base, b.size) = {}
  BY <1>3, OneHolder
<1>4. ASSUME NEW t \in Threads, NEW u \in Threads, t # u, th[t].pc = "huge", th[u].pc = "huge"
      PROVE  Span(th[t].start, th[t].size) \cap Span(th[u].start, th[u].size) = {}
  <2>1. ThreadsApart(th[t], th[u])
    BY <1>4 DEF OsInv, ThreadsPlaced
  <2>2. th[t].start \in Nat /\ th[t].size \in Nat /\ th[u].start \in Nat /\ th[u].size \in Nat
    BY ThreadOf
  <2> QED
    BY <1>4, <2>1, <2>2 DEF ThreadsApart, Span
<1>5. ASSUME NEW t \in Threads, th[t].pc = "huge", NEW a \in allocs
      PROVE  Span(th[t].start, th[t].size) \cap Span(a.base, a.size) = {}
  BY <1>5, OneHolder
<1> QED
  BY <1>1, <1>2, <1>3, <1>4, <1>5 DEF AllocationsOwn

LEMMA InvLeaks == OsInv => NothingLeaks
<1> SUFFICES ASSUME OsInv PROVE NothingLeaks
  OBVIOUS
<1> DEFINE All == UNION {Span(a.base, a.size) : a \in allocs}
           Held == All \ Short
           Taken == UNION {Span(th[t].start, th[t].page) : t \in {u \in Threads : th[u].pc = "huge"}}
<1>1. \A q : q \in Held <=> \E a \in allocs : Has(a, q)
  <2> SUFFICES ASSUME NEW q PROVE q \in Held <=> \E a \in allocs : Has(a, q)
    OBVIOUS
  <2>1. q \in Held <=> (\E a \in allocs : q \in Span(a.base, a.size)) /\ q \notin Short
    <3>1. q \in All <=> \E a \in allocs : q \in Span(a.base, a.size)
      OBVIOUS
    <3> HIDE DEF All
    <3> QED
      BY <3>1
  <2>2. ASSUME NEW a \in allocs, q \in Span(a.base, a.size) PROVE q \notin Short <=> Has(a, q)
    BY <2>2, ShortIs
  <2> HIDE DEF Held
  <2> QED
    BY <2>1, <2>2 DEF Has
<1>2. \A q : q \in Taken <=> \E t \in Threads : Claims(t, q)
  BY DEF Claims
<1>3. \A q : q \in Held => q \in Addresses
  BY <1>1, OneHolder DEF Has
<1>4. \A q : q \in Taken => q \in Addresses
  <2> SUFFICES ASSUME NEW t \in Threads, NEW q, Claims(t, q) PROVE q \in Addresses
    BY <1>2
  <2>1. /\ th[t].start \in Nat /\ th[t].size \in Nat /\ th[t].page \in Nat
        /\ ThreadPlaced(th[t]) /\ huge_start \in Nat /\ huge_start <= PAGES
    BY ThreadOf
  <2> QED
    BY <2>1, OsAssumption DEF Claims, ThreadPlaced, Span, Addresses
<1>5. \A q : q \in Ours <=> q \in Addresses /\ owner[q] = "palloc"
  BY DEF Ours
<1>6. \A q \in Addresses : owner[q] = "palloc" <=> (\E a \in allocs : Has(a, q)) \/ (\E t \in Threads : Claims(t, q))
  BY DEF OsInv, OwnedByUs
<1> HIDE DEF All, Held, Taken
<1>7. Ours = Held \cup Taken
  BY <1>1, <1>2, <1>3, <1>4, <1>5, <1>6
<1>8. strays \subseteq {p \in Addresses : p >= HUGEAREA}
  BY DEF OsInv, OsTypeOK, StraysHuge
<1>9. reserved + uncounted = Cardinality(Ours) /\ (huge_start = 0 => uncounted = 0)
  BY DEF OsInv, Counted
<1>10. {p \in Addresses : owner[p] = "palloc"} = Held \cup Taken
  BY <1>7 DEF Ours
<1>11. reserved + uncounted = Cardinality({p \in Addresses : owner[p] = "palloc"})
  BY <1>9 DEF Ours
<1> QED
  BY <1>8, <1>9, <1>10, <1>11, Zenon DEF NothingLeaks, All, Held, Taken

\* The memory of live allocations is palloc's and never shared, also between threads
\* that claim huge pages at once (_pa_os_alloc_aligned, pa_os_claim_huge_pages).
THEOREM OsAllocationsOwn == OsSpec => []AllocationsOwn
  BY OsInvariance, InvOwn, PTL

\* A commit covers the pages it touches, a decommit spares those it shares with its
\* neighbours: what a caller may use has access (pa_os_page_align_areax).
THEOREM OsWantedAccessible == OsSpec => []WantedAccessible
<1>1. OsInv => WantedAccessible
  BY DEF OsInv
<1> QED
  BY <1>1, OsInvariance, PTL

\* Palloc's pages are those of its allocations and claims, the reserved statistic is
\* their number less what it was lowered for pages it never counted, which takes a
\* reservation of huge pages, and nothing of the rest of the process is unmapped below
\* the area for huge pages (pa_os_prim_alloc_aligned, pa_os_prim_free,
\* _pa_os_alloc_huge_os_pages).
THEOREM OsNothingLeaks == OsSpec => []NothingLeaks
  BY OsInvariance, InvLeaks, PTL

-----------------------------------------------------------------------------
(* The arenas: the inductive invariant.                                     *)

ArenaNodes == Nat \cup {-1}
Plan == [size : Int, exclusive : BOOLEAN, large : BOOLEAN, node : ArenaNodes]
FullPlan == [size : Nat \ {0}, exclusive : BOOLEAN, large : BOOLEAN, node : ArenaNodes]
Memory ==
  [start : Nat, size : Nat \ {0}, exclusive : BOOLEAN, large : BOOLEAN, node : ArenaNodes, os : BOOLEAN]
NoMem == {<< >>}
Mems == NoMem \cup Plan \cup Memory

UserPcs == {"scan", "reserve", "os", "map"} \cup Adding
UserOps == {"alloc", "reserve", "manage", "huge"}
HugeAsked == {[pages |-> p] : p \in HugeRequests}
Asked == AllocRequests \cup Reservations \cup Given \cup HugeAsked
Todos == Seq(FullPlan)
Call ==
  [pc : UserPcs, op : UserOps, request : Asked, max : Nat, i : Nat, match : BOOLEAN, only : BOOLEAN,
   toplow : Nat, mem : Mems, handle : Nat, todo : Todos]

ArenaIds == 0 .. MAX_ARENAS
BlockSets == SUBSET Nat
MadeArena ==
  [start : Nat, size : Nat \ {0}, blocks : Nat, exclusive : BOOLEAN, large : BOOLEAN, node : ArenaNodes,
   os : BOOLEAN, inuse : BlockSets, id : ArenaIds, meta : {"static", "os"}]
ArenaPiece ==
  [kind : {"arena"}, id : Nat \ {0}, block : Nat, req : Nat, large : BOOLEAN, start : Nat, size : Nat \ {0}]
OsPiece == [kind : {"os"}, start : Nat, size : Nat \ {0}]

ArenasTypeOK ==
  /\ arenas \in [TableEntries -> Nat] /\ arena_count \in ArenaIds
  /\ made \in Seq(MadeArena)
  /\ static_top \in Nat /\ static_live \subseteq Nat \X {META}
  /\ mapped \subseteq Nat \X (Nat \ {0})
  /\ alive \subseteq ArenaPiece \cup OsPiece
  /\ user \in [Users -> {UserIdle} \cup Call]
  /\ ended \in BOOLEAN

\* The top of the static area while threads go over it and take that back: it is above
\* every structure, and so is the top each of them goes back to.
Over == META + META_ALIGN - 1
StaticOK ==
  /\ \A x \in static_live : x[1] + x[2] <= STATIC_MAX /\ x[1] + x[2] <= static_top
  /\ \A x, y \in static_live : x # y => Beside(x[1], x[2], y[1], y[2])
  /\ \A t \in Users : user[t].pc = "metaundo" =>
       /\ user[t].toplow + Over > STATIC_MAX /\ user[t].toplow + Over <= static_top
       /\ \A x \in static_live : x[1] + x[2] <= user[t].toplow
  /\ \A t, u \in Users : t # u /\ user[t].pc = "metaundo" /\ user[u].pc = "metaundo" =>
       user[t].toplow + Over <= user[u].toplow \/ user[u].toplow + Over <= user[t].toplow

\* An entry of the table leads to the arena with its id.
Handles == 1 .. Len(made)
TableOK ==
  /\ \A i \in TableEntries : arenas[i] # 0 =>
       i < arena_count /\ arenas[i] \in Handles /\ made[arenas[i]].id = i + 1
  /\ \A h, k \in Handles : made[h].id = made[k].id /\ made[h].id # NONE => h = k
  /\ \A h \in Handles : made[h].id <= arena_count /\ made[h].blocks * BLOCK <= made[h].size

\* What each thread is doing.
CallOK(u) ==
  /\ u.op = "alloc" => u.request \in AllocRequests
  /\ u.pc \in {"scan", "reserve", "os"} => u.op = "alloc"
  /\ u.pc = "scan" => u.i < arena_count /\ (~u.only => u.max <= arena_count)
  /\ u.pc = "map" => u.mem \in Plan /\ u.mem.size >= 1
  /\ u.pc \in Adding => u.mem \in Memory
  /\ u.pc \in {"add", "store"} =>
       /\ u.handle \in Handles
       /\ made[u.handle].start = u.mem.start /\ made[u.handle].size = u.mem.size
       /\ made[u.handle].os = u.mem.os
  /\ u.pc = "add" => made[u.handle].id = NONE
  /\ u.pc = "store" => u.i < arena_count /\ arenas[u.i] = 0 /\ made[u.handle].id = u.i + 1
CallsOK ==
  /\ \A t \in Users : user[t] # UserIdle => CallOK(user[t])
  /\ \A t, u \in Users : t # u /\ user[t].pc \in {"add", "store"} /\ user[u].pc \in {"add", "store"} =>
       user[t].handle # user[u].handle

\* The memory that is held: by an arena of the table, by a call that adds it, by a client
\* that has it from the OS; <<who, which, start, size, from the OS>>.
ArenaSpan(i) == <<"arena", i, made[arenas[i]].start, made[arenas[i]].size, made[arenas[i]].os>>
CallSpan(t) == <<"call", t, user[t].mem.start, user[t].mem.size, user[t].mem.os>>
OsSpan(p) == <<"os", p, p.start, p.size, TRUE>>
Spans ==
  {ArenaSpan(i) : i \in {j \in TableEntries : arenas[j] # 0}}
  \cup {CallSpan(t) : t \in {u \in Users : user[u].pc \in Adding}}
  \cup {OsSpan(p) : p \in {q \in alive : q.kind = "os"}}

\* Nobody holds memory of another; it is mapped, or the aligned part of what the program gave.
GivenSpan(x, g) ==
  x[3] = AlignedPart(g).start /\ g.start <= x[3] /\ x[3] + x[4] <= g.start + g.size
SpansApart == \A x, y \in Spans : x # y => Beside(x[3], x[4], y[3], y[4])
SpansPlaced ==
  \A x \in Spans : IF x[5] THEN <<x[3], x[4]>> \in mapped ELSE \E g \in Given : GivenSpan(x, g)

\* What is mapped is apart, and somebody holds it.
MappedApart ==
  /\ \A m, n \in mapped : m # n => Beside(m[1], m[2], n[1], n[2])
  /\ \A m \in mapped, g \in Given : Beside(m[1], m[2], g.start, g.size)
MappedHeld == \A m \in mapped : \E x \in Spans : x[5] /\ x[3] = m[1] /\ x[4] = m[2]

\* The blocks of clients are in use, each for one of them.
Blocks(p) == p.block .. p.block + (p.size \div BLOCK) - 1
PieceOK(p) ==
  LET h == arenas[p.id - 1]
  IN /\ p.id <= arena_count /\ h # 0
     /\ p.start = BlockStart(made[h], p.block)
     /\ p.size = (p.size \div BLOCK) * BLOCK /\ p.block + (p.size \div BLOCK) <= made[h].blocks
     /\ Blocks(p) \subseteq made[h].inuse
     /\ made[h].exclusive => p.req = p.id
     /\ made[h].large => p.large
PiecesHere == \A p \in alive : p.kind = "arena" => PieceOK(p)
BlocksApart ==
  \A p, q \in alive : p.kind = "arena" /\ q.kind = "arena" /\ p # q /\ p.id = q.id => Blocks(p) \cap Blocks(q) = {}

Working ==
  /\ TableOK /\ CallsOK
  /\ SpansApart /\ SpansPlaced /\ MappedApart /\ MappedHeld
  /\ PiecesHere /\ BlocksApart

AliveApart == \A p, q \in alive : p # q => Beside(p.start, p.size, q.start, q.size)
AllAccounted == \A m \in mapped : Accounted(m)
AllIdle == \A t \in Users : user[t] = UserIdle

ArenasInv ==
  /\ ArenasTypeOK /\ StaticOK
  /\ IF ended THEN AllIdle /\ AliveApart /\ AllAccounted ELSE Working

-----------------------------------------------------------------------------
(* Arithmetic.                                                              *)

LEMMA Product ==
  ASSUME NEW a \in Nat, NEW b \in Nat, NEW d \in Nat
  PROVE  a * d \in Nat /\ (a + b) * d = a * d + b * d /\ (a <= b => a * d <= b * d)
OBVIOUS

\* A multiple of a positive number is divided exactly.
LEMMA ExactQuotient ==
  ASSUME NEW n \in Nat, NEW d \in Nat \ {0}
  PROVE  (n * d) \div d = n
OBVIOUS

LEMMA AlignToBounds ==
  ASSUME NEW n \in Nat, NEW a \in Nat \ {0}
  PROVE  AlignTo(n, a) \in Nat /\ n <= AlignTo(n, a) /\ AlignTo(n, a) <= n + a - 1
<1>1. PICK m : m = n + a - 1 /\ m \in Nat
  OBVIOUS
<1>2. PICK q : q = m \div a
  OBVIOUS
<1>3. /\ q \in Nat /\ m % a \in 0 .. a - 1 /\ m = q * a + (m % a)
  BY <1>1, <1>2, Quotient
<1>4. q * a \in Nat
  BY <1>3
<1>5. AlignTo(n, a) = q * a
  BY <1>1, <1>2 DEF AlignTo
<1>6. PICK r : r = m % a /\ r \in 0 .. a - 1 /\ m = q * a + r
  BY <1>3
<1> QED
  BY <1>1, <1>4, <1>5, <1>6

LEMMA Constants ==
  /\ MAX_ARENAS \in Nat /\ MAX_ARENAS > 0 /\ BLOCK \in Nat /\ BLOCK > 0 /\ SCALE \in Nat /\ SCALE > 0
  /\ META \in Nat /\ META > 0 /\ META_ALIGN \in Nat /\ META_ALIGN > 0 /\ Over \in Nat /\ Over > 0
  /\ STATIC_MAX \in Nat /\ HUGE_PAGE \in Nat /\ HUGE_PAGE > 0 /\ NODES \in Nat /\ NODES > 0 /\ RESERVE \in Nat
<1>1. /\ MAX_ARENAS \in Nat \ {0} /\ BLOCK \in Nat \ {0} /\ SCALE \in Nat \ {0} /\ META \in Nat \ {0}
      /\ META_ALIGN \in Nat \ {0} /\ HUGE_PAGE \in Nat \ {0} /\ NODES \in Nat \ {0}
      /\ STATIC_MAX \in Nat /\ RESERVE \in Nat
  BY ArenasAssumption
<1> QED
  BY <1>1 DEF Over

-----------------------------------------------------------------------------
(* What the parts of the state are.                                         *)

LEMMA CallFields ==
  ASSUME NEW u \in Call
  PROVE  /\ u.pc \in UserPcs /\ u.op \in UserOps /\ u.request \in Asked /\ u.max \in Nat /\ u.i \in Nat
         /\ u.match \in BOOLEAN /\ u.only \in BOOLEAN /\ u.toplow \in Nat /\ u.mem \in Mems /\ u.handle \in Nat
         /\ u.todo \in Todos
  BY DEF Call

Fresh(c, op, request) ==
  /\ c \in Call /\ c.pc = "scan" /\ c.op = op /\ c.request = request /\ c.only = FALSE
  /\ c.mem \in NoMem /\ c.todo \in Todos

LEMMA CallRecordIs ==
  ASSUME NEW op \in UserOps, NEW request \in Asked
  PROVE  Fresh(CallRecord(op, request), op, request)
<1>1. << >> \in Mems /\ << >> \in NoMem /\ << >> \in Todos /\ "scan" \in UserPcs
  BY DEF Mems, NoMem, Todos, UserPcs
<1> QED
  BY <1>1 DEF CallRecord, Call, Fresh

LEMMA UserFacts ==
  ASSUME ArenasTypeOK, NEW t \in Users
  PROVE  /\ user[t] \in {UserIdle} \cup Call
         /\ user[t].pc # "idle" => user[t] \in Call
         /\ user[t] # UserIdle => user[t] \in Call
         /\ user[t] = UserIdle => user[t].pc = "idle"
         /\ user[t] \in Call => user[t].pc \in UserPcs /\ user[t] # UserIdle
<1>1. user[t] \in {UserIdle} \cup Call
  BY DEF ArenasTypeOK
<1>2. UserIdle.pc = "idle"
  BY DEF UserIdle
<1>3. \A c \in Call : c.pc \in UserPcs
  BY CallFields
<1>4. "idle" \notin UserPcs
  BY DEF UserPcs, Adding
<1> QED
  BY <1>1, <1>2, <1>3, <1>4

LEMMA SpanIs ==
  \A x : x \in Spans <=> \/ \E i \in TableEntries : arenas[i] # 0 /\ x = ArenaSpan(i)
                         \/ \E t \in Users : user[t].pc \in Adding /\ x = CallSpan(t)
                         \/ \E p \in alive : p.kind = "os" /\ x = OsSpan(p)
  BY DEF Spans

\* Spans whose parts do not change.
LEMMA SpansSame ==
  ASSUME user \in [Users -> {UserIdle} \cup Call], NEW t \in Users, NEW v, user' = [user EXCEPT ![t] = v],
         v.pc \in Adding <=> user[t].pc \in Adding, v.pc \in Adding => v.mem = user[t].mem,
         UNCHANGED arenas,
         \A i \in TableEntries : arenas[i] # 0 => /\ made'[arenas[i]].start = made[arenas[i]].start
                                                  /\ made'[arenas[i]].size = made[arenas[i]].size
                                                  /\ made'[arenas[i]].os = made[arenas[i]].os,
         \A p : p.kind = "os" => (p \in alive' <=> p \in alive)
  PROVE  Spans' = Spans
<1>1. \A u \in Users : /\ user'[u].pc \in Adding <=> user[u].pc \in Adding
                       /\ user[u].pc \in Adding => user'[u].mem = user[u].mem
  OBVIOUS
<1>2. \A x : x \in Spans' <=> \/ \E i \in TableEntries : arenas[i] # 0 /\ x = ArenaSpan(i)'
                              \/ \E u \in Users : user'[u].pc \in Adding /\ x = CallSpan(u)'
                              \/ \E p \in alive' : p.kind = "os" /\ x = OsSpan(p)
  BY DEF Spans, ArenaSpan, CallSpan, OsSpan
<1>3. \A i \in TableEntries : arenas[i] # 0 => ArenaSpan(i)' = ArenaSpan(i)
  BY DEF ArenaSpan
<1>4. \A u \in Users : user[u].pc \in Adding => CallSpan(u)' = CallSpan(u)
  BY <1>1 DEF CallSpan
<1>5. \A x : x \in Spans' <=> x \in Spans
  BY <1>1, <1>2, <1>3, <1>4, SpanIs
<1> QED
  BY <1>5

-----------------------------------------------------------------------------
(* What a step of one thread leaves of the invariant.                       *)

MemoryOK == SpansApart /\ SpansPlaced /\ MappedApart /\ MappedHeld
BlocksOK == PiecesHere /\ BlocksApart

LEMMA InvIs ==
  ASSUME ~ended
  PROVE  ArenasInv <=> ArenasTypeOK /\ StaticOK /\ TableOK /\ CallsOK /\ MemoryOK /\ BlocksOK
  BY DEF ArenasInv, Working, MemoryOK, BlocksOK

\* Thread t goes to v; the calls of others stay as they were.
UserStep(t, v) ==
  /\ v \in {UserIdle} \cup Call
  /\ user' = [user EXCEPT ![t] = v]

LEMMA UserStepType ==
  ASSUME ArenasTypeOK, NEW t \in Users, NEW v, UserStep(t, v)
  PROVE  /\ user' \in [Users -> {UserIdle} \cup Call]
         /\ user'[t] = v /\ \A u \in Users : u # t => user'[u] = user[u]
  BY DEF ArenasTypeOK, UserStep

LEMMA StaticStays ==
  ASSUME ArenasTypeOK, StaticOK, NEW t \in Users, NEW v, UserStep(t, v), v.pc # "metaundo",
         UNCHANGED <<static_top, static_live>>
  PROVE  StaticOK'
<1>1. \A u \in Users : user'[u].pc = "metaundo" => u # t /\ user'[u] = user[u]
  BY UserStepType
<1>2. \A x \in static_live : x[1] + x[2] <= STATIC_MAX /\ x[1] + x[2] <= static_top
  BY DEF StaticOK
<1>3. \A x, y \in static_live : x # y => Beside(x[1], x[2], y[1], y[2])
  BY DEF StaticOK
<1>4. ASSUME NEW u \in Users, user'[u].pc = "metaundo"
      PROVE  /\ user'[u].toplow + Over > STATIC_MAX /\ user'[u].toplow + Over <= static_top
             /\ \A x \in static_live : x[1] + x[2] <= user'[u].toplow
  BY <1>1, <1>4 DEF StaticOK
<1>5. ASSUME NEW u \in Users, NEW w \in Users, u # w, user'[u].pc = "metaundo", user'[w].pc = "metaundo"
      PROVE  user'[u].toplow + Over <= user'[w].toplow \/ user'[w].toplow + Over <= user'[u].toplow
  BY <1>1, <1>5 DEF StaticOK
<1> QED
  BY <1>2, <1>3, <1>4, <1>5 DEF StaticOK, Beside, Over

LEMMA CallsStay ==
  ASSUME ArenasTypeOK, CallsOK, NEW t \in Users, NEW v, UserStep(t, v),
         v = UserIdle \/ CallOK(v)',
         \A u \in Users, c \in Call : u # t /\ c = user[u] /\ CallOK(c) => CallOK(c)',
         v.pc \in {"add", "store"} =>
           \A u \in Users : u # t /\ user[u].pc \in {"add", "store"} => user[u].handle # v.handle
  PROVE  CallsOK'
<1>1. user'[t] = v /\ \A u \in Users : u # t => user'[u] = user[u]
  BY UserStepType
<1>2. ASSUME NEW u \in Users, user'[u] # UserIdle PROVE CallOK(user[u])'
  <2>1. CASE u = t
    <3>1. user'[u] = v /\ CallOK(v)'
      BY <1>1, <1>2, <2>1
    <3> QED
      BY <3>1 DEF CallOK
  <2>2. CASE u # t
    <3>1. user[u] # UserIdle /\ user[u] \in Call
      BY <1>1, <1>2, <2>2, UserFacts
    <3>2. CallOK(user[u])
      BY <3>1 DEF CallsOK
    <3>3. PICK c \in Call : c = user[u] /\ c = user'[u] /\ CallOK(c)
      BY <1>1, <2>2, <3>1, <3>2
    <3>4. CallOK(c)'
      BY <2>2, <3>3
    <3> QED
      BY <3>3, <3>4 DEF CallOK
  <2> QED
    BY <2>1, <2>2
<1>3. ASSUME NEW u \in Users, NEW w \in Users, u # w,
             user'[u].pc \in {"add", "store"}, user'[w].pc \in {"add", "store"}
      PROVE  user'[u].handle # user'[w].handle
  <2>1. CASE u = t
    BY <1>1, <1>3, <2>1
  <2>2. CASE w = t
    BY <1>1, <1>3, <2>2
  <2>3. CASE u # t /\ w # t
    BY <1>1, <1>3, <2>3 DEF CallsOK
  <2> QED
    BY <2>1, <2>2, <2>3
<1>4. \A u \in Users : user'[u] # UserIdle => CallOK(user[u])'
  BY <1>2
<1>5. \A u, w \in Users : u # w /\ user'[u].pc \in {"add", "store"} /\ user'[w].pc \in {"add", "store"} =>
        user'[u].handle # user'[w].handle
  BY <1>3
<1> QED
  BY <1>4, <1>5 DEF CallsOK, UserIdle

LEMMA MemoryStays ==
  ASSUME MemoryOK, Spans' = Spans, UNCHANGED mapped
  PROVE  MemoryOK'
<1>1. SpansApart'
  BY DEF MemoryOK, SpansApart, Beside
<1>2. SpansPlaced'
  BY DEF MemoryOK, SpansPlaced, GivenSpan, AlignedPart, AlignTo
<1>3. MappedApart'
  BY DEF MemoryOK, MappedApart, Beside
<1>4. MappedHeld'
  BY DEF MemoryOK, MappedHeld
<1> QED
  BY <1>1, <1>2, <1>3, <1>4 DEF MemoryOK

\* The blocks that remain, when nothing of an arena in the table changes that they
\* depend on.
LEMMA BlocksStay ==
  ASSUME ArenasTypeOK, BlocksOK, UNCHANGED arenas, arena_count' \in ArenaIds, arena_count' >= arena_count,
         \A i \in TableEntries : arenas[i] # 0 =>
           /\ made'[arenas[i]].start = made[arenas[i]].start
           /\ made'[arenas[i]].blocks = made[arenas[i]].blocks
           /\ made'[arenas[i]].inuse = made[arenas[i]].inuse
           /\ made'[arenas[i]].exclusive = made[arenas[i]].exclusive
           /\ made'[arenas[i]].large = made[arenas[i]].large,
         \A p : p.kind = "arena" /\ p \in alive' => p \in alive
  PROVE  BlocksOK'
<1>1. ASSUME NEW p \in alive', p.kind = "arena" PROVE PieceOK(p)'
  <2>1. p \in alive /\ p \in ArenaPiece
    BY <1>1 DEF ArenasTypeOK, OsPiece
  <2>2. PICK i : i = p.id - 1
    OBVIOUS
  <2>3. PieceOK(p)
    BY <1>1, <2>1 DEF BlocksOK, PiecesHere
  <2>4. arena_count \in 0 .. MAX_ARENAS /\ MAX_ARENAS \in Nat
    BY Constants DEF ArenasTypeOK, ArenaIds
  <2>5. i \in TableEntries /\ arenas[i] # 0 /\ p.id <= arena_count'
    <3>1. p.id \in Nat \ {0} /\ p.id <= arena_count /\ arenas[i] # 0
      BY <2>1, <2>2, <2>3 DEF PieceOK, ArenaPiece
    <3>2. arena_count' \in Int
      BY Constants DEF ArenaIds
    <3> QED
      BY <2>2, <2>4, <3>1, <3>2 DEF TableEntries
  <2> QED
    BY <2>2, <2>3, <2>5 DEF PieceOK, BlockStart, Blocks
<1>2. PiecesHere'
  BY <1>1 DEF PiecesHere
<1>3. BlocksApart'
  BY DEF BlocksOK, BlocksApart, Blocks
<1> QED
  BY <1>2, <1>3 DEF BlocksOK

\* A step of one thread that changes nothing but what it is doing.
LEMMA UserStepInv ==
  ASSUME ArenasInv, ~ended, NEW t \in Users, NEW v, UserStep(t, v),
         v = UserIdle \/ CallOK(v), v.pc \notin {"metaundo", "add", "store"},
         v.pc \in Adding <=> user[t].pc \in Adding, v.pc \in Adding => v.mem = user[t].mem,
         UNCHANGED <<arenas, arena_count, made, memoryVars, alive, ended>>
  PROVE  ArenasInv'
<1>1. ArenasTypeOK /\ StaticOK /\ TableOK /\ CallsOK /\ MemoryOK /\ BlocksOK
  BY InvIs
<1>2. UNCHANGED <<arenas, arena_count, made, static_top, static_live, mapped, alive, ended>>
  BY DEF memoryVars
<1>3. ArenasTypeOK'
  BY <1>1, <1>2, UserStepType DEF ArenasTypeOK
<1>4. StaticOK'
  BY <1>1, <1>2, StaticStays
<1>5. TableOK'
  BY <1>1, <1>2 DEF TableOK, Handles
<1>6. CallsOK'
  <2>1. v = UserIdle \/ CallOK(v)'
    BY <1>2 DEF CallOK, Handles
  <2>2. \A u \in Users, c \in Call : u # t /\ c = user[u] /\ CallOK(c) => CallOK(c)'
    BY <1>2 DEF CallOK, Handles
  <2> QED
    BY <1>1, <2>1, <2>2, CallsStay
<1>7. MemoryOK'
  <2>1. user \in [Users -> {UserIdle} \cup Call]
    BY <1>1 DEF ArenasTypeOK
  <2>2. user' = [user EXCEPT ![t] = v]
    BY DEF UserStep
  <2>3. Spans' = Spans
    BY <1>2, <2>1, <2>2, SpansSame
  <2> QED
    BY <1>1, <1>2, <2>3, MemoryStays
<1>8. BlocksOK'
  <2>1. arena_count' \in ArenaIds /\ arena_count' >= arena_count
    BY <1>1, <1>2, Constants DEF ArenasTypeOK, ArenaIds
  <2> QED
    BY <1>1, <1>2, <2>1, BlocksStay
<1>9. ~ended'
  BY <1>2
<1>10. ArenasInv' <=> ArenasTypeOK' /\ StaticOK' /\ TableOK' /\ CallsOK' /\ MemoryOK' /\ BlocksOK'
  BY <1>9 DEF ArenasInv, Working, MemoryOK, BlocksOK
<1> QED
  BY <1>3, <1>4, <1>5, <1>6, <1>7, <1>8, <1>10

-----------------------------------------------------------------------------
(* Calls that begin, and steps that change only what a thread is doing.     *)

LEMMA AskedIs ==
  ASSUME NEW r
  PROVE  r \in AllocRequests \/ r \in Reservations \/ r \in Given \/ r \in HugeAsked => r \in Asked
  BY DEF Asked

LEMMA AllocRequestIs ==
  ASSUME NEW r \in AllocRequests
  PROVE  /\ r \in Asked /\ r.blocks \in Nat /\ r.blocks >= 1 /\ r.req \in Nat /\ r.large \in BOOLEAN
         /\ r.node \in ArenaNodes
<1>1. r \in [blocks : Nat \ {0}, req : Nat, large : BOOLEAN, node : Nat \cup {-1}]
  BY ArenasAssumption
<1> QED
  BY <1>1, AskedIs DEF ArenaNodes

LEMMA StartingIs ==
  ASSUME ArenasInv, NEW t \in Users, NEW v, Starting(t, v)
  PROVE  /\ ~ended /\ user[t] = UserIdle /\ user[t].pc = "idle" /\ user[t].pc \notin Adding
         /\ user' = [user EXCEPT ![t] = v]
<1>1. ~ended /\ user[t] = UserIdle /\ user' = [user EXCEPT ![t] = v]
  BY DEF Starting
<1>2. user[t].pc = "idle"
  BY <1>1 DEF UserIdle
<1> QED
  BY <1>1, <1>2 DEF Adding

LEMMA AllocAlignedInv ==
  ASSUME ArenasInv, NEW t \in Users, NEW r \in AllocRequests, AllocAligned(t, r)
  PROVE  ArenasInv'
<1>0. PICK call, index, v :
        /\ call = CallRecord("alloc", r)
        /\ index = (IF r.req = NONE THEN 0 ELSE r.req - 1)
        /\ v = IF index < arena_count
                 THEN [call EXCEPT !.max = arena_count, !.i = index, !.only = (r.req # NONE)]
                 ELSE [call EXCEPT !.pc = IF r.req = NONE THEN "reserve" ELSE "os"]
  OBVIOUS
<1>1. Starting(t, v) /\ UNCHANGED <<arenas, arena_count, made, memoryVars, alive, ended>>
  BY <1>0 DEF AllocAligned
<1>2. ~ended /\ user[t].pc \notin Adding /\ user' = [user EXCEPT ![t] = v]
  BY <1>1, StartingIs
<1>3. /\ call \in Call /\ call.pc = "scan" /\ call.op = "alloc" /\ call.request = r
      /\ r \in Asked /\ r.req \in Nat
  <2>1. r \in Asked /\ r.req \in Nat /\ "alloc" \in UserOps
    BY AllocRequestIs DEF UserOps
  <2>2. Fresh(call, "alloc", r)
    BY <1>0, <2>1, CallRecordIs
  <2> QED
    BY <2>1, <2>2 DEF Fresh
<1>4. arena_count \in Nat /\ index \in Nat
  BY <1>0, <1>3, Constants DEF ArenasInv, ArenasTypeOK, ArenaIds, NONE
<1>5. CASE index < arena_count
  <2>1. v = [call EXCEPT !.max = arena_count, !.i = index, !.only = (r.req # NONE)]
    BY <1>0, <1>5
  <2>2. /\ v \in Call /\ v.pc = "scan" /\ v.op = "alloc" /\ v.request = r /\ v.max = arena_count /\ v.i = index
    BY <1>3, <1>4, <2>1 DEF Call
  <2>3. CallOK(v)
    BY <1>4, <1>5, <2>2 DEF CallOK, Adding
  <2>4. v.pc \notin {"metaundo", "add", "store"} /\ v.pc \notin Adding /\ UserStep(t, v)
    BY <1>2, <2>2 DEF Adding, UserStep
  <2> QED
    BY <1>1, <1>2, <2>3, <2>4, UserStepInv
<1>6. CASE ~(index < arena_count)
  <2>1. PICK pc : pc = (IF r.req = NONE THEN "reserve" ELSE "os") /\ pc \in {"reserve", "os"} /\ pc \in UserPcs
    BY DEF UserPcs
  <2>2. v = [call EXCEPT !.pc = pc]
    BY <1>0, <1>6, <2>1
  <2>3. v \in Call /\ v.pc = pc /\ v.op = "alloc" /\ v.request = r
    BY <1>3, <2>1, <2>2 DEF Call
  <2>4. CallOK(v)
    BY <2>1, <2>3 DEF CallOK, Adding
  <2>5. v.pc \notin {"metaundo", "add", "store"} /\ v.pc \notin Adding /\ UserStep(t, v)
    BY <1>2, <2>1, <2>3 DEF Adding, UserStep
  <2> QED
    BY <1>1, <1>2, <2>4, <2>5, UserStepInv
<1> QED
  BY <1>5, <1>6

LEMMA PositivePlan ==
  ASSUME NEW pages \in Nat \ {0}
  PROVE  HugePages(pages) \in Seq(FullPlan) /\ HugePages(pages) # << >>
<1>1. PICK q, r, k : q = pages \div NODES /\ r = pages % NODES /\ k = (IF pages < NODES THEN pages ELSE NODES)
  OBVIOUS
<1>2. NODES \in Nat \ {0} /\ HUGE_PAGE \in Nat \ {0}
  BY Constants
<1>3. q \in Nat /\ r \in 0 .. NODES - 1 /\ pages = q * NODES + r
  BY <1>1, <1>2, Quotient
<1>4. k \in Nat /\ k >= 1
  BY <1>1, <1>2
<1>5. ASSUME NEW n \in 1 .. k PROVE q + (IF n - 1 < r THEN 1 ELSE 0) \in Nat \ {0}
  <2>1. CASE q >= 1
    BY <1>3, <2>1
  <2>2. CASE q = 0
    <3>1. pages = r /\ k = pages
      BY <1>1, <1>2, <1>3, <2>2
    <3> QED
      BY <1>3, <3>1
  <2> QED
    BY <1>3, <2>1, <2>2
<1>6. ASSUME NEW n \in 1 .. k
      PROVE  [size |-> HUGE_PAGE * (q + (IF n - 1 < r THEN 1 ELSE 0)), exclusive |-> FALSE, large |-> TRUE,
              node |-> n - 1] \in FullPlan
  <2>1. PICK m : m = q + (IF n - 1 < r THEN 1 ELSE 0) /\ m \in Nat \ {0}
    BY <1>5
  <2>2. HUGE_PAGE * m \in Nat \ {0}
    BY <1>2, <2>1
  <2>3. n - 1 \in ArenaNodes
    BY <1>4 DEF ArenaNodes
  <2> QED
    BY <2>1, <2>2, <2>3 DEF FullPlan
<1>7. HugePages(pages) =
        [n \in 1 .. k |-> [size |-> HUGE_PAGE * (q + (IF n - 1 < r THEN 1 ELSE 0)),
                           exclusive |-> FALSE, large |-> TRUE, node |-> n - 1]]
  BY <1>1 DEF HugePages
<1>8. HugePages(pages) \in [1 .. k -> FullPlan]
  BY <1>6, <1>7
<1>9. HugePages(pages) \in Seq(FullPlan) /\ Len(HugePages(pages)) = k
  BY <1>4, <1>8
<1> QED
  BY <1>4, <1>9

\* A call that is about to map the memory of an arena.
Planned(v, op, request, mem) ==
  v \in Call /\ v.pc = "map" /\ v.op = op /\ v.request = request /\ v.mem = mem

LEMMA PlannedIs ==
  ASSUME NEW op \in UserOps, NEW request \in Asked, NEW mem \in FullPlan, NEW todo \in Todos
  PROVE  Planned([CallRecord(op, request) EXCEPT !.pc = "map", !.mem = mem, !.todo = todo], op, request, mem)
<1>1. PICK c : c = CallRecord(op, request) /\ Fresh(c, op, request)
  BY CallRecordIs
<1>2. c \in Call /\ c.op = op /\ c.request = request
  BY <1>1 DEF Fresh
<1>3. mem \in Mems /\ "map" \in UserPcs
  BY DEF Mems, Plan, FullPlan, UserPcs
<1>4. PICK v : v = [c EXCEPT !.pc = "map", !.mem = mem, !.todo = todo]
  OBVIOUS
<1>5. v \in Call /\ v.pc = "map" /\ v.op = op /\ v.request = request /\ v.mem = mem
  BY <1>2, <1>3, <1>4 DEF Call
<1> QED
  BY <1>1, <1>4, <1>5 DEF Planned

LEMMA PlannedOK ==
  ASSUME NEW v, v.pc = "map", v.mem \in FullPlan, v.op = "alloc" => v.request \in AllocRequests
  PROVE  CallOK(v) /\ v.pc \notin {"metaundo", "add", "store"} /\ v.pc \notin Adding
<1>1. v.mem \in Plan /\ v.mem.size >= 1
  BY DEF Plan, FullPlan
<1> QED
  BY <1>1 DEF CallOK, Adding

LEMMA ReserveOsMemoryInv ==
  ASSUME ArenasInv, NEW t \in Users, NEW r \in Reservations, ReserveOsMemory(t, r)
  PROVE  ArenasInv'
<1>0. PICK v, mem :
        /\ mem = [size |-> AlignTo(r.size, BLOCK), exclusive |-> r.exclusive, large |-> r.large, node |-> AnyNode]
        /\ v = [CallRecord("reserve", r) EXCEPT !.pc = "map", !.mem = mem]
  OBVIOUS
<1>1. Starting(t, v) /\ UNCHANGED <<arenas, arena_count, made, memoryVars, alive, ended>>
  BY <1>0 DEF ReserveOsMemory
<1>2. ~ended /\ user[t].pc \notin Adding /\ user' = [user EXCEPT ![t] = v]
  BY <1>1, StartingIs
<1>3. mem \in FullPlan
  <2>1. r \in [size : Nat \ {0}, exclusive : BOOLEAN, large : BOOLEAN]
    BY ArenasAssumption
  <2>2. PICK s : s = r.size /\ s \in Nat /\ s >= 1
    BY <2>1
  <2>3. AlignTo(s, BLOCK) \in Nat /\ s <= AlignTo(s, BLOCK)
    <3>1. BLOCK \in Nat \ {0}
      BY Constants
    <3> QED
      BY <2>2, <3>1, AlignToBounds
  <2>4. AlignTo(s, BLOCK) \in Nat \ {0}
    BY <2>2, <2>3
  <2> QED
    BY <1>0, <2>1, <2>2, <2>4 DEF FullPlan, ArenaNodes, AnyNode
<1>4. r \in Asked /\ "reserve" \in UserOps /\ << >> \in Todos
  BY AskedIs DEF UserOps, Todos
<1>5. PICK c : c = CallRecord("reserve", r) /\ Fresh(c, "reserve", r)
  BY <1>4, CallRecordIs
<1>9. c \in Call /\ c.op = "reserve"
  BY <1>5 DEF Fresh
<1>6. v \in Call /\ v.pc = "map" /\ v.op = "reserve" /\ v.mem = mem
  <2>1. mem \in Mems /\ "map" \in UserPcs
    BY <1>3 DEF Mems, Plan, FullPlan, UserPcs
  <2> QED
    BY <1>0, <1>5, <1>9, <2>1 DEF Call
<1>7. CallOK(v) /\ v.pc \notin {"metaundo", "add", "store"} /\ v.pc \notin Adding
  BY <1>3, <1>6, PlannedOK
<1>8. UserStep(t, v)
  BY <1>2, <1>6 DEF UserStep
<1> QED
  BY <1>1, <1>2, <1>7, <1>8, UserStepInv

LEMMA ReserveHugeInv ==
  ASSUME ArenasInv, NEW t \in Users, NEW pages \in HugeRequests, ReserveHuge(t, pages)
  PROVE  ArenasInv'
<1>0. PICK plan, v, r :
        /\ plan = HugePages(pages) /\ r = [pages |-> pages]
        /\ v = [CallRecord("huge", r) EXCEPT !.pc = "map", !.mem = Head(plan), !.todo = Tail(plan)]
  OBVIOUS
<1>1. Starting(t, v) /\ UNCHANGED <<arenas, arena_count, made, memoryVars, alive, ended>>
  BY <1>0 DEF ReserveHuge
<1>2. ~ended /\ user[t].pc \notin Adding /\ user' = [user EXCEPT ![t] = v]
  BY <1>1, StartingIs
<1>3. plan \in Seq(FullPlan) /\ plan # << >>
  BY <1>0, ArenasAssumption, PositivePlan
<1>4. Head(plan) \in FullPlan /\ Tail(plan) \in Todos
  BY <1>3 DEF Todos
<1>5. r \in Asked /\ "huge" \in UserOps
  <2>1. r \in HugeAsked
    BY <1>0 DEF HugeAsked
  <2> QED
    BY <2>1, AskedIs DEF UserOps
<1>6. v \in Call /\ v.pc = "map" /\ v.op = "huge" /\ v.mem = Head(plan)
  <2>1. PICK mem, todo : mem = Head(plan) /\ todo = Tail(plan) /\ mem \in FullPlan /\ todo \in Todos
    BY <1>4
  <2>2. v = [CallRecord("huge", r) EXCEPT !.pc = "map", !.mem = mem, !.todo = todo]
    BY <1>0, <2>1
  <2>3. Planned(v, "huge", r, mem)
    BY <1>5, <2>1, <2>2, PlannedIs
  <2> QED
    BY <2>1, <2>3 DEF Planned
<1>7. CallOK(v) /\ v.pc \notin {"metaundo", "add", "store"} /\ v.pc \notin Adding
  BY <1>4, <1>6, PlannedOK
<1>8. UserStep(t, v)
  BY <1>2, <1>6 DEF UserStep
<1> QED
  BY <1>1, <1>2, <1>7, <1>8, UserStepInv

\* Thread t is in a call.
LEMMA InCall ==
  ASSUME ArenasInv, NEW t \in Users, user[t].pc \in UserPcs
  PROVE  ~ended /\ user[t] \in Call /\ CallOK(user[t])
<1>1. ArenasTypeOK /\ "idle" \notin UserPcs
  BY DEF ArenasInv, UserPcs, Adding
<1>2. user[t] \in Call /\ user[t] # UserIdle
  BY <1>1, UserFacts
<1>3. ~ended
  BY <1>2 DEF ArenasInv, AllIdle
<1> QED
  BY <1>2, <1>3 DEF ArenasInv, Working, CallsOK

\* An allocation goes on without an arena.
LEMMA OsCallIs ==
  ASSUME NEW r \in AllocRequests, NEW pc \in {"os", "reserve"}, NEW v, v = [CallRecord("alloc", r) EXCEPT !.pc = pc]
  PROVE  v \in Call /\ CallOK(v) /\ v.pc = pc /\ v.pc \notin {"metaundo", "add", "store"} /\ v.pc \notin Adding
<1>1. r \in Asked /\ "alloc" \in UserOps /\ pc \in UserPcs
  BY AllocRequestIs DEF UserOps, UserPcs
<1>2. PICK c : c = CallRecord("alloc", r) /\ Fresh(c, "alloc", r)
  BY <1>1, CallRecordIs
<1>6. c \in Call /\ c.op = "alloc" /\ c.request = r
  BY <1>2 DEF Fresh
<1>3. v = [c EXCEPT !.pc = pc]
  BY <1>2
<1>4. v \in Call /\ v.pc = pc /\ v.op = "alloc" /\ v.request = r
  BY <1>1, <1>3, <1>6 DEF Call
<1>5. CallOK(v)
  BY <1>4 DEF CallOK, Adding
<1> QED
  BY <1>4, <1>5 DEF Adding

LEMMA FailedIs ==
  ASSUME NEW t, user[t] \in Call, CallOK(user[t]), NEW v, v = Failed(t)
  PROVE  /\ v \in {UserIdle} \cup Call /\ (v = UserIdle \/ CallOK(v))
         /\ v.pc \notin {"metaundo", "add", "store"} /\ v.pc \notin Adding
<1>1. CASE user[t].op = "alloc"
  <2>1. PICK r : r = user[t].request /\ r \in AllocRequests
    BY <1>1 DEF CallOK
  <2>2. v = [CallRecord("alloc", r) EXCEPT !.pc = "os"]
    BY <1>1, <2>1 DEF Failed
  <2> QED
    BY <2>1, <2>2, OsCallIs
<1>2. CASE user[t].op # "alloc"
  <2>1. v = UserIdle
    BY <1>2 DEF Failed
  <2> QED
    BY <2>1 DEF UserIdle, Adding
<1> QED
  BY <1>1, <1>2

LEMMA ReserveInv ==
  ASSUME ArenasInv, NEW t \in Users, Reserve(t)
  PROVE  ArenasInv'
<1>0. PICK u, mem, refused, pc, v :
        /\ u = user[t]
        /\ mem = [size |-> ReserveSize, exclusive |-> FALSE, large |-> u.request.large, node |-> AnyNode]
        /\ refused = (arena_count > MAX_ARENAS - MARGIN \/ RESERVE = 0 \/ ReserveSize < u.request.blocks * BLOCK)
        /\ pc = (IF refused THEN "os" ELSE "map")
        /\ v = [u EXCEPT !.pc = pc, !.mem = mem]
  OBVIOUS
<1>1. /\ user' = [user EXCEPT ![t] = v] /\ u.pc = "reserve"
      /\ UNCHANGED <<arenas, arena_count, made, memoryVars, alive, ended>>
  BY <1>0 DEF Reserve
<1>2. ~ended /\ u \in Call /\ CallOK(u) /\ u.pc \notin Adding
  BY <1>0, <1>1, InCall DEF UserPcs, Adding
<1>3. u.op = "alloc" /\ u.request \in AllocRequests
  BY <1>1, <1>2 DEF CallOK
<1>4. u.request.large \in BOOLEAN /\ u.request.blocks \in Nat /\ u.request.blocks >= 1
  BY <1>3, AllocRequestIs
<1>5. ReserveSize \in Int
  <2>1. BLOCK \in Nat \ {0} /\ RESERVE \in Nat /\ SCALE \in Nat \ {0}
    BY Constants
  <2>2. AlignTo(RESERVE, BLOCK) \in Nat
    BY <2>1, AlignToBounds
  <2>3. arena_count \in Nat
    BY Constants DEF ArenasInv, ArenasTypeOK, ArenaIds
  <2>4. arena_count \div SCALE \in Nat
    BY <2>1, <2>3, Quotient
  <2>5. 2 ^ (arena_count \div SCALE) \in Int
    BY <2>4
  <2> QED
    BY <2>2, <2>5 DEF ReserveSize
<1>6. mem \in Plan
  BY <1>0, <1>4, <1>5 DEF Plan, ArenaNodes, AnyNode
<1>7. pc \in UserPcs /\ mem \in Mems /\ pc \in {"os", "map"}
  BY <1>0, <1>6 DEF UserPcs, Mems
<1>8. v \in Call /\ v.pc = pc /\ v.op = u.op /\ v.request = u.request /\ v.mem = mem
  BY <1>0, <1>2, <1>7 DEF Call
<1>9. pc = "map" => mem.size >= 1
  <2>1. SUFFICES ASSUME pc = "map" PROVE mem.size >= 1
    OBVIOUS
  <2>2. ~(ReserveSize < u.request.blocks * BLOCK)
    BY <1>0, <2>1
  <2>3. u.request.blocks * BLOCK >= 1
    <3>1. PICK b : b = u.request.blocks /\ b \in Nat /\ b >= 1
      BY <1>4
    <3>2. b * BLOCK >= 1
      BY <3>1, Constants
    <3> QED
      BY <3>1, <3>2
  <2>4. u.request.blocks * BLOCK \in Int
    BY <1>4, Constants
  <2>5. mem.size = ReserveSize
    BY <1>0
  <2> QED
    BY <1>5, <2>2, <2>3, <2>4, <2>5
<1>10. CallOK(v) /\ v.pc \notin {"metaundo", "add", "store"} /\ v.pc \notin Adding
  BY <1>3, <1>6, <1>7, <1>8, <1>9 DEF CallOK, Adding
<1>11. UserStep(t, v)
  BY <1>1, <1>8 DEF UserStep
<1>12. user[t].pc \notin Adding
  BY <1>0, <1>2
<1> QED
  BY <1>1, <1>2, <1>10, <1>11, <1>12, UserStepInv

\* Only the place of a call in the code changes.
LEMMA PcOnly ==
  ASSUME NEW u \in Call, NEW pc \in UserPcs
  PROVE  LET v == [u EXCEPT !.pc = pc]
         IN /\ v \in Call /\ v.pc = pc /\ v.op = u.op /\ v.request = u.request /\ v.mem = u.mem
            /\ v.handle = u.handle /\ v.i = u.i /\ v.toplow = u.toplow /\ v.todo = u.todo
  BY DEF Call

\* A call that adds memory goes on, with no arena for it yet.
LEMMA AddingOn ==
  ASSUME ArenasInv, NEW t \in Users, user[t].pc \in Adding, NEW pc \in {"metaadd", "metaos", "release"}, UserTo(t, pc),
         UNCHANGED <<arenas, arena_count, made, memoryVars, alive, ended>>
  PROVE  ArenasInv'
<1>1. PICK u, v : u = user[t] /\ v = [u EXCEPT !.pc = pc]
  OBVIOUS
<1>2. user' = [user EXCEPT ![t] = v]
  BY <1>1 DEF UserTo
<1>3. ~ended /\ u \in Call /\ CallOK(u)
  BY <1>1, InCall DEF UserPcs
<1>4. pc \in UserPcs /\ pc \in Adding
  BY DEF UserPcs, Adding
<1>5. v \in Call /\ v.pc = pc /\ v.op = u.op /\ v.request = u.request /\ v.mem = u.mem
  BY <1>1, <1>3, <1>4, PcOnly
<1>6. CallOK(v)
  BY <1>1, <1>3, <1>5 DEF CallOK
<1>7. v.pc \notin {"metaundo", "add", "store"} /\ v.pc \in Adding /\ UserStep(t, v) /\ v.mem = user[t].mem
  BY <1>1, <1>2, <1>4, <1>5 DEF UserStep
<1> QED
  BY <1>3, <1>6, <1>7, UserStepInv

LEMMA MetaInv ==
  ASSUME ArenasInv, NEW t \in Users, Meta(t)
  PROVE  ArenasInv'
<1>1. PICK pc : /\ pc = (IF static_top + META + META_ALIGN - 1 > STATIC_MAX THEN "metaos" ELSE "metaadd")
                /\ pc \in {"metaadd", "metaos", "release"} /\ UserTo(t, pc)
  BY DEF Meta
<1>2. user[t].pc \in Adding /\ UNCHANGED <<arenas, arena_count, made, memoryVars, alive, ended>>
  BY DEF Meta, Adding
<1> QED
  BY <1>1, <1>2, AddingOn

-----------------------------------------------------------------------------
(* New structures of arenas.                                                *)

LEMMA InvNext ==
  ASSUME ~ended'
  PROVE  ArenasInv' <=> ArenasTypeOK' /\ StaticOK' /\ TableOK' /\ CallsOK' /\ MemoryOK' /\ BlocksOK'
  BY DEF ArenasInv, Working, MemoryOK, BlocksOK

\* Structures are only added, and those that are new have no id.
MadeGrows(n, k) ==
  /\ n \in Nat /\ k \in Nat /\ k >= n
  /\ made \in Seq(MadeArena) /\ made' \in Seq(MadeArena) /\ Len(made) = n /\ Len(made') = k
  /\ \A h \in 1 .. n : made'[h] = made[h]
  /\ \A h \in n + 1 .. k : made'[h].id = NONE /\ made'[h].blocks * BLOCK <= made'[h].size

LEMMA MadeStays ==
  ASSUME made \in Seq(MadeArena), UNCHANGED made
  PROVE  MadeGrows(Len(made), Len(made))
  BY DEF MadeGrows

LEMMA MadeAppend ==
  ASSUME made \in Seq(MadeArena), NEW a \in MadeArena, a.id = NONE, a.blocks * BLOCK <= a.size,
         made' = Append(made, a)
  PROVE  MadeGrows(Len(made), Len(made) + 1) /\ made'[Len(made) + 1] = a
<1>1. /\ made' \in Seq(MadeArena) /\ Len(made') = Len(made) + 1 /\ made'[Len(made) + 1] = a
      /\ \A h \in 1 .. Len(made) : made'[h] = made[h]
  OBVIOUS
<1>2. Len(made) \in Nat
  OBVIOUS
<1> QED
  BY <1>1, <1>2 DEF MadeGrows

\* What a call knows of its structure stays.
LEMMA CallOKGrows ==
  ASSUME NEW n, NEW k, MadeGrows(n, k), NEW c, CallOK(c), UNCHANGED <<arenas, arena_count>>
  PROVE  CallOK(c)'
<1>1. Handles = 1 .. n /\ Handles' = 1 .. k /\ n \in Nat /\ k \in Nat /\ k >= n
  BY DEF MadeGrows, Handles
<1>2. \A h \in Handles : h \in Handles' /\ made'[h] = made[h]
  BY <1>1 DEF MadeGrows
<1>3. c.pc \in {"add", "store"} => c.handle \in Handles' /\ made'[c.handle] = made[c.handle]
  BY <1>2 DEF CallOK
<1> QED
  BY <1>3 DEF CallOK

\* A call that adds memory goes on, perhaps with a new structure.
LEMMA AddingStepInv ==
  ASSUME ArenasInv, ~ended, NEW t \in Users, NEW v \in Call, user' = [user EXCEPT ![t] = v],
         v.pc \in Adding, user[t].pc \in Adding, v.mem = user[t].mem, CallOK(v)',
         v.pc \in {"add", "store"} =>
           \A u \in Users : u # t /\ user[u].pc \in {"add", "store"} => user[u].handle # v.handle,
         NEW n, NEW k, MadeGrows(n, k), StaticOK', static_top' \in Nat, static_live' \subseteq Nat \X {META},
         UNCHANGED <<arenas, arena_count, mapped, alive, ended>>
  PROVE  ArenasInv'
<1>1. ArenasTypeOK /\ TableOK /\ CallsOK /\ MemoryOK /\ BlocksOK
  BY InvIs
<1>2. UserStep(t, v)
  BY DEF UserStep
<1>3. ArenasTypeOK'
  BY <1>1, <1>2, UserStepType DEF ArenasTypeOK, MadeGrows
<1>4. /\ Handles = 1 .. n /\ Handles' = 1 .. k /\ n \in Nat /\ k \in Nat /\ k >= n
      /\ \A h \in Handles : h \in Handles' /\ made'[h] = made[h]
      /\ \A h \in Handles' : h \in Handles \/ (made'[h].id = NONE /\ made'[h].blocks * BLOCK <= made'[h].size)
  BY DEF MadeGrows, Handles
<1>5. \A i \in TableEntries : arenas[i] # 0 => arenas[i] \in Handles /\ made'[arenas[i]] = made[arenas[i]]
  BY <1>1, <1>4 DEF TableOK
<1>6. TableOK'
  <2>1. \A i \in TableEntries : arenas'[i] # 0 =>
          i < arena_count' /\ arenas'[i] \in Handles' /\ made'[arenas'[i]].id = i + 1
    BY <1>1, <1>4, <1>5 DEF TableOK
  <2>2. \A h, j \in Handles' : made'[h].id = made'[j].id /\ made'[h].id # NONE => h = j
    BY <1>1, <1>4 DEF TableOK
  <2>3. \A h \in Handles' : made'[h].id <= arena_count' /\ made'[h].blocks * BLOCK <= made'[h].size
    <3>1. NONE <= arena_count'
      BY <1>3, Constants DEF ArenasTypeOK, ArenaIds, NONE
    <3> QED
      BY <1>1, <1>4, <3>1 DEF TableOK
  <2> QED
    BY <2>1, <2>2, <2>3 DEF TableOK
<1>7. CallsOK'
  <2>1. \A u \in Users, c \in Call : u # t /\ c = user[u] /\ CallOK(c) => CallOK(c)'
    BY CallOKGrows
  <2> QED
    BY <1>1, <1>2, <2>1, CallsStay
<1>8. MemoryOK'
  <2>1. user \in [Users -> {UserIdle} \cup Call]
    BY <1>1 DEF ArenasTypeOK
  <2>2. Spans' = Spans
    BY <1>5, <2>1, SpansSame
  <2> QED
    BY <1>1, <2>2, MemoryStays
<1>9. BlocksOK'
  <2>1. arena_count' \in ArenaIds /\ arena_count' >= arena_count
    BY <1>1, Constants DEF ArenasTypeOK, ArenaIds
  <2> QED
    BY <1>1, <1>5, <2>1, BlocksStay
<1> QED
  BY <1>3, <1>6, <1>7, <1>8, <1>9, InvNext

\* The structure of an arena, and the call that has it.
LEMMA StructureIs ==
  ASSUME NEW mem \in Memory, NEW place \in {"static", "os"}, NEW a, a = Structure(mem, place)
  PROVE  /\ a \in MadeArena /\ a.id = NONE /\ a.blocks * BLOCK <= a.size
         /\ a.start = mem.start /\ a.size = mem.size /\ a.os = mem.os
<1>1. BLOCK \in Nat \ {0}
  BY Constants
<1>2. PICK s : s = mem.size /\ s \in Nat \ {0}
  BY DEF Memory
<1>3. PICK b : b = s \div BLOCK
  OBVIOUS
<1>4. b \in Nat /\ s % BLOCK \in Nat /\ s = b * BLOCK + (s % BLOCK)
  <2>1. s \div BLOCK \in Nat /\ s % BLOCK \in 0 .. BLOCK - 1 /\ s = (s \div BLOCK) * BLOCK + (s % BLOCK)
    <3>1. s \in Nat
      BY <1>2
    <3> QED
      BY <1>1, <3>1, Quotient
  <2>2. s % BLOCK \in Nat
    BY <1>1, <2>1
  <2> QED
    BY <1>3, <2>1, <2>2
<1>5. b * BLOCK \in Nat
  BY <1>1, <1>4
<1>6. b * BLOCK <= s
  BY <1>2, <1>4, <1>5
<1>7. NONE \in ArenaIds /\ {} \in BlockSets
  BY Constants DEF NONE, ArenaIds, BlockSets
<1>8. mem.start \in Nat /\ mem.exclusive \in BOOLEAN /\ mem.large \in BOOLEAN /\ mem.node \in ArenaNodes /\ mem.os \in BOOLEAN
  BY DEF Memory
<1>9. a = [start |-> mem.start, size |-> s, blocks |-> b, exclusive |-> mem.exclusive,
           large |-> mem.large, node |-> mem.node, os |-> mem.os, inuse |-> {}, id |-> NONE, meta |-> place]
  BY <1>2, <1>3 DEF Structure
<1> QED
  BY <1>2, <1>4, <1>6, <1>7, <1>8, <1>9 DEF MadeArena

LEMMA MadeInv ==
  ASSUME ArenasInv, NEW t \in Users, user[t].pc \in Adding, NEW place \in {"static", "os"}, Made(t, place),
         StaticOK', static_top' \in Nat, static_live' \subseteq Nat \X {META},
         UNCHANGED <<arenas, arena_count, mapped, alive, ended>>
  PROVE  ArenasInv'
<1>0. ~ended /\ user[t] \in Call /\ CallOK(user[t])
  BY InCall DEF UserPcs
<1>1. ArenasTypeOK /\ TableOK /\ CallsOK
  BY <1>0, InvIs
<1>2. PICK n : n = Len(made) /\ n \in Nat
  BY <1>1 DEF ArenasTypeOK
<1>3. PICK u, a, v : u = user[t] /\ a = Structure(u.mem, place) /\ v = [u EXCEPT !.pc = "add", !.handle = n + 1]
  OBVIOUS
<1>4. user' = [user EXCEPT ![t] = v] /\ made' = Append(made, a)
  BY <1>2, <1>3 DEF Made
<1>5. u.mem \in Memory
  BY <1>0, <1>3 DEF CallOK
<1>6. /\ a \in MadeArena /\ a.id = NONE /\ a.blocks * BLOCK <= a.size
      /\ a.start = u.mem.start /\ a.size = u.mem.size /\ a.os = u.mem.os
  BY <1>3, <1>5, StructureIs
<1>7. MadeGrows(n, n + 1) /\ made'[n + 1] = a
  BY <1>1, <1>2, <1>4, <1>6, MadeAppend DEF ArenasTypeOK
<1>8. v \in Call /\ v.pc = "add" /\ v.op = u.op /\ v.request = u.request /\ v.mem = u.mem /\ v.handle = n + 1
  <2>1. "add" \in UserPcs /\ n + 1 \in Nat /\ u \in Call
    BY <1>0, <1>2, <1>3 DEF UserPcs, Adding
  <2> QED
    BY <1>3, <2>1 DEF Call
<1>9. n + 1 \in Handles'
  BY <1>2, <1>7 DEF MadeGrows, Handles
<1>10. CallOK(v)'
  BY <1>0, <1>3, <1>5, <1>6, <1>7, <1>8, <1>9 DEF CallOK, Adding
<1>11. \A w \in Users : w # t /\ user[w].pc \in {"add", "store"} => user[w].handle # v.handle
  <2>1. SUFFICES ASSUME NEW w \in Users, user[w].pc \in {"add", "store"} PROVE user[w].handle # n + 1
    BY <1>8
  <2>2. user[w] # UserIdle
    BY <2>1 DEF UserIdle
  <2>3. CallOK(user[w])
    BY <1>1, <2>2 DEF CallsOK
  <2>4. user[w].handle \in 1 .. n
    BY <1>2, <2>1, <2>3 DEF CallOK, Handles
  <2> QED
    BY <1>2, <2>4
<1>12. v.pc \in Adding /\ user[t].pc \in Adding /\ v.mem = user[t].mem
  BY <1>3, <1>8 DEF Adding
<1> QED
  BY <1>0, <1>4, <1>7, <1>8, <1>10, <1>11, <1>12, AddingStepInv

LEMMA StaticFacts ==
  ASSUME ArenasTypeOK
  PROVE  /\ static_top \in Nat
         /\ \A x \in static_live : x[1] \in Nat /\ x[2] \in Nat /\ x[1] + x[2] \in Nat
         /\ \A t \in Users : user[t].pc = "metaundo" => user[t].toplow \in Nat
<1>1. \A x \in static_live : x[1] \in Nat /\ x[2] \in Nat
  BY Constants DEF ArenasTypeOK
<1>2. ASSUME NEW t \in Users, user[t].pc = "metaundo" PROVE user[t].toplow \in Nat
  <2>1. user[t] \in Call
    BY <1>2, UserFacts
  <2> QED
    BY <2>1, CallFields
<1> QED
  BY <1>1, <1>2 DEF ArenasTypeOK

LEMMA MetaAddInv ==
  ASSUME ArenasInv, NEW t \in Users, MetaAdd(t)
  PROVE  ArenasInv'
<1>1. /\ user[t].pc = "metaadd" /\ static_top' = static_top + Over
      /\ UNCHANGED <<arenas, arena_count, mapped, alive, ended>>
  BY DEF MetaAdd, Over
<1>2. ~ended /\ user[t] \in Call /\ CallOK(user[t]) /\ user[t].pc \in Adding
  BY <1>1, InCall DEF UserPcs, Adding
<1>3. ArenasTypeOK /\ StaticOK
  BY DEF ArenasInv
<1>4. Over \in Nat /\ Over > 0 /\ STATIC_MAX \in Nat /\ static_top' \in Nat /\ static_top \in Nat
  BY <1>1, <1>3, Constants, StaticFacts
<1>5. CASE static_top + Over > STATIC_MAX
  <2>1. PICK u, v, m : u = user[t] /\ m = static_top /\ v = [u EXCEPT !.pc = "metaundo", !.toplow = m]
    OBVIOUS
  <2>2. user' = [user EXCEPT ![t] = v] /\ UNCHANGED <<made, static_live>>
    BY <1>5, <2>1 DEF MetaAdd, Over
  <2>3. v \in Call /\ v.pc = "metaundo" /\ v.op = u.op /\ v.request = u.request /\ v.mem = u.mem /\ v.toplow = m
    <3>1. m \in Nat /\ u \in Call /\ "metaundo" \in UserPcs
      BY <1>2, <1>4, <2>1 DEF UserPcs, Adding
    <3> QED
      BY <2>1, <3>1 DEF Call
  <2>4. CallOK(v)'
    BY <1>2, <2>1, <2>3 DEF CallOK
  <2>5. user'[t] = v /\ \A w \in Users : w # t => user'[w] = user[w]
    <3>1. UserStep(t, v)
      BY <2>2, <2>3 DEF UserStep
    <3> QED
      BY <1>3, <3>1, UserStepType
  <2>6. StaticOK'
    <3>1. \A x \in static_live' : x[1] + x[2] <= STATIC_MAX /\ x[1] + x[2] <= static_top'
      BY <1>1, <1>3, <1>4, <2>2, StaticFacts DEF StaticOK
    <3>2. \A x, y \in static_live' : x # y => Beside(x[1], x[2], y[1], y[2])
      BY <1>3, <2>2 DEF StaticOK
    <3>3. ASSUME NEW w \in Users, user'[w].pc = "metaundo"
          PROVE  /\ user'[w].toplow + Over > STATIC_MAX /\ user'[w].toplow + Over <= static_top'
                 /\ \A x \in static_live' : x[1] + x[2] <= user'[w].toplow
      <4>1. CASE w = t
        <5>1. user'[w].toplow = static_top
          BY <2>1, <2>3, <2>5, <4>1
        <5>2. \A x \in static_live : x[1] + x[2] <= static_top
          BY <1>3 DEF StaticOK
        <5> QED
          BY <1>1, <1>4, <1>5, <2>2, <5>1, <5>2
      <4>2. CASE w # t
        <5>1. /\ user'[w] = user[w] /\ user[w].toplow \in Nat
              /\ user[w].toplow + Over > STATIC_MAX /\ user[w].toplow + Over <= static_top
              /\ \A x \in static_live : x[1] + x[2] <= user[w].toplow
          BY <1>3, <2>5, <3>3, <4>2, StaticFacts DEF StaticOK
        <5> QED
          BY <1>1, <1>4, <2>2, <5>1
      <4> QED
        BY <4>1, <4>2
    <3>4. ASSUME NEW w \in Users, w # t, user'[w].pc = "metaundo" PROVE user'[w].toplow + Over <= user'[t].toplow
      BY <1>3, <2>1, <2>3, <2>5, <3>4 DEF StaticOK
    <3>5. ASSUME NEW w \in Users, NEW z \in Users, w # z, user'[w].pc = "metaundo", user'[z].pc = "metaundo"
          PROVE  user'[w].toplow + Over <= user'[z].toplow \/ user'[z].toplow + Over <= user'[w].toplow
      <4>1. CASE w = t \/ z = t
        BY <3>4, <3>5, <4>1
      <4>2. CASE w # t /\ z # t
        BY <1>3, <2>5, <3>5, <4>2 DEF StaticOK
      <4> QED
        BY <4>1, <4>2
    <3> QED
      BY <3>1, <3>2, <3>3, <3>5 DEF StaticOK, Beside, Over
  <2>7. MadeGrows(Len(made), Len(made)) /\ static_live' \subseteq Nat \X {META}
    BY <1>3, <2>2, MadeStays DEF ArenasTypeOK
  <2>8. v.pc \in Adding /\ v.pc \notin {"add", "store"} /\ v.mem = user[t].mem
    BY <2>1, <2>3 DEF Adding
  <2> QED
    BY <1>1, <1>2, <1>4, <2>2, <2>3, <2>4, <2>6, <2>7, <2>8, AddingStepInv
<1>6. CASE ~(static_top + Over > STATIC_MAX)
  <2>1. PICK x : x = <<AlignTo(static_top, META_ALIGN), META>>
    OBVIOUS
  <2>2. Made(t, "static") /\ static_live' = static_live \cup {x}
    BY <1>6, <2>1 DEF MetaAdd, Over
  <2>3. /\ x[1] \in Nat /\ x[2] = META /\ static_top <= x[1] /\ x[1] + x[2] <= static_top'
        /\ x \in Nat \X {META} /\ x[1] + x[2] <= STATIC_MAX
    <3>1. META_ALIGN \in Nat \ {0}
      BY Constants
    <3>2. PICK s : s = AlignTo(static_top, META_ALIGN)
      OBVIOUS
    <3>3. s \in Nat /\ static_top <= s /\ s <= static_top + META_ALIGN - 1
      BY <1>4, <3>1, <3>2, AlignToBounds
    <3>4. x = <<s, META>> /\ META \in Nat
      BY <2>1, <3>2, Constants
    <3> QED
      BY <1>1, <1>4, <1>6, <3>1, <3>3, <3>4 DEF Over
  <2>4. \A w \in Users : w # t => user'[w] = user[w]
    BY <1>3, <2>2 DEF Made, ArenasTypeOK
  <2>5. user'[t].pc = "add"
    BY <1>2, <1>3, <2>2 DEF Made, ArenasTypeOK, Call
  <2>6. ASSUME NEW w \in Users, user'[w].pc = "metaundo" PROVE FALSE
    <3>1. w # t /\ user[w].pc = "metaundo"
      BY <2>4, <2>5, <2>6
    <3>2. user[w].toplow + Over > STATIC_MAX /\ user[w].toplow + Over <= static_top /\ user[w].toplow \in Nat
      BY <1>3, <3>1, StaticFacts DEF StaticOK
    <3> QED
      BY <1>4, <1>6, <3>2
  <2>7. \A y \in static_live : y[1] + y[2] <= static_top /\ y[1] + y[2] <= STATIC_MAX /\ y[1] + y[2] \in Nat
    BY <1>3, StaticFacts DEF StaticOK
  <2>8. StaticOK'
    <3>1. \A y \in static_live' : y[1] + y[2] <= STATIC_MAX /\ y[1] + y[2] <= static_top'
      BY <1>1, <1>4, <2>2, <2>3, <2>7
    <3>2. \A y, z \in static_live' : y # z => Beside(y[1], y[2], z[1], z[2])
      BY <1>3, <1>4, <2>2, <2>3, <2>7 DEF StaticOK, Beside
    <3> QED
      BY <2>6, <3>1, <3>2 DEF StaticOK, Beside, Over
  <2>9. static_live' \subseteq Nat \X {META}
    BY <1>3, <2>2, <2>3 DEF ArenasTypeOK
  <2> QED
    BY <1>1, <1>2, <1>4, <2>2, <2>8, <2>9, MadeInv
<1> QED
  BY <1>5, <1>6

LEMMA MetaUndoInv ==
  ASSUME ArenasInv, NEW t \in Users, MetaUndo(t)
  PROVE  ArenasInv'
<1>1. PICK u, old, v : u = user[t] /\ old = u.toplow /\ v = [u EXCEPT !.pc = "metaos", !.toplow = 0]
  OBVIOUS
<1>2. /\ u.pc = "metaundo" /\ static_top' = (IF static_top = old + Over THEN old ELSE static_top)
      /\ user' = [user EXCEPT ![t] = v]
      /\ UNCHANGED <<arenas, arena_count, made, static_live, mapped, alive, ended>>
  <2>1. old + META + META_ALIGN - 1 = old + Over
    <3>1. ArenasTypeOK /\ user[t].pc = "metaundo"
      BY DEF ArenasInv, MetaUndo
    <3>2. old \in Nat
      BY <1>1, <3>1, StaticFacts
    <3> QED
      BY <3>2, Constants DEF Over
  <2> QED
    BY <1>1, <2>1 DEF MetaUndo
<1>3. ~ended /\ u \in Call /\ CallOK(u) /\ u.pc \in Adding
  BY <1>1, <1>2, InCall DEF UserPcs, Adding
<1>4. ArenasTypeOK /\ StaticOK
  BY DEF ArenasInv
<1>5. /\ Over \in Nat /\ Over > 0 /\ STATIC_MAX \in Nat /\ static_top \in Nat /\ old \in Nat /\ static_top' \in Nat
      /\ old + Over <= static_top /\ \A x \in static_live : x[1] + x[2] <= old
  BY <1>1, <1>2, <1>4, Constants, StaticFacts DEF StaticOK
<1>6. v \in Call /\ v.pc = "metaos" /\ v.op = u.op /\ v.request = u.request /\ v.mem = u.mem
  <2>1. 0 \in Nat /\ "metaos" \in UserPcs
    BY DEF UserPcs, Adding
  <2> QED
    BY <1>1, <1>3, <2>1 DEF Call
<1>7. CallOK(v)'
  BY <1>2, <1>3, <1>6 DEF CallOK
<1>8. user'[t] = v /\ \A w \in Users : w # t => user'[w] = user[w]
  <2>1. UserStep(t, v)
    BY <1>2, <1>6 DEF UserStep
  <2> QED
    BY <1>4, <2>1, UserStepType
<1>9. StaticOK'
  <2>1. \A x \in static_live' : x[1] + x[2] <= STATIC_MAX /\ x[1] + x[2] <= static_top'
    BY <1>2, <1>4, <1>5, StaticFacts DEF StaticOK
  <2>2. \A x, y \in static_live' : x # y => Beside(x[1], x[2], y[1], y[2])
    BY <1>2, <1>4 DEF StaticOK
  <2>3. ASSUME NEW w \in Users, user'[w].pc = "metaundo"
        PROVE  /\ user'[w].toplow + Over > STATIC_MAX /\ user'[w].toplow + Over <= static_top'
               /\ \A x \in static_live' : x[1] + x[2] <= user'[w].toplow
    <3>1. w # t /\ user'[w] = user[w] /\ user[w].pc = "metaundo" /\ user[w].toplow \in Nat
      <4>1. w # t
        BY <1>6, <1>8, <2>3
      <4> QED
        BY <1>4, <1>8, <2>3, <4>1, StaticFacts
    <3>2. /\ user[w].toplow + Over > STATIC_MAX /\ user[w].toplow + Over <= static_top
          /\ \A x \in static_live : x[1] + x[2] <= user[w].toplow
      BY <1>4, <3>1 DEF StaticOK
    <3>3. user[w].toplow + Over <= old \/ old + Over <= user[w].toplow
      BY <1>1, <1>2, <1>4, <3>1 DEF StaticOK
    <3> QED
      BY <1>2, <1>5, <3>1, <3>2, <3>3
  <2>4. ASSUME NEW w \in Users, NEW z \in Users, w # z, user'[w].pc = "metaundo", user'[z].pc = "metaundo"
        PROVE  user'[w].toplow + Over <= user'[z].toplow \/ user'[z].toplow + Over <= user'[w].toplow
    <3>1. w # t /\ z # t
      BY <1>6, <1>8, <2>4
    <3> QED
      BY <1>4, <1>8, <2>4, <3>1 DEF StaticOK
  <2> QED
    BY <2>1, <2>2, <2>3, <2>4 DEF StaticOK, Beside, Over
<1>10. MadeGrows(Len(made), Len(made)) /\ static_live' \subseteq Nat \X {META}
  BY <1>2, <1>4, MadeStays DEF ArenasTypeOK
<1>11. v.pc \in Adding /\ v.pc \notin {"add", "store"} /\ v.mem = user[t].mem /\ user[t].pc \in Adding
  BY <1>1, <1>3, <1>6 DEF Adding
<1> QED
  BY <1>2, <1>3, <1>5, <1>6, <1>7, <1>9, <1>10, <1>11, AddingStepInv

LEMMA MetaOsInv ==
  ASSUME ArenasInv, NEW t \in Users, MetaOs(t)
  PROVE  ArenasInv'
<1>1. user[t].pc \in Adding /\ UNCHANGED <<arenas, arena_count, memoryVars, alive, ended>>
  BY DEF MetaOs, Adding
<1>2. CASE Made(t, "os")
  <2>1. ArenasTypeOK /\ StaticOK /\ UNCHANGED <<static_top, static_live, mapped>>
    BY <1>1 DEF ArenasInv, memoryVars
  <2>2. ~ended /\ user[t] \in Call
    BY <1>1, InCall DEF UserPcs
  <2>3. PICK v : v = [user[t] EXCEPT !.pc = "add", !.handle = Len(made) + 1] /\ UserStep(t, v) /\ v.pc # "metaundo"
    <3>1. "add" \in UserPcs /\ Len(made) + 1 \in Nat
      BY <2>1 DEF UserPcs, Adding, ArenasTypeOK
    <3>2. [user[t] EXCEPT !.pc = "add", !.handle = Len(made) + 1] \in Call
      BY <2>2, <3>1 DEF Call
    <3>3. [user[t] EXCEPT !.pc = "add", !.handle = Len(made) + 1].pc = "add"
      BY <2>2 DEF Call
    <3> QED
      BY <1>2, <3>2, <3>3 DEF Made, UserStep
  <2>4. StaticOK'
    BY <2>1, <2>3, StaticStays
  <2>5. static_top' \in Nat /\ static_live' \subseteq Nat \X {META}
    BY <2>1 DEF ArenasTypeOK
  <2> QED
    BY <1>1, <1>2, <2>1, <2>4, <2>5, MadeInv
<1>3. CASE UserTo(t, "release") /\ UNCHANGED made
  BY <1>1, <1>3, AddingOn
<1> QED
  BY <1>2, <1>3 DEF MetaOs

-----------------------------------------------------------------------------
(* Blocks of the arenas: claims and frees.                                  *)

LEMMA ArenaFields ==
  ASSUME NEW a \in MadeArena
  PROVE  /\ a.start \in Nat /\ a.size \in Nat \ {0} /\ a.blocks \in Nat /\ a.inuse \in BlockSets /\ a.id \in ArenaIds
         /\ a.exclusive \in BOOLEAN /\ a.large \in BOOLEAN /\ a.node \in ArenaNodes /\ a.os \in BOOLEAN
  BY DEF MadeArena

LEMMA ArenaIs ==
  ASSUME ArenasTypeOK, TableOK, NEW i \in TableEntries, arenas[i] # 0
  PROVE  /\ i < arena_count /\ arenas[i] \in Handles /\ made[arenas[i]].id = i + 1 /\ made[arenas[i]] \in MadeArena
         /\ \A h \in Handles : made[h] \in MadeArena
<1>1. \A h \in Handles : made[h] \in MadeArena
  BY DEF ArenasTypeOK, Handles
<1> QED
  BY <1>1 DEF TableOK

\* Only the blocks in use of the arena with structure h change.
InuseNow(h, s) ==
  /\ made' \in Seq(MadeArena) /\ Handles' = Handles /\ made'[h].inuse = s
  /\ \A g \in Handles : /\ made'[g].start = made[g].start /\ made'[g].size = made[g].size
                        /\ made'[g].blocks = made[g].blocks /\ made'[g].exclusive = made[g].exclusive
                        /\ made'[g].large = made[g].large /\ made'[g].os = made[g].os /\ made'[g].id = made[g].id
                        /\ g # h => made'[g].inuse = made[g].inuse

LEMMA InuseChange ==
  ASSUME made \in Seq(MadeArena), NEW h \in Handles, NEW s \in BlockSets, made' = [made EXCEPT ![h].inuse = s]
  PROVE  InuseNow(h, s)
<1>1. PICK a : a = made[h] /\ a \in MadeArena
  BY DEF Handles
<1>2. PICK b : b = [a EXCEPT !.inuse = s]
  OBVIOUS
<1>3. /\ b \in MadeArena /\ b.inuse = s /\ b.start = a.start /\ b.size = a.size /\ b.blocks = a.blocks
      /\ b.exclusive = a.exclusive /\ b.large = a.large /\ b.os = a.os /\ b.id = a.id
  BY <1>1, <1>2 DEF MadeArena
<1>4. made' = [made EXCEPT ![h] = b]
  BY <1>1, <1>2
<1>5. PICK n : n = Len(made) /\ n \in Nat /\ Handles = 1 .. n /\ made \in [1 .. n -> MadeArena]
  BY DEF Handles
<1>6. made' \in [1 .. n -> MadeArena] /\ made'[h] = b /\ \A g \in 1 .. n : g # h => made'[g] = made[g]
  BY <1>3, <1>4, <1>5
<1>7. made' \in Seq(MadeArena) /\ Len(made') = n
  BY <1>5, <1>6
<1>8. Handles' = Handles
  BY <1>5, <1>7 DEF Handles
<1> QED
  BY <1>1, <1>3, <1>5, <1>6, <1>7, <1>8 DEF InuseNow

\* A step that changes the blocks in use of one arena and the memory of clients in it.
LEMMA InuseStepInv ==
  ASSUME ArenasInv, ~ended, NEW t \in Users, UserStep(t, UserIdle), user[t].pc \notin Adding,
         NEW h \in Handles, NEW s, InuseNow(h, s),
         alive' \subseteq ArenaPiece \cup OsPiece, \A p : p.kind = "os" => (p \in alive' <=> p \in alive),
         BlocksOK', UNCHANGED <<arenas, arena_count, memoryVars, ended>>
  PROVE  ArenasInv'
<1>1. ArenasTypeOK /\ StaticOK /\ TableOK /\ CallsOK /\ MemoryOK
  BY InvIs
<1>2. UNCHANGED <<arenas, arena_count, static_top, static_live, mapped, ended>>
  BY DEF memoryVars
<1>3. ArenasTypeOK'
  BY <1>1, <1>2, UserStepType DEF ArenasTypeOK, InuseNow
<1>4. UserIdle.pc = "idle" /\ "idle" \notin Adding \cup {"metaundo", "add", "store"}
  BY DEF UserIdle, Adding
<1>5. StaticOK'
  BY <1>1, <1>2, <1>4, StaticStays
<1>6. \A i \in TableEntries : arenas[i] # 0 => arenas[i] \in Handles
  BY <1>1 DEF TableOK
<1>7. TableOK'
  BY <1>1, <1>2 DEF TableOK, InuseNow
<1>8. CallsOK'
  <2>1. \A u \in Users, c \in Call : u # t /\ c = user[u] /\ CallOK(c) => CallOK(c)'
    BY <1>2 DEF CallOK, InuseNow
  <2> QED
    BY <1>1, <1>4, <2>1, CallsStay
<1>9. MemoryOK'
  <2>1. user \in [Users -> {UserIdle} \cup Call] /\ user' = [user EXCEPT ![t] = UserIdle]
    BY <1>1 DEF ArenasTypeOK, UserStep
  <2>2. \A i \in TableEntries : arenas[i] # 0 => /\ made'[arenas[i]].start = made[arenas[i]].start
                                                 /\ made'[arenas[i]].size = made[arenas[i]].size
                                                 /\ made'[arenas[i]].os = made[arenas[i]].os
    BY <1>6 DEF InuseNow
  <2>3. Spans' = Spans
    BY <1>2, <1>4, <2>1, <2>2, SpansSame
  <2> QED
    BY <1>1, <1>2, <2>3, MemoryStays
<1> QED
  BY <1>2, <1>3, <1>5, <1>7, <1>8, <1>9, InvNext

LEMMA PieceFields ==
  ASSUME NEW p \in ArenaPiece
  PROVE  /\ p.kind = "arena" /\ p.id \in Nat /\ p.id >= 1 /\ p.block \in Nat /\ p.req \in Nat /\ p.large \in BOOLEAN
         /\ p.start \in Nat /\ p.size \in Nat /\ p.size >= 1 /\ p.size \div BLOCK \in Nat
<1>1. p.size \in Nat /\ p.size >= 1
  BY DEF ArenaPiece
<1>2. BLOCK \in Nat \ {0}
  BY Constants
<1>3. p.size \div BLOCK \in Nat
  BY <1>1, <1>2, Quotient
<1> QED
  BY <1>1, <1>3 DEF ArenaPiece

\* Where a piece of an arena is.
LEMMA PieceIs ==
  ASSUME ArenasTypeOK, TableOK, PiecesHere, NEW p \in alive, p.kind = "arena"
  PROVE  /\ p \in ArenaPiece /\ PieceOK(p) /\ p.id - 1 \in TableEntries /\ arenas[p.id - 1] # 0
         /\ arenas[p.id - 1] \in Handles /\ made[arenas[p.id - 1]].id = p.id
<1>1. p \in ArenaPiece
  BY DEF ArenasTypeOK, OsPiece
<1>2. PieceOK(p)
  BY DEF PiecesHere
<1>3. p.id \in Nat /\ p.id >= 1 /\ p.id <= arena_count
  BY <1>1, <1>2, PieceFields DEF PieceOK
<1>4. PICK i : i = p.id - 1 /\ i \in TableEntries
  BY <1>3, Constants DEF TableEntries, ArenasTypeOK, ArenaIds
<1>5. arenas[i] # 0
  BY <1>2, <1>4 DEF PieceOK
<1>6. arenas[i] \in Handles /\ made[arenas[i]].id = i + 1
  BY <1>4, <1>5, ArenaIs
<1> QED
  BY <1>1, <1>2, <1>3, <1>4, <1>5, <1>6

\* The claim of a range: what the new piece is.
LEMMA ClaimIs ==
  ASSUME NEW a \in MadeArena, NEW n \in Nat, n >= 1, NEW k \in FreeRanges(a, n), NEW r \in AllocRequests, NEW p,
         a.id >= 1,
         p = [kind |-> "arena", id |-> a.id, block |-> k, req |-> r.req, large |-> r.large,
              start |-> BlockStart(a, k), size |-> n * BLOCK]
  PROVE  /\ p \in ArenaPiece /\ p.kind = "arena" /\ p.id = a.id /\ p.req = r.req /\ p.large = r.large /\ p.block = k
         /\ k \in Nat /\ k + n <= a.blocks
         /\ p.start = BlockStart(a, k) /\ p.size = n * BLOCK /\ p.size \div BLOCK = n /\ Blocks(p) = k .. k + n - 1
         /\ k .. k + n - 1 \in BlockSets /\ (k .. k + n - 1) \cap a.inuse = {}
<1>1. k \in 0 .. a.blocks - n /\ (k .. k + n - 1) \cap a.inuse = {}
  BY DEF FreeRanges
<1>2. /\ a.start \in Nat /\ a.blocks \in Nat /\ a.id \in Nat \ {0} /\ r.req \in Nat /\ r.large \in BOOLEAN
      /\ BLOCK \in Nat \ {0}
  <2>1. a.id \in Nat
    BY ArenaFields, Constants DEF ArenaIds
  <2> QED
    BY <2>1, ArenaFields, AllocRequestIs, Constants
<1>3. k \in Nat /\ k + n <= a.blocks
  BY <1>1, <1>2
<1>4. (n * BLOCK) \div BLOCK = n
  BY <1>2, ExactQuotient
<1>5. PICK s : s = n * BLOCK /\ s \in Nat \ {0}
  BY <1>2
<1>6. PICK w : w = BlockStart(a, k) /\ w \in Nat
  <2>1. k * BLOCK \in Nat
    BY <1>2, <1>3
  <2> QED
    BY <1>2, <2>1 DEF BlockStart
<1>7. p = [kind |-> "arena", id |-> a.id, block |-> k, req |-> r.req, large |-> r.large, start |-> w, size |-> s]
  BY <1>5, <1>6
<1>8. /\ p \in ArenaPiece /\ p.kind = "arena" /\ p.id = a.id /\ p.req = r.req /\ p.large = r.large /\ p.block = k
      /\ p.start = w /\ p.size = s
  BY <1>2, <1>3, <1>5, <1>6, <1>7 DEF ArenaPiece
<1>9. p.size \div BLOCK = n /\ Blocks(p) = k .. k + n - 1
  BY <1>4, <1>5, <1>8 DEF Blocks
<1>10. k .. k + n - 1 \in BlockSets
  BY <1>3 DEF BlockSets
<1> QED
  BY <1>1, <1>3, <1>5, <1>6, <1>8, <1>9, <1>10

\* The pieces that were there keep their blocks when blocks are claimed, or when the
\* blocks of another piece are freed.
LEMMA PieceStays ==
  ASSUME ArenasTypeOK, TableOK, PiecesHere, NEW p \in alive, p.kind = "arena",
         NEW h \in Handles, NEW s, InuseNow(h, s), arenas[p.id - 1] = h => Blocks(p) \subseteq s,
         UNCHANGED <<arenas, arena_count>>
  PROVE  PieceOK(p)'
<1>1. PICK g : g = arenas[p.id - 1] /\ g \in Handles /\ g # 0 /\ PieceOK(p)
  BY PieceIs
<1>2. /\ p.id <= arena_count /\ p.start = BlockStart(made[g], p.block)
      /\ p.size = (p.size \div BLOCK) * BLOCK /\ p.block + (p.size \div BLOCK) <= made[g].blocks
      /\ Blocks(p) \subseteq made[g].inuse
      /\ made[g].exclusive => p.req = p.id
      /\ made[g].large => p.large
  BY <1>1 DEF PieceOK
<1>3. /\ made'[g].start = made[g].start /\ made'[g].blocks = made[g].blocks /\ made'[g].exclusive = made[g].exclusive
      /\ made'[g].large = made[g].large /\ (g # h => made'[g].inuse = made[g].inuse) /\ made'[h].inuse = s
  BY <1>1 DEF InuseNow
<1>4. Blocks(p) \subseteq made'[g].inuse
  BY <1>1, <1>2, <1>3
<1>5. p.start = BlockStart(made'[g], p.block)
  BY <1>2, <1>3 DEF BlockStart
<1>6. arenas'[p.id - 1] = g /\ arena_count' = arena_count
  BY <1>1
<1> QED
  BY <1>1, <1>2, <1>3, <1>4, <1>5, <1>6 DEF PieceOK, BlockStart, Blocks

LEMMA ClaimInv ==
  ASSUME ArenasInv, NEW t \in Users, user[t].pc = "scan", NEW h, h = arenas[user[t].i], h # 0,
         Suitable(made[h], user[t]), NEW k \in FreeRanges(made[h], user[t].request.blocks),
         made' = [made EXCEPT ![h].inuse = @ \cup (k .. k + user[t].request.blocks - 1)],
         alive' = alive \cup {[kind |-> "arena", id |-> made[h].id, block |-> k, req |-> user[t].request.req,
                               large |-> user[t].request.large,
                               start |-> BlockStart(made[h], k), size |-> user[t].request.blocks * BLOCK]},
         user' = [user EXCEPT ![t] = UserIdle],
         UNCHANGED <<arenas, arena_count, memoryVars, ended>>
  PROVE  ArenasInv'
<1>1. PICK u, i, r, n : u = user[t] /\ i = u.i /\ r = u.request /\ n = r.blocks
  OBVIOUS
<1>2. ~ended /\ u \in Call /\ CallOK(u)
  BY <1>1, InCall DEF UserPcs
<1>3. ArenasTypeOK /\ TableOK /\ CallsOK /\ MemoryOK /\ PiecesHere /\ BlocksApart
  BY <1>2, InvIs DEF BlocksOK
<1>4. r \in AllocRequests /\ i < arena_count /\ i \in Nat
  BY <1>1, <1>2, CallFields DEF CallOK
<1>5. n \in Nat /\ n >= 1
  BY <1>1, <1>4, AllocRequestIs
<1>6. i \in TableEntries /\ h = arenas[i] /\ arena_count \in Nat
  BY <1>1, <1>3, <1>4, Constants DEF ArenasTypeOK, ArenaIds, TableEntries
<1>7. PICK a : a = made[h] /\ a \in MadeArena /\ a.id = i + 1 /\ h \in Handles
  BY <1>3, <1>6, ArenaIs
<1>8. PICK p : /\ alive' = alive \cup {p}
               /\ p = [kind |-> "arena", id |-> a.id, block |-> k, req |-> r.req, large |-> r.large,
                       start |-> BlockStart(a, k), size |-> n * BLOCK]
  BY <1>1, <1>7
<1>9. /\ p \in ArenaPiece /\ p.kind = "arena" /\ p.id = a.id /\ p.req = r.req /\ p.large = r.large /\ p.block = k
      /\ k \in Nat /\ k + n <= a.blocks
      /\ p.start = BlockStart(a, k) /\ p.size = n * BLOCK /\ p.size \div BLOCK = n /\ Blocks(p) = k .. k + n - 1
      /\ k .. k + n - 1 \in BlockSets /\ (k .. k + n - 1) \cap a.inuse = {}
  <2>1. a.id >= 1 /\ k \in FreeRanges(a, n)
    BY <1>1, <1>4, <1>7
  <2> QED
    BY <1>4, <1>5, <1>7, <1>8, <2>1, ClaimIs
<1>10. PICK s : s = a.inuse \cup (k .. k + n - 1) /\ s \in BlockSets
  <2>1. a.inuse \in BlockSets /\ k .. k + n - 1 \in BlockSets
    BY <1>7, <1>9, ArenaFields
  <2> QED
    BY <2>1 DEF BlockSets
<1>11. InuseNow(h, s)
  <2>1. made' = [made EXCEPT ![h].inuse = s]
    BY <1>1, <1>7, <1>10
  <2> QED
    BY <1>3, <1>7, <1>10, <2>1, InuseChange DEF ArenasTypeOK
<1>12. UNCHANGED <<arenas, arena_count>>
  OBVIOUS
<1>13. PieceOK(p)'
  <2>1. arenas'[p.id - 1] = h /\ p.id <= arena_count'
    BY <1>4, <1>6, <1>7, <1>9
  <2>2. /\ made'[h].start = a.start /\ made'[h].blocks = a.blocks /\ made'[h].exclusive = a.exclusive
        /\ made'[h].large = a.large /\ made'[h].inuse = s
    BY <1>7, <1>11 DEF InuseNow
  <2>3. p.start = BlockStart(made'[h], p.block)
    BY <1>9, <2>2 DEF BlockStart
  <2>4. Blocks(p) \subseteq made'[h].inuse
    BY <1>9, <1>10, <2>2
  <2>5. (a.large => r.large) /\ (a.exclusive => a.id = r.req)
    BY <1>1, <1>7 DEF Suitable
  <2>6. /\ p.size = (p.size \div BLOCK) * BLOCK /\ p.block + (p.size \div BLOCK) <= made'[h].blocks
        /\ made'[h].exclusive => p.req = p.id
        /\ made'[h].large => p.large
    BY <1>9, <2>2, <2>5
  <2> QED
    BY <2>1, <2>3, <2>4, <2>6 DEF PieceOK, BlockStart, Blocks
<1>14. ASSUME NEW q \in alive, q.kind = "arena"
       PROVE  PieceOK(q)' /\ (q.id = p.id => Blocks(q) \cap Blocks(p) = {})
  <2>1. PICK g : g = arenas[q.id - 1] /\ PieceOK(q) /\ made[g].id = q.id /\ g \in Handles
    BY <1>3, <1>14, PieceIs
  <2>2. Blocks(q) \subseteq made[g].inuse
    BY <2>1 DEF PieceOK
  <2>3. g = h => Blocks(q) \subseteq s
    BY <1>7, <1>10, <2>2
  <2>4. PieceOK(q)'
    BY <1>3, <1>7, <1>11, <1>12, <1>14, <2>1, <2>3, PieceStays
  <2>5. ASSUME q.id = p.id PROVE Blocks(q) \cap Blocks(p) = {}
    <3>1. q.id - 1 = i
      BY <1>4, <1>7, <1>9, <2>5
    <3>2. g = h
      BY <1>6, <2>1, <3>1
    <3> QED
      BY <1>7, <1>9, <2>2, <3>2
  <2> QED
    BY <2>4, <2>5
<1>15. BlocksOK'
  <2>1. \A q \in alive' : q.kind = "arena" => PieceOK(q)'
    BY <1>8, <1>13, <1>14
  <2>2. PiecesHere'
    BY <2>1 DEF PiecesHere
  <2>3. \A q \in alive : q.kind = "arena" /\ q.id = p.id => Blocks(q) \cap Blocks(p) = {}
    BY <1>14
  <2>4. ASSUME NEW q \in alive', NEW w \in alive', q.kind = "arena", w.kind = "arena", q # w, q.id = w.id
        PROVE  Blocks(q) \cap Blocks(w) = {}
    <3>1. CASE q = p
      <4>1. w \in alive /\ Blocks(w) \cap Blocks(p) = {}
        BY <1>8, <2>3, <2>4, <3>1
      <4> QED
        BY <3>1, <4>1
    <3>2. CASE w = p
      <4>1. q \in alive /\ Blocks(q) \cap Blocks(p) = {}
        BY <1>8, <2>3, <2>4, <3>2
      <4> QED
        BY <3>2, <4>1
    <3>3. CASE q # p /\ w # p
      BY <1>3, <1>8, <2>4, <3>3 DEF BlocksApart
    <3> QED
      BY <3>1, <3>2, <3>3
  <2>5. BlocksApart'
    BY <2>4 DEF BlocksApart, Blocks
  <2> QED
    BY <2>2, <2>5 DEF BlocksOK
<1>16. alive' \subseteq ArenaPiece \cup OsPiece
  BY <1>3, <1>8, <1>9 DEF ArenasTypeOK
<1>17. \A q : q.kind = "os" => (q \in alive' <=> q \in alive)
  BY <1>8, <1>9
<1>18. UserStep(t, UserIdle) /\ user[t].pc \notin Adding
  BY DEF UserStep, Adding
<1> QED
  BY <1>2, <1>7, <1>11, <1>15, <1>16, <1>17, <1>18, InuseStepInv

LEMMA TryArenaInv ==
  ASSUME ArenasInv, NEW t \in Users, TryArena(t)
  PROVE  ArenasInv'
<1>0. PICK u, h, n, ranges :
        /\ u = user[t] /\ h = arenas[u.i] /\ n = u.request.blocks
        /\ ranges = (IF h # 0 /\ Suitable(made[h], u) THEN FreeRanges(made[h], n) ELSE {})
  OBVIOUS
<1>1. u.pc = "scan" /\ UNCHANGED <<arenas, arena_count, memoryVars, ended>>
  BY <1>0 DEF TryArena
<1>2. CASE ranges # {}
  <2>1. h # 0 /\ Suitable(made[h], u) /\ ranges = FreeRanges(made[h], n)
    BY <1>0, <1>2
  <2>2. PICK k \in ranges :
          /\ made' = [made EXCEPT ![h].inuse = @ \cup (k .. k + n - 1)]
          /\ alive' = alive \cup {[kind |-> "arena", id |-> made[h].id, block |-> k, req |-> u.request.req,
                                   large |-> u.request.large,
                                   start |-> BlockStart(made[h], k), size |-> n * BLOCK]}
          /\ user' = [user EXCEPT ![t] = UserIdle]
    BY <1>0, <1>2 DEF TryArena
  <2> QED
    BY <1>0, <1>1, <2>1, <2>2, ClaimInv
<1>3. CASE ~(ranges # {})
  <2>1. PICK v : v = IF u.only THEN [CallRecord("alloc", u.request) EXCEPT !.pc = "os"]
                     ELSE IF u.i + 1 < u.max THEN [u EXCEPT !.i = @ + 1]
                     ELSE IF u.match /\ u.request.node # AnyNode THEN [u EXCEPT !.i = 0, !.match = FALSE]
                     ELSE [CallRecord("alloc", u.request) EXCEPT !.pc = "reserve"]
    OBVIOUS
  <2>2. user' = [user EXCEPT ![t] = v] /\ UNCHANGED <<made, alive>>
    BY <1>0, <1>3, <2>1 DEF TryArena
  <2>3. ~ended /\ u \in Call /\ CallOK(u) /\ u.pc \notin Adding
    BY <1>0, <1>1, InCall DEF UserPcs, Adding
  <2>4. /\ u.request \in AllocRequests /\ u.op = "alloc" /\ u.i < arena_count /\ (~u.only => u.max <= arena_count)
        /\ u.i \in Nat /\ u.max \in Nat /\ u.only \in BOOLEAN
    BY <1>1, <2>3, CallFields DEF CallOK
  <2>5. arena_count \in Nat
    BY Constants DEF ArenasInv, ArenasTypeOK, ArenaIds
  <2>6. /\ v \in Call /\ CallOK(v) /\ v.pc \notin {"metaundo", "add", "store"} /\ v.pc \notin Adding
    <3>1. CASE u.only
      <4>1. v = [CallRecord("alloc", u.request) EXCEPT !.pc = "os"]
        BY <2>1, <3>1
      <4> QED
        BY <2>4, <4>1, OsCallIs
    <3>2. CASE ~u.only /\ u.i + 1 < u.max
      <4>1. v = [u EXCEPT !.i = u.i + 1] /\ u.i + 1 \in Nat
        BY <2>1, <2>4, <3>2
      <4>2. v \in Call /\ v.pc = "scan" /\ v.op = "alloc" /\ v.request = u.request /\ v.i = u.i + 1 /\ v.max = u.max
        BY <1>1, <2>3, <2>4, <4>1 DEF Call
      <4>3. v.i < arena_count /\ v.max <= arena_count
        BY <2>4, <2>5, <3>2, <4>2
      <4> QED
        BY <2>4, <4>2, <4>3 DEF CallOK, Adding
    <3>3. CASE ~u.only /\ ~(u.i + 1 < u.max) /\ u.match /\ u.request.node # AnyNode
      <4>1. v = [u EXCEPT !.i = 0, !.match = FALSE]
        BY <2>1, <3>3
      <4>2. v \in Call /\ v.pc = "scan" /\ v.op = "alloc" /\ v.request = u.request /\ v.i = 0 /\ v.max = u.max
        BY <1>1, <2>3, <2>4, <4>1 DEF Call
      <4>3. v.i < arena_count /\ v.max <= arena_count
        BY <2>4, <2>5, <3>3, <4>2
      <4> QED
        BY <2>4, <4>2, <4>3 DEF CallOK, Adding
    <3>4. CASE ~u.only /\ ~(u.i + 1 < u.max) /\ ~(u.match /\ u.request.node # AnyNode)
      <4>1. v = [CallRecord("alloc", u.request) EXCEPT !.pc = "reserve"]
        BY <2>1, <3>4
      <4> QED
        BY <2>4, <4>1, OsCallIs
    <3> QED
      BY <3>1, <3>2, <3>3, <3>4
  <2>7. UserStep(t, v) /\ user[t].pc \notin Adding
    BY <1>0, <2>2, <2>3, <2>6 DEF UserStep
  <2> QED
    BY <1>1, <2>2, <2>3, <2>6, <2>7, UserStepInv
<1> QED
  BY <1>2, <1>3

LEMMA FreeArenaInv ==
  ASSUME ArenasInv, NEW t \in Users, NEW p \in alive, FreeMemory(t, p), p.kind = "arena"
  PROVE  ArenasInv'
<1>1. /\ ~ended /\ user[t] = UserIdle /\ alive' = alive \ {p}
      /\ UNCHANGED <<arenas, arena_count, memoryVars, user, ended>>
  BY DEF FreeMemory, memoryVars
<1>2. ArenasTypeOK /\ TableOK /\ CallsOK /\ MemoryOK /\ PiecesHere /\ BlocksApart
  BY <1>1, InvIs DEF BlocksOK
<1>3. PICK h : /\ h = arenas[p.id - 1] /\ h # 0 /\ h \in Handles /\ made[h].id = p.id /\ PieceOK(p)
               /\ p \in ArenaPiece
  BY <1>2, PieceIs
<1>4. PICK s : s = made[h].inuse \ Blocks(p) /\ s \in BlockSets
  <2>1. made[h] \in MadeArena
    BY <1>2, <1>3 DEF ArenasTypeOK, Handles
  <2>2. made[h].inuse \in BlockSets
    BY <2>1, ArenaFields
  <2> QED
    BY <2>2 DEF BlockSets
<1>5. made' = [made EXCEPT ![h].inuse = s]
  BY <1>3, <1>4 DEF FreeMemory, Blocks
<1>6. InuseNow(h, s)
  BY <1>2, <1>3, <1>4, <1>5, InuseChange DEF ArenasTypeOK
<1>7. ASSUME NEW q \in alive', q.kind = "arena" PROVE PieceOK(q)'
  <2>1. q \in alive /\ q # p
    BY <1>1, <1>7
  <2>2. PICK g : g = arenas[q.id - 1] /\ PieceOK(q) /\ made[g].id = q.id
    BY <1>2, <1>7, <2>1, PieceIs
  <2>3. ASSUME g = h PROVE Blocks(q) \subseteq s
    <3>1. q.id = p.id
      BY <1>3, <2>2, <2>3
    <3>2. Blocks(q) \cap Blocks(p) = {}
      BY <1>2, <1>7, <2>1, <3>1 DEF BlocksApart
    <3>3. Blocks(q) \subseteq made[h].inuse
      BY <2>2, <2>3 DEF PieceOK
    <3> QED
      BY <1>4, <3>2, <3>3
  <2>4. UNCHANGED <<arenas, arena_count>>
    BY <1>1
  <2> QED
    BY <1>2, <1>3, <1>6, <1>7, <2>1, <2>2, <2>3, <2>4, PieceStays
<1>8. BlocksOK'
  <2>1. \A q \in alive' : q.kind = "arena" => PieceOK(q)'
    BY <1>7
  <2>2. PiecesHere'
    BY <2>1 DEF PiecesHere
  <2>3. BlocksApart'
    BY <1>1, <1>2 DEF BlocksApart, Blocks
  <2> QED
    BY <2>2, <2>3 DEF BlocksOK
<1>9. alive' \subseteq ArenaPiece \cup OsPiece /\ \A q : q.kind = "os" => (q \in alive' <=> q \in alive)
  BY <1>1, <1>2, <1>3, PieceFields DEF ArenasTypeOK
<1>10. UserStep(t, UserIdle) /\ user[t].pc \notin Adding
  <2>1. user' = [user EXCEPT ![t] = UserIdle]
    BY <1>1, <1>2 DEF ArenasTypeOK
  <2>2. user[t].pc = "idle"
    BY <1>1 DEF UserIdle
  <2> QED
    BY <2>1, <2>2 DEF UserStep, Adding
<1> QED
  BY <1>1, <1>3, <1>6, <1>8, <1>9, <1>10, InuseStepInv

-----------------------------------------------------------------------------
(* Memory that is held: mapped, given back, passed on.                      *)

LEMMA SpanTypes ==
  ASSUME ArenasTypeOK, TableOK, CallsOK
  PROVE  \A x \in Spans : x[3] \in Nat /\ x[4] \in Nat /\ x[4] >= 1 /\ x[5] \in BOOLEAN
<1>1. ASSUME NEW i \in TableEntries, arenas[i] # 0, NEW x, x = ArenaSpan(i)
      PROVE  x[3] \in Nat /\ x[4] \in Nat /\ x[4] >= 1 /\ x[5] \in BOOLEAN
  <2>1. PICK a : a = made[arenas[i]] /\ a \in MadeArena
    BY <1>1, ArenaIs
  <2>2. a.start \in Nat /\ a.size \in Nat \ {0} /\ a.os \in BOOLEAN
    BY <2>1, ArenaFields
  <2> QED
    BY <1>1, <2>1, <2>2 DEF ArenaSpan
<1>2. ASSUME NEW t \in Users, user[t].pc \in Adding, NEW x, x = CallSpan(t)
      PROVE  x[3] \in Nat /\ x[4] \in Nat /\ x[4] >= 1 /\ x[5] \in BOOLEAN
  <2>1. user[t] # UserIdle
    BY <1>2 DEF UserIdle, Adding
  <2>2. CallOK(user[t])
    BY <2>1 DEF CallsOK
  <2>3. PICK m : m = user[t].mem /\ m \in Memory
    BY <1>2, <2>2 DEF CallOK
  <2>4. m.start \in Nat /\ m.size \in Nat \ {0} /\ m.os \in BOOLEAN
    BY <2>3 DEF Memory
  <2> QED
    BY <1>2, <2>3, <2>4 DEF CallSpan
<1>3. ASSUME NEW p \in alive, p.kind = "os", NEW x, x = OsSpan(p)
      PROVE  x[3] \in Nat /\ x[4] \in Nat /\ x[4] >= 1 /\ x[5] \in BOOLEAN
  <2>1. p \in OsPiece
    BY <1>3 DEF ArenasTypeOK, ArenaPiece
  <2>2. p.start \in Nat /\ p.size \in Nat \ {0}
    BY <2>1 DEF OsPiece
  <2> QED
    BY <1>3, <2>2 DEF OsSpan
<1> QED
  BY <1>1, <1>2, <1>3, SpanIs

LEMMA GivenIs ==
  ASSUME NEW g \in Given
  PROVE  g.start \in Nat /\ g.size \in Nat /\ g.size >= 1 /\ g.exclusive \in BOOLEAN /\ g.large \in BOOLEAN
         /\ g.node \in ArenaNodes
<1>1. g \in [start : Nat, size : Nat \ {0}, exclusive : BOOLEAN, large : BOOLEAN, node : Nat \cup {-1}]
  BY ArenasAssumption
<1> QED
  BY <1>1 DEF ArenaNodes

\* The OS maps memory for somebody.
LEMMA SpanMapped ==
  ASSUME MemoryOK, \A y \in Spans : y[3] \in Nat /\ y[4] \in Nat /\ y[4] >= 1, mapped \subseteq Nat \X (Nat \ {0}),
         NEW x, NEW s \in Nat, NEW n \in Nat, n >= 1, x[3] = s, x[4] = n, x[5] = TRUE, s \in OsRoom(n),
         Spans' = Spans \cup {x}, mapped' = mapped \cup {<<s, n>>}
  PROVE  MemoryOK'
<1>1. /\ \A m \in mapped : Beside(s, n, m[1], m[2])
      /\ \A g \in Given : Beside(s, n, g.start, g.size)
  BY DEF OsRoom
<1>2. PICK m : m = <<s, n>>
  OBVIOUS
<1>10. m[1] = s /\ m[2] = n
  BY <1>2
<1>3. ASSUME NEW y \in Spans PROVE Beside(s, n, y[3], y[4]) /\ Beside(y[3], y[4], s, n)
  <2>1. y[3] \in Nat /\ y[4] \in Nat
    OBVIOUS
  <2>2. CASE y[5]
    <3>5. PICK k : k = <<y[3], y[4]>>
      OBVIOUS
    <3>6. k[1] = y[3] /\ k[2] = y[4]
      BY <3>5
    <3>1. k \in mapped /\ k[1] = y[3] /\ k[2] = y[4]
      BY <2>2, <3>5, <3>6 DEF MemoryOK, SpansPlaced
    <3> QED
      BY <1>1, <2>1, <3>1 DEF Beside
  <2>3. CASE ~y[5]
    <3>1. PICK g \in Given : GivenSpan(y, g)
      BY <2>3 DEF MemoryOK, SpansPlaced
    <3>2. Beside(s, n, g.start, g.size) /\ g.start \in Nat /\ g.size \in Nat
      BY <1>1, GivenIs
    <3> QED
      BY <2>1, <3>1, <3>2 DEF GivenSpan, Beside
  <2> QED
    BY <2>2, <2>3
<1>4. \A y, z \in Spans' : y # z => Beside(y[3], y[4], z[3], z[4])
  BY <1>3 DEF MemoryOK, SpansApart
<1>5. \A y \in Spans' : IF y[5] THEN <<y[3], y[4]>> \in mapped' ELSE \E g \in Given : GivenSpan(y, g)
  BY DEF MemoryOK, SpansPlaced
<1>6. \A k \in mapped : k[1] \in Nat /\ k[2] \in Nat /\ Beside(k[1], k[2], s, n)
  BY <1>1 DEF Beside
<1>7. \A k, j \in mapped' : k # j => Beside(k[1], k[2], j[1], j[2])
  BY <1>1, <1>2, <1>6, <1>10 DEF MemoryOK, MappedApart
<1>8. \A k \in mapped', g \in Given : Beside(k[1], k[2], g.start, g.size)
  BY <1>1, <1>2, <1>10 DEF MemoryOK, MappedApart
<1>9. \A k \in mapped' : \E y \in Spans' : y[5] /\ y[3] = k[1] /\ y[4] = k[2]
  BY <1>2, <1>10 DEF MemoryOK, MappedHeld
<1> QED
  BY <1>4, <1>5, <1>7, <1>8, <1>9
     DEF MemoryOK, SpansApart, SpansPlaced, MappedApart, MappedHeld, Beside, GivenSpan, AlignedPart, AlignTo

\* Somebody has memory the program gave.
LEMMA SpanGiven ==
  ASSUME MemoryOK, \A y \in Spans : y[3] \in Nat /\ y[4] \in Nat /\ y[4] >= 1, mapped \subseteq Nat \X (Nat \ {0}),
         NEW x, NEW s \in Nat, NEW n \in Nat, x[3] = s, x[4] = n, x[5] = FALSE,
         NEW g \in Given, GivenSpan(x, g), \A y \in Spans : ~y[5] => y[3] # AlignedPart(g).start,
         Spans' = Spans \cup {x}, UNCHANGED mapped
  PROVE  MemoryOK'
<1>1. g.start \in Nat /\ g.size \in Nat /\ g.start <= s /\ s + n <= g.start + g.size
  BY GivenIs DEF GivenSpan
<1>2. ASSUME NEW y \in Spans PROVE Beside(s, n, y[3], y[4]) /\ Beside(y[3], y[4], s, n)
  <2>1. y[3] \in Nat /\ y[4] \in Nat
    OBVIOUS
  <2>2. CASE y[5]
    <3>5. PICK k : k = <<y[3], y[4]>>
      OBVIOUS
    <3>6. k[1] = y[3] /\ k[2] = y[4]
      BY <3>5
    <3>1. k \in mapped /\ k[1] = y[3] /\ k[2] = y[4]
      BY <2>2, <3>5, <3>6 DEF MemoryOK, SpansPlaced
    <3>2. Beside(k[1], k[2], g.start, g.size)
      BY <3>1 DEF MemoryOK, MappedApart
    <3> QED
      BY <1>1, <2>1, <3>1, <3>2 DEF Beside
  <2>3. CASE ~y[5]
    <3>1. PICK h \in Given : GivenSpan(y, h)
      BY <2>3 DEF MemoryOK, SpansPlaced
    <3>2. h # g /\ h.start \in Nat /\ h.size \in Nat
      BY <2>3, <3>1, GivenIs DEF GivenSpan
    <3>3. g.start + g.size <= h.start \/ h.start + h.size <= g.start
      BY <3>2, ArenasAssumption
    <3>4. h.start <= y[3] /\ y[3] + y[4] <= h.start + h.size
      BY <3>1 DEF GivenSpan
    <3> QED
      BY <1>1, <2>1, <3>2, <3>3, <3>4 DEF Beside
  <2> QED
    BY <2>2, <2>3
<1>3. \A y, z \in Spans' : y # z => Beside(y[3], y[4], z[3], z[4])
  BY <1>2 DEF MemoryOK, SpansApart
<1>4. \A y \in Spans' : IF y[5] THEN <<y[3], y[4]>> \in mapped' ELSE \E h \in Given : GivenSpan(y, h)
  BY DEF MemoryOK, SpansPlaced
<1>5. \A k \in mapped' : \E y \in Spans' : y[5] /\ y[3] = k[1] /\ y[4] = k[2]
  BY DEF MemoryOK, MappedHeld
<1>6. MappedApart
  BY DEF MemoryOK
<1> QED
  BY <1>3, <1>4, <1>5, <1>6
     DEF MemoryOK, SpansApart, SpansPlaced, MappedApart, MappedHeld, Beside, GivenSpan, AlignedPart, AlignTo

\* Somebody no longer holds memory; what is of the OS goes back to it.
LEMMA SpanGone ==
  ASSUME MemoryOK, \A y \in Spans : y[3] \in Nat /\ y[4] \in Nat /\ y[4] >= 1, mapped \subseteq Nat \X (Nat \ {0}),
         NEW x \in Spans, NEW m, m = <<x[3], x[4]>>,
         Spans' = Spans \ {x}, mapped' = IF x[5] THEN mapped \ {m} ELSE mapped
  PROVE  MemoryOK'
<1>1. ASSUME NEW y \in Spans, y # x PROVE <<y[3], y[4]>> # m
  <2>1. Beside(x[3], x[4], y[3], y[4])
    BY <1>1 DEF MemoryOK, SpansApart
  <2>2. y[3] # x[3]
    BY <1>1, <2>1 DEF Beside
  <2> QED
    BY <2>2
<1>2. \A y, z \in Spans' : y # z => Beside(y[3], y[4], z[3], z[4])
  BY DEF MemoryOK, SpansApart
<1>3. \A y \in Spans' : IF y[5] THEN <<y[3], y[4]>> \in mapped' ELSE \E g \in Given : GivenSpan(y, g)
  BY <1>1 DEF MemoryOK, SpansPlaced
<1>4. MappedApart /\ mapped' \subseteq mapped
  BY DEF MemoryOK
<1>5. ASSUME NEW k \in mapped' PROVE \E y \in Spans' : y[5] /\ y[3] = k[1] /\ y[4] = k[2]
  <2>1. PICK y \in Spans : y[5] /\ y[3] = k[1] /\ y[4] = k[2]
    BY <1>4, <1>5 DEF MemoryOK, MappedHeld
  <2>2. y # x
    <3>1. SUFFICES ASSUME y = x PROVE FALSE
      OBVIOUS
    <3>2. k \in mapped /\ k # m
      BY <1>5, <2>1, <3>1
    <3>3. k = <<k[1], k[2]>>
      BY <3>2
    <3> QED
      BY <2>1, <3>1, <3>2, <3>3
  <2> QED
    BY <2>1, <2>2
<1> QED
  BY <1>2, <1>3, <1>4, <1>5
     DEF MemoryOK, SpansApart, SpansPlaced, MappedApart, MappedHeld, Beside, GivenSpan, AlignedPart, AlignTo

\* Memory passes from one holder to another.
LEMMA SpanMoved ==
  ASSUME MemoryOK, NEW x \in Spans, NEW y, y[3] = x[3], y[4] = x[4], y[5] = x[5],
         Spans' = (Spans \ {x}) \cup {y}, UNCHANGED mapped
  PROVE  MemoryOK'
<1>1. \A w, z \in Spans' : w # z => Beside(w[3], w[4], z[3], z[4])
  BY DEF MemoryOK, SpansApart
<1>2. \A w \in Spans' : IF w[5] THEN <<w[3], w[4]>> \in mapped ELSE \E g \in Given : GivenSpan(w, g)
  BY DEF MemoryOK, SpansPlaced, GivenSpan
<1>3. \A k \in mapped : \E w \in Spans' : w[5] /\ w[3] = k[1] /\ w[4] = k[2]
  BY DEF MemoryOK, MappedHeld
<1>4. MappedApart
  BY DEF MemoryOK
<1> QED
  BY <1>1, <1>2, <1>3, <1>4
     DEF MemoryOK, SpansApart, SpansPlaced, MappedApart, MappedHeld, Beside, GivenSpan, AlignedPart, AlignTo

\* Who holds a span.
LEMMA SpanTags ==
  /\ \A i : ArenaSpan(i)[1] = "arena" /\ ArenaSpan(i)[2] = i
  /\ \A t : CallSpan(t)[1] = "call" /\ CallSpan(t)[2] = t
  /\ \A p : OsSpan(p)[1] = "os" /\ OsSpan(p)[2] = p
  BY DEF ArenaSpan, CallSpan, OsSpan

LEMMA SpanIsNext ==
  \A x : x \in Spans' <=> \/ \E i \in TableEntries : arenas'[i] # 0 /\ x = ArenaSpan(i)'
                          \/ \E t \in Users : user'[t].pc \in Adding /\ x = CallSpan(t)'
                          \/ \E p \in alive' : p.kind = "os" /\ x = OsSpan(p)
  BY DEF Spans, ArenaSpan, CallSpan, OsSpan

LEMMA CallBegins ==
  ASSUME ArenasTypeOK, NEW t \in Users, NEW v, UserStep(t, v), user[t].pc \notin Adding, v.pc \in Adding,
         UNCHANGED <<arenas, made, alive>>, NEW x, x = <<"call", t, v.mem.start, v.mem.size, v.mem.os>>
  PROVE  Spans' = Spans \cup {x}
<1>1. user'[t] = v /\ \A u \in Users : u # t => user'[u] = user[u]
  BY UserStepType
<1>2. CallSpan(t)' = x
  BY <1>1 DEF CallSpan
<1>3. \A u \in Users : u # t => CallSpan(u)' = CallSpan(u)
  BY <1>1 DEF CallSpan
<1>4. \A i \in TableEntries : ArenaSpan(i)' = ArenaSpan(i)
  BY DEF ArenaSpan
<1>5. \A y : y \in Spans' <=> y \in Spans \/ y = x
  BY <1>1, <1>2, <1>3, <1>4, SpanIs, SpanIsNext
<1> QED
  BY <1>5

LEMMA CallEnds ==
  ASSUME ArenasTypeOK, NEW t \in Users, NEW v, UserStep(t, v), user[t].pc \in Adding, v.pc \notin Adding,
         UNCHANGED <<arenas, made, alive>>
  PROVE  Spans' = Spans \ {CallSpan(t)} /\ CallSpan(t) \in Spans
<1>1. user'[t] = v /\ \A u \in Users : u # t => user'[u] = user[u]
  BY UserStepType
<1>2. \A u \in Users : u # t => CallSpan(u)' = CallSpan(u) /\ CallSpan(u) # CallSpan(t)
  BY <1>1, SpanTags DEF CallSpan
<1>3. \A i \in TableEntries : ArenaSpan(i)' = ArenaSpan(i) /\ ArenaSpan(i) # CallSpan(t)
  <2>1. \A i \in TableEntries : ArenaSpan(i) # CallSpan(t)
    BY SpanTags
  <2> QED
    BY <2>1 DEF ArenaSpan
<1>4. \A p : OsSpan(p) # CallSpan(t)
  BY SpanTags
<1>5. \A y : y \in Spans' <=> y \in Spans /\ y # CallSpan(t)
  BY <1>1, <1>2, <1>3, <1>4, SpanIs, SpanIsNext
<1>6. CallSpan(t) \in Spans
  BY SpanIs
<1> QED
  BY <1>5, <1>6

\* The call puts its arena into the table.
LEMMA CallStores ==
  ASSUME ArenasTypeOK, NEW t \in Users, NEW v, UserStep(t, v), user[t].pc \in Adding, v.pc \notin Adding,
         UNCHANGED <<made, alive>>, NEW i \in TableEntries, arenas[i] = 0, NEW h, h # 0,
         arenas' = [arenas EXCEPT ![i] = h],
         NEW x, x = <<"arena", i, made[h].start, made[h].size, made[h].os>>
  PROVE  Spans' = (Spans \ {CallSpan(t)}) \cup {x} /\ CallSpan(t) \in Spans
<1>1. user'[t] = v /\ \A u \in Users : u # t => user'[u] = user[u]
  BY UserStepType
<1>2. \A u \in Users : u # t => CallSpan(u)' = CallSpan(u) /\ CallSpan(u) # CallSpan(t)
  BY <1>1, SpanTags DEF CallSpan
<1>3. arenas'[i] = h /\ \A j \in TableEntries : j # i => arenas'[j] = arenas[j]
  BY DEF ArenasTypeOK
<1>4. ArenaSpan(i)' = x
  BY <1>3 DEF ArenaSpan
<1>5. \A j \in TableEntries : ArenaSpan(j) # CallSpan(t)
  BY SpanTags
<1>6. \A j \in TableEntries : j # i => ArenaSpan(j)' = ArenaSpan(j)
  BY <1>3 DEF ArenaSpan
<1>7. \A p : OsSpan(p) # CallSpan(t)
  BY SpanTags
<1>8. \A y : y \in Spans' <=> (y \in Spans /\ y # CallSpan(t)) \/ y = x
  BY <1>1, <1>2, <1>3, <1>4, <1>5, <1>6, <1>7, SpanIs, SpanIsNext
<1>9. CallSpan(t) \in Spans
  BY SpanIs
<1> QED
  BY <1>8, <1>9

\* A client gets memory of the OS, or gives it back.
LEMMA ClientSpans ==
  ASSUME ArenasTypeOK, NEW t \in Users, NEW v, UserStep(t, v), user[t].pc \notin Adding, v.pc \notin Adding,
         UNCHANGED <<arenas, made>>, NEW p, p.kind = "os"
  PROVE  /\ alive' = alive \cup {p} => Spans' = Spans \cup {OsSpan(p)}
         /\ p \in alive /\ alive' = alive \ {p} => Spans' = Spans \ {OsSpan(p)} /\ OsSpan(p) \in Spans
<1>1. user'[t] = v /\ \A u \in Users : u # t => user'[u] = user[u]
  BY UserStepType
<1>2. \A u \in Users : /\ user'[u].pc \in Adding <=> user[u].pc \in Adding
                       /\ user[u].pc \in Adding => CallSpan(u)' = CallSpan(u)
                       /\ CallSpan(u) # OsSpan(p)
  <2>1. \A u \in Users : CallSpan(u) # OsSpan(p)
    BY SpanTags
  <2> QED
    BY <1>1, <2>1 DEF CallSpan
<1>3. \A i \in TableEntries : ArenaSpan(i)' = ArenaSpan(i) /\ ArenaSpan(i) # OsSpan(p)
  <2>1. \A i \in TableEntries : ArenaSpan(i) # OsSpan(p)
    BY SpanTags
  <2> QED
    BY <2>1 DEF ArenaSpan
<1>4. \A q : q # p => OsSpan(q) # OsSpan(p)
  BY SpanTags
<1>5. ASSUME alive' = alive \cup {p} PROVE Spans' = Spans \cup {OsSpan(p)}
  <2>1. \A y : y \in Spans' <=> y \in Spans \/ y = OsSpan(p)
    BY <1>2, <1>3, <1>5, SpanIs, SpanIsNext
  <2> QED
    BY <2>1
<1>6. ASSUME p \in alive, alive' = alive \ {p} PROVE Spans' = Spans \ {OsSpan(p)} /\ OsSpan(p) \in Spans
  <2>1. \A y : y \in Spans' <=> y \in Spans /\ y # OsSpan(p)
    BY <1>2, <1>3, <1>4, <1>6, SpanIs, SpanIsNext
  <2>2. OsSpan(p) \in Spans
    BY <1>6, SpanIs
  <2> QED
    BY <2>1, <2>2
<1> QED
  BY <1>5, <1>6

\* A step that changes what is mapped, and who holds it, but not the table.
LEMMA HoldStepInv ==
  ASSUME ArenasInv, ~ended, NEW t \in Users, NEW v, UserStep(t, v), v = UserIdle \/ CallOK(v),
         v.pc \notin {"metaundo", "add", "store"}, MemoryOK', mapped' \subseteq Nat \X (Nat \ {0}),
         alive' \subseteq ArenaPiece \cup OsPiece, \A p : p.kind = "arena" /\ p \in alive' => p \in alive,
         UNCHANGED <<arenas, arena_count, made, static_top, static_live, ended>>
  PROVE  ArenasInv'
<1>1. ArenasTypeOK /\ StaticOK /\ TableOK /\ CallsOK /\ BlocksOK
  BY InvIs
<1>2. ArenasTypeOK'
  BY <1>1, UserStepType DEF ArenasTypeOK
<1>3. StaticOK'
  BY <1>1, StaticStays
<1>4. TableOK'
  BY <1>1 DEF TableOK, Handles
<1>5. CallsOK'
  <2>1. v = UserIdle \/ CallOK(v)'
    BY DEF CallOK, Handles
  <2>2. \A u \in Users, c \in Call : u # t /\ c = user[u] /\ CallOK(c) => CallOK(c)'
    BY DEF CallOK, Handles
  <2> QED
    BY <1>1, <2>1, <2>2, CallsStay
<1>6. BlocksOK'
  <2>1. arena_count' \in ArenaIds /\ arena_count' >= arena_count
    BY <1>1, Constants DEF ArenasTypeOK, ArenaIds
  <2> QED
    BY <1>1, <2>1, BlocksStay
<1> QED
  BY <1>2, <1>3, <1>4, <1>5, <1>6, InvNext

\* What the invariant says of memory.
LEMMA MemoryFacts ==
  ASSUME ArenasInv, ~ended
  PROVE  /\ ArenasTypeOK /\ MemoryOK /\ mapped \subseteq Nat \X (Nat \ {0})
         /\ alive \subseteq ArenaPiece \cup OsPiece
         /\ \A x \in Spans : x[3] \in Nat /\ x[4] \in Nat /\ x[4] >= 1 /\ x[5] \in BOOLEAN
<1>1. ArenasTypeOK /\ TableOK /\ CallsOK /\ MemoryOK
  BY InvIs
<1> QED
  BY <1>1, SpanTypes DEF ArenasTypeOK

LEMMA FromOsInv ==
  ASSUME ArenasInv, NEW t \in Users, FromOs(t)
  PROVE  ArenasInv'
<1>1. PICK r, n : r = user[t].request /\ n = r.blocks * BLOCK
  OBVIOUS
<1>2. /\ user[t].pc = "os" /\ user' = [user EXCEPT ![t] = UserIdle]
      /\ UNCHANGED <<arenas, arena_count, made, static_top, static_live, ended>>
  BY DEF FromOs
<1>3. ~ended /\ user[t] \in Call /\ CallOK(user[t])
  BY <1>2, InCall DEF UserPcs
<1>4. r \in AllocRequests
  BY <1>1, <1>2, <1>3 DEF CallOK
<1>5. n \in Nat /\ n >= 1
  <2>1. r.blocks \in Nat /\ r.blocks >= 1 /\ BLOCK \in Nat /\ BLOCK >= 1
    BY <1>4, AllocRequestIs, Constants
  <2> QED
    BY <1>1, <2>1
<1>6. /\ UserStep(t, UserIdle) /\ user[t].pc \notin Adding /\ UserIdle.pc \notin {"metaundo", "add", "store"}
      /\ UserIdle.pc \notin Adding
  BY <1>2 DEF UserStep, UserIdle, Adding
<1>7. CASE UNCHANGED <<alive, mapped>>
  BY <1>2, <1>3, <1>6, <1>7, UserStepInv DEF memoryVars
<1>8. CASE \E s \in OsRoom(n) :
             /\ mapped' = mapped \cup {<<s, n>>}
             /\ alive' = alive \cup {[kind |-> "os", start |-> s, size |-> n]}
  <2>1. PICK s \in OsRoom(n) :
             /\ mapped' = mapped \cup {<<s, n>>}
             /\ alive' = alive \cup {[kind |-> "os", start |-> s, size |-> n]}
    BY <1>8
  <2>2. s \in Nat
    BY ArenasAssumption DEF OsRoom
  <2>3. PICK p : p = [kind |-> "os", start |-> s, size |-> n]
    OBVIOUS
  <2>4. p \in OsPiece /\ p.kind = "os" /\ p.start = s /\ p.size = n
    <3>1. n \in Nat \ {0}
      BY <1>5
    <3> QED
      BY <2>2, <2>3, <3>1 DEF OsPiece
  <2>5. alive' = alive \cup {p}
    BY <2>1, <2>3
  <2>6. Spans' = Spans \cup {OsSpan(p)}
    BY <1>2, <1>3, <1>6, <2>4, <2>5, ClientSpans, MemoryFacts
  <2>11. PICK x : x = OsSpan(p)
    OBVIOUS
  <2>7. x = OsSpan(p) /\ x[3] = s /\ x[4] = n /\ x[5] = TRUE
    BY <2>4, <2>11 DEF OsSpan
  <2>8. MemoryOK'
    <3>1. Spans' = Spans \cup {x} /\ mapped' = mapped \cup {<<s, n>>}
      BY <2>1, <2>6, <2>7
    <3> QED
      BY <1>3, <1>5, <2>1, <2>2, <2>7, <3>1, MemoryFacts, SpanMapped
  <2>9. mapped' \subseteq Nat \X (Nat \ {0})
    <3>1. <<s, n>> \in Nat \X (Nat \ {0})
      BY <1>5, <2>2
    <3> QED
      BY <1>3, <2>1, <3>1, MemoryFacts
  <2>10. alive' \subseteq ArenaPiece \cup OsPiece /\ \A q : q.kind = "arena" /\ q \in alive' => q \in alive
    BY <1>3, <2>4, <2>5, MemoryFacts
  <2> QED
    BY <1>2, <1>3, <1>6, <2>8, <2>9, <2>10, HoldStepInv
<1> QED
  BY <1>1, <1>7, <1>8 DEF FromOs

LEMMA FreeOsInv ==
  ASSUME ArenasInv, NEW t \in Users, NEW p \in alive, FreeMemory(t, p), p.kind = "os"
  PROVE  ArenasInv'
<1>1. /\ ~ended /\ user[t] = UserIdle /\ alive' = alive \ {p} /\ mapped' = mapped \ {<<p.start, p.size>>}
      /\ UNCHANGED <<arenas, arena_count, made, static_top, static_live, user, ended>>
  BY DEF FreeMemory
<1>2. /\ UserStep(t, UserIdle) /\ user[t].pc \notin Adding /\ UserIdle.pc \notin {"metaundo", "add", "store"}
      /\ UserIdle.pc \notin Adding
  <2>1. user' = [user EXCEPT ![t] = UserIdle]
    BY <1>1, MemoryFacts DEF ArenasTypeOK
  <2>2. UserIdle.pc = "idle"
    BY DEF UserIdle
  <2> QED
    BY <1>1, <2>1, <2>2 DEF UserStep, Adding
<1>3. Spans' = Spans \ {OsSpan(p)} /\ OsSpan(p) \in Spans
  BY <1>1, <1>2, ClientSpans, MemoryFacts
<1>8. PICK x : x = OsSpan(p)
  OBVIOUS
<1>4. x = OsSpan(p) /\ x[3] = p.start /\ x[4] = p.size /\ x[5] = TRUE
  BY <1>8 DEF OsSpan
<1>5. MemoryOK'
  <2>1. PICK m : m = <<x[3], x[4]>>
    OBVIOUS
  <2>2. mapped' = (IF x[5] THEN mapped \ {m} ELSE mapped) /\ Spans' = Spans \ {x} /\ x \in Spans
    BY <1>1, <1>3, <1>4, <2>1
  <2> QED
    BY <1>1, <2>1, <2>2, MemoryFacts, SpanGone
<1>6. mapped' \subseteq Nat \X (Nat \ {0})
  BY <1>1, MemoryFacts
<1>7. alive' \subseteq ArenaPiece \cup OsPiece /\ \A q : q.kind = "arena" /\ q \in alive' => q \in alive
  BY <1>1, MemoryFacts
<1> QED
  BY <1>1, <1>2, <1>5, <1>6, <1>7, HoldStepInv

LEMMA ReleaseInv ==
  ASSUME ArenasInv, NEW t \in Users, Release(t)
  PROVE  ArenasInv'
<1>1. PICK mem, v : mem = user[t].mem /\ v = Failed(t)
  OBVIOUS
<1>2. /\ user[t].pc = "release" /\ user' = [user EXCEPT ![t] = v]
      /\ mapped' = (IF mem.os THEN mapped \ {<<mem.start, mem.size>>} ELSE mapped)
      /\ UNCHANGED <<arenas, arena_count, made, static_top, static_live, alive, ended>>
  BY <1>1 DEF Release
<1>3. ~ended /\ user[t] \in Call /\ CallOK(user[t]) /\ user[t].pc \in Adding
  BY <1>2, InCall DEF UserPcs, Adding
<1>4. /\ v \in {UserIdle} \cup Call /\ (v = UserIdle \/ CallOK(v))
      /\ v.pc \notin {"metaundo", "add", "store"} /\ v.pc \notin Adding
  BY <1>1, <1>3, FailedIs
<1>5. UserStep(t, v)
  BY <1>2, <1>4 DEF UserStep
<1>6. Spans' = Spans \ {CallSpan(t)} /\ CallSpan(t) \in Spans
  BY <1>2, <1>3, <1>4, <1>5, CallEnds, MemoryFacts
<1>10. PICK x : x = CallSpan(t)
  OBVIOUS
<1>7. x = CallSpan(t) /\ x[3] = mem.start /\ x[4] = mem.size /\ x[5] = mem.os
  BY <1>1, <1>10 DEF CallSpan
<1>8. MemoryOK'
  <2>1. PICK m : m = <<x[3], x[4]>>
    OBVIOUS
  <2>2. mapped' = (IF x[5] THEN mapped \ {m} ELSE mapped) /\ Spans' = Spans \ {x} /\ x \in Spans
    BY <1>2, <1>6, <1>7, <2>1
  <2> QED
    BY <1>3, <2>1, <2>2, MemoryFacts, SpanGone
<1>9. mapped' \subseteq Nat \X (Nat \ {0}) /\ alive' \subseteq ArenaPiece \cup OsPiece
  BY <1>2, <1>3, MemoryFacts
<1> QED
  BY <1>2, <1>3, <1>4, <1>5, <1>8, <1>9, HoldStepInv

\* A call that begins to add memory.
AddsMemory(v, u, mem) ==
  v \in Call /\ v.pc = "meta" /\ v.op = u.op /\ v.request = u.request /\ v.mem = mem

LEMMA AddsMemoryIs ==
  ASSUME NEW u \in Call, NEW mem \in Memory, NEW v, v = [u EXCEPT !.pc = "meta", !.mem = mem]
  PROVE  AddsMemory(v, u, mem)
<1>1. "meta" \in UserPcs /\ mem \in Mems
  BY DEF UserPcs, Adding, Mems
<1> QED
  BY <1>1 DEF AddsMemory, Call

LEMMA AddsMemoryOK ==
  ASSUME NEW v, NEW u, NEW mem \in Memory, AddsMemory(v, u, mem), u.op = "alloc" => u.request \in AllocRequests
  PROVE  v \in Call /\ CallOK(v) /\ v.pc \notin {"metaundo", "add", "store"} /\ v.pc \in Adding /\ v.mem = mem
  BY DEF AddsMemory, CallOK, Adding

LEMMA MapMemoryInv ==
  ASSUME ArenasInv, NEW t \in Users, MapMemory(t)
  PROVE  ArenasInv'
<1>1. PICK u : u = user[t]
  OBVIOUS
<1>2. u.pc = "map" /\ UNCHANGED <<arenas, arena_count, made, static_top, static_live, alive, ended>>
  BY <1>1 DEF MapMemory
<1>3. ~ended /\ u \in Call /\ CallOK(u) /\ u.pc \notin Adding
  BY <1>1, <1>2, InCall DEF UserPcs, Adding
<1>4. u.mem \in Plan /\ u.mem.size >= 1 /\ (u.op = "alloc" => u.request \in AllocRequests)
  BY <1>2, <1>3 DEF CallOK
<1>5. CASE user' = [user EXCEPT ![t] = Failed(t)] /\ UNCHANGED mapped
  <2>1. PICK v : v = Failed(t)
    OBVIOUS
  <2>2. /\ v \in {UserIdle} \cup Call /\ (v = UserIdle \/ CallOK(v))
        /\ v.pc \notin {"metaundo", "add", "store"} /\ v.pc \notin Adding
    BY <1>1, <1>3, <2>1, FailedIs
  <2>3. UserStep(t, v) /\ user[t].pc \notin Adding
    BY <1>1, <1>3, <1>5, <2>1, <2>2 DEF UserStep
  <2> QED
    BY <1>2, <1>3, <1>5, <2>2, <2>3, UserStepInv DEF memoryVars
<1>6. CASE \E size \in (IF u.op = "huge" THEN {n * HUGE_PAGE : n \in 1 .. u.mem.size \div HUGE_PAGE} ELSE {u.mem.size}),
              large \in (IF u.op = "huge" THEN {TRUE} ELSE {FALSE, u.mem.large}) : \E s \in OsRoom(size) :
             /\ mapped' = mapped \cup {<<s, size>>}
             /\ user' = [user EXCEPT ![t] = [u EXCEPT !.pc = "meta", !.mem =
                   [start |-> s, size |-> size, exclusive |-> u.mem.exclusive, large |-> large,
                    node |-> u.mem.node, os |-> TRUE]]]
  <2>1. PICK size \in (IF u.op = "huge" THEN {n * HUGE_PAGE : n \in 1 .. u.mem.size \div HUGE_PAGE} ELSE {u.mem.size}),
             large \in (IF u.op = "huge" THEN {TRUE} ELSE {FALSE, u.mem.large}) : \E s \in OsRoom(size) :
             /\ mapped' = mapped \cup {<<s, size>>}
             /\ user' = [user EXCEPT ![t] = [u EXCEPT !.pc = "meta", !.mem =
                   [start |-> s, size |-> size, exclusive |-> u.mem.exclusive, large |-> large,
                    node |-> u.mem.node, os |-> TRUE]]]
    BY <1>6
  <2>2. PICK s \in OsRoom(size) :
             /\ mapped' = mapped \cup {<<s, size>>}
             /\ user' = [user EXCEPT ![t] = [u EXCEPT !.pc = "meta", !.mem =
                   [start |-> s, size |-> size, exclusive |-> u.mem.exclusive, large |-> large,
                    node |-> u.mem.node, os |-> TRUE]]]
    BY <2>1
  <2>3. /\ u.mem.size \in Int /\ u.mem.exclusive \in BOOLEAN /\ u.mem.large \in BOOLEAN
        /\ u.mem.node \in ArenaNodes
    BY <1>4 DEF Plan
  <2>4. size \in Nat /\ size >= 1 /\ large \in BOOLEAN /\ s \in Nat
    <3>1. s \in Nat
      BY ArenasAssumption DEF OsRoom
    <3>2. large \in BOOLEAN
      BY <2>1, <2>3
    <3>3. CASE u.op = "huge"
      <4>1. PICK n \in 1 .. u.mem.size \div HUGE_PAGE : size = n * HUGE_PAGE
        BY <2>1, <3>3
      <4>2. n \in Nat /\ n >= 1 /\ HUGE_PAGE \in Nat /\ HUGE_PAGE >= 1
        BY <4>1, Constants
      <4>3. n * HUGE_PAGE \in Nat /\ n * HUGE_PAGE >= 1
        BY <4>2
      <4> QED
        BY <3>1, <3>2, <4>1, <4>3
    <3>4. CASE u.op # "huge"
      BY <1>4, <2>1, <2>3, <3>1, <3>2, <3>4
    <3> QED
      BY <3>3, <3>4
  <2>5. PICK mem : mem = [start |-> s, size |-> size, exclusive |-> u.mem.exclusive, large |-> large,
                          node |-> u.mem.node, os |-> TRUE]
    OBVIOUS
  <2>6. mem \in Memory /\ mem.start = s /\ mem.size = size /\ mem.os = TRUE
    <3>1. size \in Nat \ {0}
      BY <2>4
    <3> QED
      BY <2>3, <2>4, <2>5, <3>1 DEF Memory
  <2>7. PICK v : v = [u EXCEPT !.pc = "meta", !.mem = mem]
    OBVIOUS
  <2>8. user' = [user EXCEPT ![t] = v]
    BY <2>2, <2>5, <2>7
  <2>9. AddsMemory(v, u, mem)
    BY <1>3, <2>6, <2>7, AddsMemoryIs
  <2>10. v \in Call /\ CallOK(v) /\ v.pc \notin {"metaundo", "add", "store"} /\ v.pc \in Adding /\ v.mem = mem
    BY <1>4, <2>6, <2>9, AddsMemoryOK
  <2>11. UserStep(t, v) /\ user[t].pc \notin Adding
    BY <1>1, <1>3, <2>8, <2>10 DEF UserStep
  <2>12. PICK x : x = <<"call", t, s, size, TRUE>>
    OBVIOUS
  <2>13. x[3] = s /\ x[4] = size /\ x[5] = TRUE /\ x = <<"call", t, v.mem.start, v.mem.size, v.mem.os>>
    BY <2>6, <2>10, <2>12
  <2>14. Spans' = Spans \cup {x}
    BY <1>2, <1>3, <2>10, <2>11, <2>13, CallBegins, MemoryFacts
  <2>15. MemoryOK'
    BY <1>3, <2>2, <2>4, <2>13, <2>14, MemoryFacts, SpanMapped
  <2>16. mapped' \subseteq Nat \X (Nat \ {0})
    <3>1. <<s, size>> \in Nat \X (Nat \ {0})
      BY <2>4
    <3> QED
      BY <1>3, <2>2, <3>1, MemoryFacts
  <2>17. alive' \subseteq ArenaPiece \cup OsPiece
    BY <1>2, <1>3, MemoryFacts
  <2> QED
    BY <1>2, <1>3, <2>10, <2>11, <2>15, <2>16, <2>17, HoldStepInv
<1> QED
  BY <1>1, <1>5, <1>6 DEF MapMemory

\* The aligned part of what the program gives is inside it.
LEMMA AlignedPartIs ==
  ASSUME NEW g \in Given, AlignedPart(g).size >= BLOCK, NEW mem, mem = AlignedPart(g)
  PROVE  /\ mem \in Memory /\ mem.os = FALSE /\ g.start <= mem.start
         /\ mem.start + mem.size = g.start + g.size /\ mem.start \in Nat /\ mem.size \in Nat
<1>1. g.start \in Nat /\ g.size \in Nat /\ g.exclusive \in BOOLEAN /\ g.large \in BOOLEAN /\ g.node \in ArenaNodes
  BY GivenIs
<1>2. BLOCK \in Nat \ {0}
  BY Constants
<1>3. PICK s : s = AlignTo(g.start, BLOCK)
  OBVIOUS
<1>4. s \in Nat /\ g.start <= s
  BY <1>1, <1>2, <1>3, AlignToBounds
<1>5. PICK n : n = g.size - (s - g.start)
  OBVIOUS
<1>6. mem = [start |-> s, size |-> n, exclusive |-> g.exclusive, large |-> g.large, node |-> g.node, os |-> FALSE]
  BY <1>3, <1>5 DEF AlignedPart
<1>7. mem.start = s /\ mem.size = n /\ mem.os = FALSE
  BY <1>6
<1>8. n \in Int /\ n >= BLOCK
  BY <1>1, <1>4, <1>5, <1>7
<1>9. n \in Nat \ {0}
  BY <1>2, <1>8
<1>10. mem \in Memory
  BY <1>1, <1>4, <1>6, <1>9 DEF Memory
<1> QED
  BY <1>1, <1>4, <1>5, <1>7, <1>9, <1>10

LEMMA ManageOsMemoryInv ==
  ASSUME ArenasInv, NEW t \in Users, NEW g \in Given, ManageOsMemory(t, g)
  PROVE  ArenasInv'
<1>1. PICK mem, c, v :
        mem = AlignedPart(g) /\ c = CallRecord("manage", g) /\ v = [c EXCEPT !.pc = "meta", !.mem = mem]
  OBVIOUS
<1>2. /\ ~GivenBefore(g) /\ ~GivenNow(g) /\ AlignedPart(g).size >= BLOCK /\ Starting(t, v)
      /\ UNCHANGED <<arenas, arena_count, made, memoryVars, alive, ended>>
  BY <1>1 DEF ManageOsMemory
<1>3. ~ended /\ user[t].pc \notin Adding /\ user' = [user EXCEPT ![t] = v]
  BY <1>2, StartingIs
<1>4. c \in Call /\ c.op = "manage"
  <2>1. g \in Asked /\ "manage" \in UserOps
    BY AskedIs DEF UserOps
  <2>2. Fresh(c, "manage", g)
    BY <1>1, <2>1, CallRecordIs
  <2> QED
    BY <2>2 DEF Fresh
<1>5. /\ mem \in Memory /\ mem.os = FALSE /\ g.start <= mem.start
      /\ mem.start + mem.size = g.start + g.size /\ mem.start \in Nat /\ mem.size \in Nat
  BY <1>1, <1>2, AlignedPartIs
<1>6. AddsMemory(v, c, mem)
  BY <1>1, <1>4, <1>5, AddsMemoryIs
<1>7. v \in Call /\ CallOK(v) /\ v.pc \notin {"metaundo", "add", "store"} /\ v.pc \in Adding /\ v.mem = mem
  BY <1>4, <1>5, <1>6, AddsMemoryOK
<1>8. UserStep(t, v)
  BY <1>3, <1>7 DEF UserStep
<1>9. PICK x : x = <<"call", t, mem.start, mem.size, FALSE>>
  OBVIOUS
<1>10. /\ x[3] = mem.start /\ x[4] = mem.size /\ x[5] = FALSE
       /\ x = <<"call", t, v.mem.start, v.mem.size, v.mem.os>>
  BY <1>5, <1>7, <1>9
<1>11. Spans' = Spans \cup {x}
  BY <1>2, <1>3, <1>7, <1>8, <1>10, CallBegins, MemoryFacts
<1>12. GivenSpan(x, g)
  BY <1>1, <1>5, <1>10, GivenIs DEF GivenSpan
<1>13. ASSUME NEW y \in Spans, ~y[5] PROVE y[3] # AlignedPart(g).start
  <2>1. ASSUME NEW i \in TableEntries, arenas[i] # 0, y = ArenaSpan(i) PROVE y[3] # AlignedPart(g).start
    <3>1. arenas[i] \in 1 .. Len(made)
      BY <1>3, <2>1, InvIs DEF TableOK, Handles
    <3>2. y[3] = made[arenas[i]].start
      BY <2>1 DEF ArenaSpan
    <3> QED
      BY <1>2, <3>1, <3>2 DEF GivenBefore
  <2>2. ASSUME NEW w \in Users, user[w].pc \in Adding, y = CallSpan(w) PROVE y[3] # AlignedPart(g).start
    <3>1. y[3] = user[w].mem.start
      BY <2>2 DEF CallSpan
    <3> QED
      BY <1>2, <2>2, <3>1 DEF GivenNow
  <2>3. ASSUME NEW p \in alive, y = OsSpan(p) PROVE FALSE
    BY <1>13, <2>3 DEF OsSpan
  <2> QED
    BY <2>1, <2>2, <2>3, SpanIs
<1>14. MemoryOK'
  <2>1. UNCHANGED mapped
    BY <1>2 DEF memoryVars
  <2> QED
    BY <1>3, <1>5, <1>10, <1>11, <1>12, <1>13, <2>1, MemoryFacts, SpanGiven
<1>15. mapped' \subseteq Nat \X (Nat \ {0}) /\ alive' \subseteq ArenaPiece \cup OsPiece
  BY <1>2, <1>3, MemoryFacts DEF memoryVars
<1>16. UNCHANGED <<arenas, arena_count, made, static_top, static_live, alive, ended>>
  BY <1>2 DEF memoryVars
<1> QED
  BY <1>3, <1>7, <1>8, <1>14, <1>15, <1>16, HoldStepInv

-----------------------------------------------------------------------------
(* A new arena takes the next entry of the table.                           *)

\* Only the id of the arena with structure h changes.
IdNow(h, n) ==
  /\ made' \in Seq(MadeArena) /\ Handles' = Handles /\ made'[h].id = n
  /\ \A g \in Handles : /\ made'[g].start = made[g].start /\ made'[g].size = made[g].size
                        /\ made'[g].blocks = made[g].blocks /\ made'[g].exclusive = made[g].exclusive
                        /\ made'[g].large = made[g].large /\ made'[g].os = made[g].os
                        /\ made'[g].inuse = made[g].inuse
                        /\ g # h => made'[g].id = made[g].id

LEMMA IdChange ==
  ASSUME made \in Seq(MadeArena), NEW h \in Handles, NEW n \in ArenaIds, made' = [made EXCEPT ![h].id = n]
  PROVE  IdNow(h, n)
<1>1. PICK a : a = made[h] /\ a \in MadeArena
  BY DEF Handles
<1>2. PICK b : b = [a EXCEPT !.id = n]
  OBVIOUS
<1>3. /\ b \in MadeArena /\ b.id = n /\ b.start = a.start /\ b.size = a.size /\ b.blocks = a.blocks
      /\ b.exclusive = a.exclusive /\ b.large = a.large /\ b.os = a.os /\ b.inuse = a.inuse
  BY <1>1, <1>2 DEF MadeArena
<1>4. made' = [made EXCEPT ![h] = b]
  BY <1>1, <1>2
<1>5. PICK l : l = Len(made) /\ l \in Nat /\ Handles = 1 .. l /\ made \in [1 .. l -> MadeArena]
  BY DEF Handles
<1>6. made' \in [1 .. l -> MadeArena] /\ made'[h] = b /\ \A g \in 1 .. l : g # h => made'[g] = made[g]
  BY <1>3, <1>4, <1>5
<1>7. made' \in Seq(MadeArena) /\ Len(made') = l
  BY <1>5, <1>6
<1>8. Handles' = Handles
  BY <1>5, <1>7 DEF Handles
<1> QED
  BY <1>1, <1>3, <1>5, <1>6, <1>7, <1>8 DEF IdNow

LEMMA AddArenaInv ==
  ASSUME ArenasInv, NEW t \in Users, AddArena(t)
  PROVE  ArenasInv'
<1>1. user[t].pc = "add" /\ user[t].pc \in Adding /\ UNCHANGED <<arenas, memoryVars, alive, ended>>
  BY DEF AddArena, Adding
<1>2. ~ended /\ user[t] \in Call /\ CallOK(user[t])
  BY <1>1, InCall DEF UserPcs
<1>3. ArenasTypeOK /\ StaticOK /\ TableOK /\ CallsOK /\ MemoryOK /\ BlocksOK
  BY <1>2, InvIs
<1>4. arena_count \in Nat /\ arena_count <= MAX_ARENAS /\ MAX_ARENAS \in Nat
  BY <1>3, Constants DEF ArenasTypeOK, ArenaIds
<1>5. CASE ~(arena_count < MAX_ARENAS)
  <2>1. UserTo(t, "release") /\ UNCHANGED <<arena_count, made>>
    BY <1>5 DEF AddArena
  <2> QED
    BY <1>1, <2>1, AddingOn
<1>6. CASE arena_count < MAX_ARENAS
  <2>1. PICK u, h, n, v : u = user[t] /\ h = u.handle /\ n = arena_count
                          /\ v = [u EXCEPT !.pc = "store", !.i = n]
    OBVIOUS
  <2>2. /\ arena_count' = n + 1 /\ made' = [made EXCEPT ![h].id = n + 1]
        /\ user' = [user EXCEPT ![t] = v]
    BY <1>6, <2>1 DEF AddArena
  <2>3. /\ h \in Handles /\ made[h].start = u.mem.start /\ made[h].size = u.mem.size
        /\ made[h].os = u.mem.os /\ made[h].id = NONE /\ u.mem \in Memory
        /\ (u.op = "alloc" => u.request \in AllocRequests)
    BY <1>1, <1>2, <2>1 DEF CallOK
  <2>4. n + 1 \in ArenaIds /\ n \in Nat
    BY <1>4, <1>6, <2>1 DEF ArenaIds
  <2>5. IdNow(h, n + 1)
    BY <1>3, <2>2, <2>3, <2>4, IdChange DEF ArenasTypeOK
  <2>6. /\ v \in Call /\ v.pc = "store" /\ v.op = u.op /\ v.request = u.request /\ v.mem = u.mem
        /\ v.handle = h /\ v.i = n
    <3>1. "store" \in UserPcs
      BY DEF UserPcs, Adding
    <3> QED
      BY <1>2, <2>1, <2>4, <3>1 DEF Call
  <2>7. UserStep(t, v)
    BY <2>2, <2>6 DEF UserStep
  <2>8. \A i \in TableEntries : arenas[i] # 0 => arenas[i] \in Handles /\ arenas[i] # h /\ i < arena_count
    <3>1. \A i \in TableEntries : i + 1 # NONE
      BY DEF TableEntries, NONE
    <3> QED
      BY <1>3, <2>3, <3>1 DEF TableOK
  <2>9. ArenasTypeOK'
    BY <1>1, <1>3, <2>2, <2>4, <2>5, <2>7, UserStepType DEF ArenasTypeOK, IdNow, memoryVars, ArenaIds
  <2>10. StaticOK'
    BY <1>1, <1>3, <2>6, <2>7, StaticStays DEF memoryVars
  <2>11. TableOK'
    <3>1. \A g \in Handles : made[g].id \in Nat /\ made[g].id <= n
      <4>1. \A g \in Handles : made[g] \in MadeArena
        BY <1>3 DEF ArenasTypeOK, Handles
      <4>2. \A g \in Handles : made[g].id \in ArenaIds
        BY <4>1, ArenaFields
      <4> QED
        BY <1>3, <2>1, <4>2, Constants DEF TableOK, ArenaIds
    <3>2. \A i \in TableEntries : arenas'[i] # 0 =>
            i < arena_count' /\ arenas'[i] \in Handles' /\ made'[arenas'[i]].id = i + 1
      <4>1. \A i \in TableEntries : arenas[i] # 0 => i < n + 1
        BY <1>4, <2>1, <2>8 DEF TableEntries
      <4> QED
        BY <1>1, <1>3, <2>2, <2>5, <2>8, <4>1 DEF TableOK, IdNow
    <3>3. \A g, k \in Handles' : made'[g].id = made'[k].id /\ made'[g].id # NONE => g = k
      <4>1. \A g \in Handles : made[g].id # n + 1
        BY <2>4, <3>1
      <4> QED
        BY <1>3, <2>5, <4>1 DEF TableOK, IdNow
    <3>4. \A g \in Handles' : made'[g].id <= arena_count' /\ made'[g].blocks * BLOCK <= made'[g].size
      <4>1. \A g \in Handles : made'[g].id <= n + 1
        BY <2>4, <2>5, <3>1 DEF IdNow
      <4> QED
        BY <1>3, <2>2, <2>5, <4>1 DEF TableOK, IdNow
    <3> QED
      BY <3>2, <3>3, <3>4 DEF TableOK
  <2>12. CallsOK'
    <3>1. CallOK(v)'
      <4>1. v.i < arena_count'
        BY <2>2, <2>4, <2>6
      <4>2. arenas'[v.i] = 0
        <5>1. n \in TableEntries
          BY <1>4, <1>6, <2>1 DEF TableEntries
        <5> QED
          BY <1>1, <1>4, <2>1, <2>6, <2>8, <5>1
      <4>3. /\ v.handle \in Handles' /\ made'[v.handle].start = v.mem.start /\ made'[v.handle].size = v.mem.size
            /\ made'[v.handle].os = v.mem.os /\ made'[v.handle].id = v.i + 1
        BY <2>3, <2>5, <2>6 DEF IdNow
      <4> QED
        BY <2>3, <2>6, <4>1, <4>2, <4>3 DEF CallOK
    <3>2. \A w \in Users : w # t /\ user[w].pc \in {"add", "store"} => user[w].handle # h
      BY <1>1, <1>3, <2>1 DEF CallsOK
    <3>3. ASSUME NEW w \in Users, NEW c \in Call, w # t, c = user[w], CallOK(c) PROVE CallOK(c)'
      <4>1. c.pc \in {"add", "store"} =>
              /\ c.handle \in Handles' /\ made'[c.handle].start = made[c.handle].start
              /\ made'[c.handle].size = made[c.handle].size /\ made'[c.handle].os = made[c.handle].os
              /\ made'[c.handle].id = made[c.handle].id
        BY <2>5, <3>2, <3>3 DEF CallOK, IdNow
      <4>2. c.i \in Nat /\ c.max \in Nat
        BY CallFields
      <4>3. (c.i < arena_count => c.i < arena_count') /\ (c.max <= arena_count => c.max <= arena_count')
        BY <2>1, <2>2, <2>4, <4>2
      <4>4. arenas' = arenas
        BY <1>1
      <4> QED
        BY <3>3, <4>1, <4>3, <4>4 DEF CallOK
    <3>4. v.pc \in {"add", "store"} =>
            \A w \in Users : w # t /\ user[w].pc \in {"add", "store"} => user[w].handle # v.handle
      BY <2>6, <3>2
    <3> QED
      BY <1>3, <2>7, <3>1, <3>3, <3>4, CallsStay
  <2>13. MemoryOK'
    <3>1. v.pc \in Adding /\ v.mem = user[t].mem
      BY <2>1, <2>6 DEF Adding
    <3>2. user \in [Users -> {UserIdle} \cup Call]
      BY <1>3 DEF ArenasTypeOK
    <3>3. \A i \in TableEntries : arenas[i] # 0 => /\ made'[arenas[i]].start = made[arenas[i]].start
                                                   /\ made'[arenas[i]].size = made[arenas[i]].size
                                                   /\ made'[arenas[i]].os = made[arenas[i]].os
      BY <2>5, <2>8 DEF IdNow
    <3>4. Spans' = Spans
      BY <1>1, <2>2, <3>1, <3>2, <3>3, SpansSame
    <3> QED
      BY <1>1, <1>3, <3>4, MemoryStays DEF memoryVars
  <2>14. BlocksOK'
    <3>1. arena_count' \in ArenaIds /\ arena_count' >= arena_count
      BY <2>1, <2>2, <2>4
    <3>2. \A i \in TableEntries : arenas[i] # 0 =>
            /\ made'[arenas[i]].start = made[arenas[i]].start
            /\ made'[arenas[i]].blocks = made[arenas[i]].blocks
            /\ made'[arenas[i]].inuse = made[arenas[i]].inuse
            /\ made'[arenas[i]].exclusive = made[arenas[i]].exclusive
            /\ made'[arenas[i]].large = made[arenas[i]].large
      BY <2>5, <2>8 DEF IdNow
    <3> QED
      BY <1>1, <1>3, <3>1, <3>2, BlocksStay
  <2>15. ~ended'
    BY <1>1, <1>2
  <2> QED
    BY <2>9, <2>10, <2>11, <2>12, <2>13, <2>14, <2>15, InvNext
<1> QED
  BY <1>5, <1>6

\* What a call does when its arena is in the table.
LEMMA AfterStore ==
  ASSUME NEW u \in Call, u.op = "alloc" => u.request \in AllocRequests, u.i < arena_count,
         NEW v, v = IF u.op = "alloc" THEN [u EXCEPT !.pc = "scan", !.only = TRUE, !.mem = << >>, !.handle = 0]
                    ELSE IF u.todo # << >> THEN [CallRecord("huge", u.request) EXCEPT !.pc = "map", !.mem = Head(u.todo), !.todo = Tail(u.todo)]
                    ELSE UserIdle
  PROVE  /\ v \in {UserIdle} \cup Call /\ (v = UserIdle \/ CallOK(v))
         /\ v.pc \notin {"metaundo", "add", "store"} /\ v.pc \notin Adding
<1>1. CASE u.op = "alloc"
  <2>1. v = [u EXCEPT !.pc = "scan", !.only = TRUE, !.mem = << >>, !.handle = 0]
    BY <1>1
  <2>2. << >> \in Mems /\ 0 \in Nat /\ "scan" \in UserPcs
    BY DEF Mems, NoMem, UserPcs
  <2>3. /\ v \in Call /\ v.pc = "scan" /\ v.op = "alloc" /\ v.request = u.request /\ v.i = u.i /\ v.only = TRUE
    BY <1>1, <2>1, <2>2 DEF Call
  <2>4. CallOK(v)
    BY <1>1, <2>3 DEF CallOK, Adding
  <2> QED
    BY <2>3, <2>4 DEF Adding
<1>2. CASE u.op # "alloc" /\ u.todo # << >>
  <2>1. u.todo \in Seq(FullPlan) /\ u.request \in Asked /\ "huge" \in UserOps
    BY CallFields DEF Todos, UserOps
  <2>6. Head(u.todo) \in FullPlan /\ Tail(u.todo) \in Todos
    BY <1>2, <2>1 DEF Todos
  <2>2. PICK mem, todo, r : mem = Head(u.todo) /\ todo = Tail(u.todo) /\ r = u.request
    OBVIOUS
  <2>3. v = [CallRecord("huge", r) EXCEPT !.pc = "map", !.mem = mem, !.todo = todo]
    BY <1>2, <2>2
  <2>7. mem \in FullPlan /\ todo \in Todos /\ r \in Asked
    BY <2>1, <2>2, <2>6
  <2>8. Planned([CallRecord("huge", r) EXCEPT !.pc = "map", !.mem = mem, !.todo = todo], "huge", r, mem)
    <3>1. "huge" \in UserOps
      BY DEF UserOps
    <3> QED
      BY <2>7, <3>1, PlannedIs
  <2>4. Planned(v, "huge", r, mem)
    BY <2>3, <2>8
  <2>5. v \in Call /\ v.pc = "map" /\ v.op = "huge" /\ v.mem \in FullPlan
    BY <2>4, <2>7 DEF Planned
  <2> QED
    BY <2>5, PlannedOK
<1>3. CASE u.op # "alloc" /\ ~(u.todo # << >>)
  <2>1. v = UserIdle /\ UserIdle.pc = "idle"
    BY <1>3 DEF UserIdle
  <2> QED
    BY <2>1 DEF Adding
<1> QED
  BY <1>1, <1>2, <1>3

LEMMA StoreArenaInv ==
  ASSUME ArenasInv, NEW t \in Users, StoreArena(t)
  PROVE  ArenasInv'
<1>1. PICK u, i, h, v :
        /\ u = user[t] /\ i = u.i /\ h = u.handle
        /\ v = IF u.op = "alloc" THEN [u EXCEPT !.pc = "scan", !.only = TRUE, !.mem = << >>, !.handle = 0]
               ELSE IF u.todo # << >> THEN [CallRecord("huge", u.request) EXCEPT !.pc = "map", !.mem = Head(u.todo), !.todo = Tail(u.todo)]
               ELSE UserIdle
  OBVIOUS
<1>2. /\ u.pc = "store" /\ arenas' = [arenas EXCEPT ![i] = h] /\ user' = [user EXCEPT ![t] = v]
      /\ UNCHANGED <<arena_count, made, static_top, static_live, mapped, alive, ended>>
  BY <1>1 DEF StoreArena, memoryVars
<1>3. ~ended /\ u \in Call /\ CallOK(u) /\ u.pc \in Adding
  BY <1>1, <1>2, InCall DEF UserPcs, Adding
<1>4. ArenasTypeOK /\ StaticOK /\ TableOK /\ CallsOK /\ MemoryOK /\ PiecesHere /\ BlocksApart
  BY <1>3, InvIs DEF BlocksOK
<1>5. /\ i < arena_count /\ arenas[i] = 0 /\ h \in Handles /\ made[h].id = i + 1 /\ u.mem \in Memory
      /\ made[h].start = u.mem.start /\ made[h].size = u.mem.size /\ made[h].os = u.mem.os
      /\ (u.op = "alloc" => u.request \in AllocRequests)
  BY <1>1, <1>2, <1>3 DEF CallOK
<1>6. i \in TableEntries /\ i \in Nat /\ h \in Nat /\ h # 0
  <2>1. i \in Nat
    BY <1>1, <1>3, CallFields
  <2> QED
    BY <1>4, <1>5, <2>1, Constants DEF TableEntries, ArenasTypeOK, ArenaIds, Handles
<1>7. /\ v \in {UserIdle} \cup Call /\ (v = UserIdle \/ CallOK(v))
      /\ v.pc \notin {"metaundo", "add", "store"} /\ v.pc \notin Adding
  BY <1>1, <1>3, <1>5, AfterStore
<1>8. UserStep(t, v)
  BY <1>2, <1>7 DEF UserStep
<1>9. /\ arenas' \in [TableEntries -> Nat] /\ arenas'[i] = h
      /\ \A j : j # i => arenas'[j] = arenas[j]
  <2>1. arenas \in [TableEntries -> Nat]
    BY <1>4 DEF ArenasTypeOK
  <2>2. \A j : j # i => [arenas EXCEPT ![i] = h][j] = arenas[j]
    BY <2>1
  <2> QED
    BY <1>2, <1>6, <2>1, <2>2
<1>10. ArenasTypeOK'
  BY <1>2, <1>4, <1>8, <1>9, UserStepType DEF ArenasTypeOK
<1>11. StaticOK'
  BY <1>2, <1>4, <1>7, <1>8, StaticStays
<1>12. TableOK'
  BY <1>2, <1>4, <1>5, <1>9 DEF TableOK, Handles
<1>13. CallsOK'
  <2>1. ASSUME NEW w \in Users, NEW c \in Call, w # t, c = user[w], CallOK(c) PROVE CallOK(c)'
    <3>1. ASSUME c.pc = "store" PROVE arenas'[c.i] = 0
      <4>1. c.handle \in Handles /\ arenas[c.i] = 0 /\ made[c.handle].id = c.i + 1 /\ c.i \in Nat
        BY <2>1, <3>1, CallFields DEF CallOK
      <4>2. c.handle # h
        BY <1>1, <1>2, <1>4, <2>1, <3>1 DEF CallsOK
      <4>3. c.i # i
        <5>1. \A g, k \in Handles : made[g].id = made[k].id /\ made[g].id # NONE => g = k
          BY <1>4 DEF TableOK
        <5>2. made[h].id # NONE
          BY <1>5, <1>6 DEF NONE
        <5> QED
          BY <1>5, <4>1, <4>2, <5>1, <5>2
      <4> QED
        BY <1>9, <4>1, <4>3
    <3> QED
      BY <1>2, <2>1, <3>1 DEF CallOK, Handles
  <2>2. v = UserIdle \/ CallOK(v)'
    <3>1. CallOK(v) /\ v.pc \notin {"add", "store"} => CallOK(v)'
      BY <1>2 DEF CallOK, Handles
    <3> QED
      BY <1>7, <3>1
  <2> QED
    BY <1>4, <1>7, <1>8, <2>1, <2>2, CallsStay
<1>14. MemoryOK'
  <2>1. PICK x, y : x = CallSpan(t) /\ y = <<"arena", i, made[h].start, made[h].size, made[h].os>>
    OBVIOUS
  <2>2. Spans' = (Spans \ {x}) \cup {y} /\ x \in Spans
    <3>1. user[t].pc \in Adding /\ v.pc \notin Adding /\ UNCHANGED <<made, alive>>
      BY <1>1, <1>2, <1>3, <1>7
    <3>2. Spans' = (Spans \ {CallSpan(t)}) \cup {y} /\ CallSpan(t) \in Spans
      BY <1>2, <1>4, <1>5, <1>6, <1>8, <2>1, <3>1, CallStores
    <3> QED
      BY <2>1, <3>2
  <2>3. y[3] = x[3] /\ y[4] = x[4] /\ y[5] = x[5]
    BY <1>1, <1>5, <2>1 DEF CallSpan
  <2> QED
    BY <1>2, <1>4, <2>2, <2>3, SpanMoved
<1>15. BlocksOK'
  <2>1. ASSUME NEW p \in alive', p.kind = "arena" PROVE PieceOK(p)'
    <3>1. p \in alive
      BY <1>2, <2>1
    <3>2. PieceOK(p) /\ arenas[p.id - 1] # 0
      BY <1>4, <2>1, <3>1, PieceIs
    <3>3. PICK g : g = arenas[p.id - 1] /\ g = arenas'[p.id - 1]
      BY <1>5, <1>9, <3>2
    <3> QED
      BY <1>2, <3>2, <3>3 DEF PieceOK, BlockStart, Blocks
  <2>2. PiecesHere'
    BY <2>1 DEF PiecesHere
  <2>3. BlocksApart'
    BY <1>2, <1>4 DEF BlocksApart, Blocks
  <2> QED
    BY <2>2, <2>3 DEF BlocksOK
<1>16. ~ended'
  BY <1>2, <1>3
<1> QED
  BY <1>10, <1>11, <1>12, <1>13, <1>14, <1>15, <1>16, InvNext

-----------------------------------------------------------------------------
(* What the invariant means for clients, and the end of the process.        *)

\* The memory of a piece is inside its arena.
LEMMA PieceInside ==
  ASSUME ArenasTypeOK, TableOK, PiecesHere, NEW p \in alive, p.kind = "arena", NEW i, i = p.id - 1,
         NEW a, a = made[arenas[i]]
  PROVE  /\ i \in TableEntries /\ i < arena_count /\ arenas[i] # 0
         /\ a.start \in Nat /\ a.size \in Nat /\ p.start \in Nat /\ p.size \in Nat /\ p.size >= 1
         /\ a.start <= p.start /\ p.start + p.size <= a.start + a.size
         /\ p.start < BlockStart(a, a.blocks)
<1>1. /\ p \in ArenaPiece /\ PieceOK(p) /\ i \in TableEntries /\ arenas[i] # 0 /\ arenas[i] \in Handles
  BY PieceIs
<1>2. a \in MadeArena /\ i < arena_count
  BY <1>1, ArenaIs
<1>3. PICK n, b, c, s : n = p.size \div BLOCK /\ b = p.block /\ c = a.blocks /\ s = a.start
  OBVIOUS
<1>4. /\ n \in Nat /\ b \in Nat /\ c \in Nat /\ s \in Nat /\ a.size \in Nat /\ p.size \in Nat /\ p.size >= 1
      /\ p.start \in Nat /\ BLOCK \in Nat /\ BLOCK >= 1
  BY <1>1, <1>2, <1>3, PieceFields, ArenaFields, Constants
<1>5. /\ p.start = s + b * BLOCK /\ p.size = n * BLOCK /\ b + n <= c
  BY <1>1, <1>3 DEF PieceOK, BlockStart
<1>6. c * BLOCK <= a.size
  BY <1>1, <1>3 DEF TableOK
<1>7. /\ b * BLOCK \in Nat /\ n * BLOCK \in Nat /\ c * BLOCK \in Nat /\ (b + n) * BLOCK = b * BLOCK + n * BLOCK
      /\ (b + n) * BLOCK <= c * BLOCK
  BY <1>4, <1>5, Product
<1>8. a.start <= p.start /\ p.start + p.size <= a.start + a.size
  BY <1>3, <1>4, <1>5, <1>6, <1>7
<1>9. BlockStart(a, a.blocks) = s + c * BLOCK
  BY <1>3 DEF BlockStart
<1>10. p.start < BlockStart(a, a.blocks)
  BY <1>4, <1>5, <1>7, <1>9
<1> QED
  BY <1>1, <1>2, <1>3, <1>4, <1>8, <1>10

\* Pieces with different blocks of one arena do not overlap.
LEMMA BlocksBeside ==
  ASSUME NEW s \in Nat, NEW d \in Nat, d >= 1, NEW b \in Nat, NEW n \in Nat, NEW c \in Nat, NEW m \in Nat,
         n >= 1, m >= 1, (b .. b + n - 1) \cap (c .. c + m - 1) = {}
  PROVE  Beside(s + b * d, n * d, s + c * d, m * d)
<1>1. b + n <= c \/ c + m <= b
  <2>1. SUFFICES ASSUME ~(b + n <= c), ~(c + m <= b) PROVE FALSE
    OBVIOUS
  <2>2. CASE b <= c
    <3>1. c \in b .. b + n - 1 /\ c \in c .. c + m - 1
      BY <2>1, <2>2
    <3> QED
      BY <3>1
  <2>3. CASE c <= b
    <3>1. b \in b .. b + n - 1 /\ b \in c .. c + m - 1
      BY <2>1, <2>3
    <3> QED
      BY <3>1
  <2> QED
    BY <2>2, <2>3
<1>2. b * d \in Nat /\ n * d \in Nat /\ c * d \in Nat /\ m * d \in Nat
  BY Product
<1>3. CASE b + n <= c
  <2>1. (b + n) * d = b * d + n * d /\ (b + n) * d <= c * d
    BY <1>3, Product
  <2> QED
    BY <1>2, <2>1 DEF Beside
<1>4. CASE c + m <= b
  <2>1. (c + m) * d = c * d + m * d /\ (c + m) * d <= b * d
    BY <1>4, Product
  <2> QED
    BY <1>2, <2>1 DEF Beside
<1> QED
  BY <1>1, <1>3, <1>4

\* The span somebody holds that a client's memory is in.
LEMMA PieceSpan ==
  ASSUME ArenasInv, ~ended, NEW p \in alive
  PROVE  \E x \in Spans : /\ x[3] <= p.start /\ p.start + p.size <= x[3] + x[4]
                          /\ p.start \in Nat /\ p.size \in Nat /\ p.size >= 1
                          /\ p.kind = "arena" => x = ArenaSpan(p.id - 1)
                          /\ p.kind = "os" => x = OsSpan(p)
                          /\ p.kind \in {"arena", "os"}
<1>1. ArenasTypeOK /\ TableOK /\ PiecesHere
  BY InvIs DEF BlocksOK
<1>2. CASE p.kind = "arena"
  <2>1. PICK i, a, x : i = p.id - 1 /\ a = made[arenas[i]] /\ x = ArenaSpan(i)
    OBVIOUS
  <2>2. /\ i \in TableEntries /\ arenas[i] # 0 /\ p.start \in Nat /\ p.size \in Nat /\ p.size >= 1
        /\ a.start <= p.start /\ p.start + p.size <= a.start + a.size
    BY <1>1, <1>2, <2>1, PieceInside
  <2>3. x \in Spans
    BY <2>1, <2>2, SpanIs
  <2>4. x[3] = a.start /\ x[4] = a.size
    BY <2>1 DEF ArenaSpan
  <2> QED
    BY <1>2, <2>1, <2>2, <2>3, <2>4
<1>3. CASE p.kind # "arena"
  <2>1. p \in OsPiece
    BY <1>1, <1>3 DEF ArenasTypeOK, ArenaPiece
  <2>2. p.kind = "os" /\ p.start \in Nat /\ p.size \in Nat /\ p.size >= 1
    BY <2>1 DEF OsPiece
  <2>3. PICK x : x = OsSpan(p)
    OBVIOUS
  <2>4. x \in Spans
    BY <2>2, <2>3, SpanIs
  <2>5. x[3] = p.start /\ x[4] = p.size
    BY <2>3 DEF OsSpan
  <2> QED
    BY <2>2, <2>3, <2>4, <2>5
<1> QED
  BY <1>2, <1>3

\* Memory of clients does not overlap.
LEMMA WorkingApart ==
  ASSUME ArenasInv, ~ended
  PROVE  AliveApart
<1>1. ArenasTypeOK /\ TableOK /\ PiecesHere /\ BlocksApart /\ SpansApart
  BY InvIs DEF BlocksOK, MemoryOK
<1>2. ASSUME NEW p \in alive, NEW q \in alive, p # q PROVE Beside(p.start, p.size, q.start, q.size)
  <2>1. PICK x \in Spans : /\ x[3] <= p.start /\ p.start + p.size <= x[3] + x[4]
                           /\ p.start \in Nat /\ p.size \in Nat /\ p.size >= 1
                           /\ p.kind = "arena" => x = ArenaSpan(p.id - 1)
                           /\ p.kind = "os" => x = OsSpan(p)
                           /\ p.kind \in {"arena", "os"}
    BY PieceSpan
  <2>2. PICK y \in Spans : /\ y[3] <= q.start /\ q.start + q.size <= y[3] + y[4]
                           /\ q.start \in Nat /\ q.size \in Nat /\ q.size >= 1
                           /\ q.kind = "arena" => y = ArenaSpan(q.id - 1)
                           /\ q.kind = "os" => y = OsSpan(q)
                           /\ q.kind \in {"arena", "os"}
    BY PieceSpan
  <2>3. CASE x # y
    <3>1. Beside(x[3], x[4], y[3], y[4])
      BY <1>1, <2>3 DEF SpansApart
    <3>2. x[3] \in Nat /\ x[4] \in Nat /\ y[3] \in Nat /\ y[4] \in Nat
      BY MemoryFacts
    <3> QED
      BY <2>1, <2>2, <3>1, <3>2 DEF Beside
  <2>4. CASE x = y
    <3>1. p.kind = "arena" /\ q.kind = "arena" /\ p.id - 1 = q.id - 1
      <4>1. ~(p.kind = "os" /\ q.kind = "os")
        BY <1>2, <2>1, <2>2, <2>4, SpanTags
      <4>2. ~(p.kind = "os" /\ q.kind = "arena")
        BY <2>1, <2>2, <2>4, SpanTags
      <4>3. ~(p.kind = "arena" /\ q.kind = "os")
        BY <2>1, <2>2, <2>4, SpanTags
      <4>4. p.kind = "arena" /\ q.kind = "arena"
        BY <2>1, <2>2, <4>1, <4>2, <4>3
      <4> QED
        BY <2>1, <2>2, <2>4, <4>4, SpanTags
    <3>2. p \in ArenaPiece /\ q \in ArenaPiece /\ PieceOK(p) /\ PieceOK(q)
      BY <1>1, <3>1, PieceIs
    <3>3. /\ p.id \in Nat /\ q.id \in Nat /\ p.block \in Nat /\ q.block \in Nat
          /\ p.size \div BLOCK \in Nat /\ q.size \div BLOCK \in Nat
      BY <3>2, PieceFields
    <3>4. p.id = q.id
      BY <3>1, <3>3
    <3>5. PICK i, a, n, m : /\ i = p.id - 1 /\ i = q.id - 1 /\ a = made[arenas[i]]
                            /\ n = p.size \div BLOCK /\ m = q.size \div BLOCK
      BY <3>4
    <3>6. /\ p.start = a.start + p.block * BLOCK /\ q.start = a.start + q.block * BLOCK
          /\ p.size = n * BLOCK /\ q.size = m * BLOCK
      BY <3>2, <3>5 DEF PieceOK, BlockStart
    <3>7. Blocks(p) \cap Blocks(q) = {}
      BY <1>1, <1>2, <3>1, <3>4 DEF BlocksApart
    <3>8. (p.block .. p.block + n - 1) \cap (q.block .. q.block + m - 1) = {}
      BY <3>5, <3>7 DEF Blocks
    <3>9. n \in Nat /\ m \in Nat /\ n >= 1 /\ m >= 1 /\ BLOCK \in Nat /\ BLOCK >= 1
      BY <2>1, <2>2, <3>3, <3>5, <3>6, Constants
    <3>10. a.start \in Nat
      BY <1>1, <3>1, <3>5, PieceInside
    <3>11. Beside(a.start + p.block * BLOCK, n * BLOCK, a.start + q.block * BLOCK, m * BLOCK)
      BY <3>3, <3>8, <3>9, <3>10, BlocksBeside
    <3> QED
      BY <3>6, <3>11
  <2> QED
    BY <2>3, <2>4
<1> QED
  BY <1>2 DEF AliveApart

\* Memory of the OS is accounted for.
LEMMA WorkingAccounted ==
  ASSUME ArenasInv, ~ended
  PROVE  AllAccounted
<1>1. ASSUME NEW m \in mapped PROVE Accounted(m)
  <2>1. PICK x \in Spans : x[5] /\ x[3] = m[1] /\ x[4] = m[2]
    BY InvIs DEF MemoryOK, MappedHeld
  <2>2. ASSUME NEW i \in TableEntries, arenas[i] # 0, x = ArenaSpan(i) PROVE Accounted(m)
    <3>1. made[arenas[i]].os /\ made[arenas[i]].start = m[1]
      BY <2>1, <2>2 DEF ArenaSpan
    <3> QED
      BY <2>2, <3>1 DEF Accounted, Owned
  <2>3. ASSUME NEW t \in Users, user[t].pc \in Adding, x = CallSpan(t) PROVE Accounted(m)
    <3>1. user[t].mem.start = m[1]
      BY <2>1, <2>3 DEF CallSpan
    <3> QED
      BY <2>3, <3>1 DEF Accounted
  <2>4. ASSUME NEW p \in alive, p.kind = "os", x = OsSpan(p) PROVE Accounted(m)
    <3>1. p.start = m[1]
      BY <2>1, <2>4 DEF OsSpan
    <3> QED
      BY <2>4, <3>1 DEF Accounted
  <2> QED
    BY <2>2, <2>3, <2>4, SpanIs
<1> QED
  BY <1>1 DEF AllAccounted

\* An arena finds the memory of a client again.
LEMMA WorkingFound ==
  ASSUME ArenasInv, ~ended, NEW p \in alive
  PROVE  FoundAgain(p)
<1>1. ArenasTypeOK /\ TableOK /\ PiecesHere /\ SpansPlaced
  BY InvIs DEF BlocksOK, MemoryOK
<1>2. PICK x \in Spans : /\ x[3] <= p.start /\ p.start + p.size <= x[3] + x[4]
                         /\ p.start \in Nat /\ p.size \in Nat /\ p.size >= 1
  BY PieceSpan
<1>3. x[3] \in Nat /\ x[4] \in Nat
  BY MemoryFacts
<1>4. GivenTo(p) \/ MappedTo(p)
  <2>1. CASE x[5]
    <3>1. PICK m : m = <<x[3], x[4]>>
      OBVIOUS
    <3>2. m \in mapped /\ m[1] = x[3] /\ m[2] = x[4]
      BY <1>1, <2>1, <3>1 DEF SpansPlaced
    <3>3. BytesAt(p.start, p.size) \subseteq BytesAt(m[1], m[2])
      BY <1>2, <1>3, <3>2 DEF BytesAt
    <3> QED
      BY <3>2, <3>3 DEF MappedTo
  <2>2. CASE ~x[5]
    <3>1. PICK g \in Given : GivenSpan(x, g)
      BY <1>1, <2>2 DEF SpansPlaced
    <3>2. g.start \in Nat /\ g.size \in Nat /\ g.start <= x[3] /\ x[3] + x[4] <= g.start + g.size
      BY <3>1, GivenIs DEF GivenSpan
    <3>3. BytesAt(p.start, p.size) \subseteq BytesAt(g.start, g.size)
      BY <1>2, <1>3, <3>2 DEF BytesAt
    <3> QED
      BY <3>3 DEF GivenTo
  <2> QED
    BY <2>1, <2>2
<1>5. ASSUME p.kind = "arena"
      PROVE  LET h == arenas[p.id - 1]
             IN /\ h # 0 /\ p.start = BlockStart(made[h], p.block) /\ ArenaContains(p.start)
                /\ p.block .. p.block + (p.size \div BLOCK) - 1 \subseteq made[h].inuse
                /\ made[h].exclusive => p.req = p.id
                /\ made[h].large => p.large
  <2>1. PICK i, a : i = p.id - 1 /\ a = made[arenas[i]]
    OBVIOUS
  <2>2. /\ i \in TableEntries /\ i < arena_count /\ arenas[i] # 0
        /\ a.start <= p.start /\ p.start < BlockStart(a, a.blocks)
    BY <1>1, <1>5, <2>1, PieceInside
  <2>3. i \in 0 .. arena_count - 1
    BY <1>1, <2>2, Constants DEF TableEntries, ArenasTypeOK, ArenaIds
  <2>4. ArenaContains(p.start)
    <3>1. a.start \in Nat
      BY <1>1, <1>5, <2>1, PieceInside
    <3> QED
      BY <1>2, <2>1, <2>2, <2>3, <3>1 DEF ArenaContains
  <2>5. PieceOK(p)
    BY <1>1, <1>5 DEF PiecesHere
  <2> QED
    BY <2>4, <2>5 DEF PieceOK, Blocks
<1> QED
  BY <1>4, <1>5 DEF FoundAgain

\* A set of numbers below a bound has a greatest element.
LEMMA GreatestBelow ==
  ASSUME NEW n \in Nat, NEW S \in SUBSET (0 .. n - 1), S # {}
  PROVE  \E x \in S : \A y \in S : y <= x
<1> DEFINE R == {p \in Nat \X Nat : p[1] < p[2]}
           T == {k \in Nat : n - 1 - k \in S}
<1>1. IsWellFoundedOn(R, Nat)
  BY NatLessThanWellFounded DEF OpToRel
<1>2. T \in SUBSET Nat /\ T # {}
  <2>1. PICK s \in S : s \in 0 .. n - 1
    OBVIOUS
  <2>2. n - 1 - s \in Nat /\ n - 1 - (n - 1 - s) = s
    BY <2>1
  <2>3. n - 1 - s \in T
    BY <2>1, <2>2
  <2> QED
    BY <2>3
<1>3. PICK k \in T : \A l \in T : <<l, k>> \notin R
  BY <1>1, <1>2, WFMin
<1>4. PICK x \in S : x = n - 1 - k
  BY <1>3
<1>5. ASSUME NEW y \in S PROVE y <= x
  <2>1. PICK l : l = n - 1 - y
    OBVIOUS
  <2>2. l \in T /\ l \in Nat
    <3>1. l \in Nat /\ n - 1 - l = y
      BY <1>5, <2>1
    <3> QED
      BY <3>1
  <2>3. <<l, k>> \notin R
    BY <1>3, <2>2
  <2>4. ~(l < k)
    BY <1>3, <2>2, <2>3
  <2> QED
    BY <1>3, <1>4, <2>1, <2>2, <2>4
<1> QED
  BY <1>5

LEMMA DestroyAllInv ==
  ASSUME ArenasInv, DestroyAll
  PROVE  ArenasInv'
<1>1. PICK known : known = 0 .. arena_count - 1
  OBVIOUS
<1>2. /\ ~ended /\ ended' = TRUE /\ AllIdle
      /\ arenas' = [i \in TableEntries |-> IF i \in known /\ Owned(i) THEN 0 ELSE arenas[i]]
      /\ mapped' = mapped \ {<<made[arenas[i]].start, made[arenas[i]].size>> : i \in {j \in known : Owned(j)}}
      /\ arena_count' = IF \E i \in known : Kept(i)
                          THEN CHOOSE i \in known : Kept(i) /\ \A j \in known : Kept(j) => j <= i ELSE 0
      /\ UNCHANGED <<made, static_top, static_live, alive, user>>
  BY <1>1 DEF DestroyAll, AllIdle
<1>3. ArenasTypeOK /\ StaticOK /\ TableOK /\ MemoryOK /\ AliveApart /\ AllAccounted
  BY <1>2, InvIs, WorkingApart, WorkingAccounted
<1>4. arena_count \in Nat /\ arena_count <= MAX_ARENAS /\ MAX_ARENAS \in Nat
  BY <1>3, Constants DEF ArenasTypeOK, ArenaIds
<1>5. arena_count' \in ArenaIds
  <2>1. CASE \E i \in known : Kept(i)
    <3>1. PICK S : S = {i \in known : Kept(i)}
      OBVIOUS
    <3>2. S \in SUBSET (0 .. arena_count - 1) /\ S # {}
      BY <1>1, <2>1, <3>1
    <3>3. PICK x \in S : \A y \in S : y <= x
      BY <1>4, <3>2, GreatestBelow
    <3>4. \E i \in known : Kept(i) /\ \A j \in known : Kept(j) => j <= i
      BY <3>1, <3>3
    <3>5. arena_count' \in known
      BY <1>2, <2>1, <3>4
    <3> QED
      BY <1>1, <1>4, <3>5 DEF ArenaIds
  <2>2. CASE ~(\E i \in known : Kept(i))
    BY <1>2, <1>4, <2>2 DEF ArenaIds
  <2> QED
    BY <2>1, <2>2
<1>6. ArenasTypeOK'
  <2>1. arenas' \in [TableEntries -> Nat]
    BY <1>2, <1>3 DEF ArenasTypeOK
  <2>2. mapped' \subseteq mapped
    BY <1>2
  <2> QED
    BY <1>2, <1>3, <1>5, <2>1, <2>2 DEF ArenasTypeOK
<1>7. StaticOK'
  BY <1>2, <1>3 DEF StaticOK, Beside, Over
<1>8. AllIdle' /\ AliveApart'
  BY <1>2, <1>3 DEF AllIdle, AliveApart, Beside
<1>9. AllAccounted'
  <2>1. ASSUME NEW m \in mapped' PROVE Accounted(m)'
    <3>1. m \in mapped /\ m \in Nat \X (Nat \ {0})
      BY <1>2, <1>3, <2>1 DEF ArenasTypeOK
    <3>2. PICK x \in Spans : x[5] /\ x[3] = m[1] /\ x[4] = m[2]
      BY <1>3, <3>1 DEF MemoryOK, MappedHeld
    <3>3. ASSUME NEW i \in TableEntries, arenas[i] # 0, x = ArenaSpan(i) PROVE FALSE
      <4>1. made[arenas[i]].os /\ made[arenas[i]].start = m[1] /\ made[arenas[i]].size = m[2]
        BY <3>2, <3>3 DEF ArenaSpan
      <4>2. i < arena_count
        BY <1>3, <3>3 DEF TableOK
      <4>3. i \in known /\ Owned(i)
        BY <1>1, <1>4, <3>3, <4>1, <4>2 DEF Owned, TableEntries
      <4>4. <<made[arenas[i]].start, made[arenas[i]].size>> \notin mapped'
        BY <1>2, <4>3
      <4>5. m = <<made[arenas[i]].start, made[arenas[i]].size>>
        BY <3>1, <4>1
      <4> QED
        BY <2>1, <4>4, <4>5
    <3>4. ASSUME NEW t \in Users, user[t].pc \in Adding PROVE FALSE
      BY <1>2, <3>4 DEF AllIdle, UserIdle, Adding
    <3>5. PICK p \in alive : p.kind = "os" /\ x = OsSpan(p)
      BY <3>3, <3>4, SpanIs
    <3>6. p.start = m[1]
      BY <3>2, <3>5 DEF OsSpan
    <3> QED
      BY <1>2, <3>5, <3>6 DEF Accounted
  <2> QED
    BY <2>1 DEF AllAccounted
<1> QED
  BY <1>2, <1>6, <1>7, <1>8, <1>9 DEF ArenasInv

-----------------------------------------------------------------------------
(* Every step, and the theorems.                                            *)

LEMMA ArenasInitInv ==
  ASSUME ArenasInit
  PROVE  ArenasInv
<1>1. /\ arenas = [i \in TableEntries |-> 0] /\ arena_count = 0 /\ made = << >>
      /\ static_top = 0 /\ static_live = {} /\ mapped = {} /\ alive = {}
      /\ user = [t \in Users |-> UserIdle] /\ ended = FALSE
  BY DEF ArenasInit
<1>2. ArenasTypeOK
  <2>1. arenas \in [TableEntries -> Nat] /\ arena_count \in ArenaIds /\ static_top \in Nat
    BY <1>1, Constants DEF ArenaIds
  <2>2. made \in Seq(MadeArena)
    BY <1>1
  <2>3. user \in [Users -> {UserIdle} \cup Call]
    BY <1>1
  <2>4. static_live \subseteq Nat \X {META} /\ mapped \subseteq Nat \X (Nat \ {0}) /\ ended \in BOOLEAN
        /\ alive \subseteq ArenaPiece \cup OsPiece
    BY <1>1
  <2> QED
    BY <2>1, <2>2, <2>3, <2>4 DEF ArenasTypeOK
<1>3. \A t \in Users : user[t] = UserIdle /\ user[t].pc = "idle"
  BY <1>1 DEF UserIdle
<1>4. StaticOK
  BY <1>1, <1>3 DEF StaticOK
<1>5. Handles = {}
  BY <1>1 DEF Handles
<1>6. TableOK
  BY <1>1, <1>5 DEF TableOK
<1>7. CallsOK
  BY <1>3 DEF CallsOK
<1>8. \A x : x \notin Spans
  BY <1>1, <1>3, SpanIs DEF Adding
<1>9. MemoryOK
  BY <1>1, <1>8 DEF MemoryOK, SpansApart, SpansPlaced, MappedApart, MappedHeld
<1>10. BlocksOK
  BY <1>1 DEF BlocksOK, PiecesHere, BlocksApart
<1> QED
  BY <1>1, <1>2, <1>4, <1>6, <1>7, <1>9, <1>10, InvIs

LEMMA ArenasStutter ==
  ASSUME ArenasInv, UNCHANGED arenasVars
  PROVE  ArenasInv'
<1>1. UNCHANGED <<arenas, arena_count, made, static_top, static_live, mapped, alive, user, ended>>
  BY DEF arenasVars
<1>2. ArenasTypeOK' /\ StaticOK'
  BY <1>1 DEF ArenasInv, ArenasTypeOK, StaticOK, Beside, Over
<1>3. CASE ended
  <2>1. AllIdle' /\ AliveApart' /\ ended'
    BY <1>1, <1>3 DEF ArenasInv, AllIdle, AliveApart, Beside
  <2>2. AllAccounted'
    BY <1>1, <1>3 DEF ArenasInv, AllAccounted, Accounted, Owned
  <2> QED
    BY <1>2, <2>1, <2>2 DEF ArenasInv
<1>4. CASE ~ended
  <2>1. ArenasTypeOK /\ TableOK /\ CallsOK /\ MemoryOK /\ BlocksOK
    BY <1>4, InvIs
  <2>2. TableOK' /\ CallsOK'
    BY <1>1, <2>1 DEF TableOK, CallsOK, CallOK, Handles
  <2>3. \A x : x \in Spans' <=> x \in Spans
    BY <1>1, SpanIs, SpanIsNext DEF ArenaSpan, CallSpan, OsSpan
  <2>4. Spans' = Spans
    BY <2>3
  <2>5. MemoryOK'
    BY <1>1, <2>1, <2>4, MemoryStays
  <2>6. BlocksOK'
    <3>1. arena_count' \in ArenaIds /\ arena_count' >= arena_count
      BY <1>1, <2>1, Constants DEF ArenasTypeOK, ArenaIds
    <3> QED
      BY <1>1, <2>1, <3>1, BlocksStay
  <2> QED
    BY <1>1, <1>2, <1>4, <2>2, <2>5, <2>6, InvNext
<1> QED
  BY <1>3, <1>4

LEMMA ArenasStep ==
  ASSUME ArenasInv, [ArenasNext]_arenasVars
  PROVE  ArenasInv'
<1>1. ASSUME NEW t \in Users, NEW r \in AllocRequests, AllocAligned(t, r) PROVE ArenasInv'
  BY <1>1, AllocAlignedInv
<1>2. ASSUME NEW t \in Users, NEW r \in Reservations, ReserveOsMemory(t, r) PROVE ArenasInv'
  BY <1>2, ReserveOsMemoryInv
<1>3. ASSUME NEW t \in Users, NEW pages \in HugeRequests, ReserveHuge(t, pages) PROVE ArenasInv'
  BY <1>3, ReserveHugeInv
<1>4. ASSUME NEW t \in Users, NEW g \in Given, ManageOsMemory(t, g) PROVE ArenasInv'
  BY <1>4, ManageOsMemoryInv
<1>5. ASSUME NEW t \in Users, NEW p \in alive, FreeMemory(t, p) PROVE ArenasInv'
  <2>1. CASE p.kind = "os"
    BY <1>5, <2>1, FreeOsInv
  <2>2. CASE p.kind # "os"
    <3>1. p \in ArenaPiece
      BY <2>2 DEF ArenasInv, ArenasTypeOK, OsPiece
    <3>2. p.kind = "arena"
      BY <3>1, PieceFields
    <3> QED
      BY <1>5, <3>2, FreeArenaInv
  <2> QED
    BY <2>1, <2>2
<1>6. ASSUME NEW t \in Users, TryArena(t) \/ FromOs(t) \/ Reserve(t) \/ MapMemory(t) PROVE ArenasInv'
  BY <1>6, TryArenaInv, FromOsInv, ReserveInv, MapMemoryInv
<1>7. ASSUME NEW t \in Users, Meta(t) \/ MetaAdd(t) \/ MetaUndo(t) \/ MetaOs(t) PROVE ArenasInv'
  BY <1>7, MetaInv, MetaAddInv, MetaUndoInv, MetaOsInv
<1>8. ASSUME NEW t \in Users, AddArena(t) \/ StoreArena(t) \/ Release(t) PROVE ArenasInv'
  BY <1>8, AddArenaInv, StoreArenaInv, ReleaseInv
<1>9. CASE DestroyAll
  BY <1>9, DestroyAllInv
<1>10. CASE ArenasEnded \/ UNCHANGED arenasVars
  BY <1>10, ArenasStutter DEF ArenasEnded
<1> QED
  BY <1>1, <1>2, <1>3, <1>4, <1>5, <1>6, <1>7, <1>8, <1>9, <1>10 DEF ArenasNext

\* The table of arenas, the calls that search it and add to it, the memory that is held
\* and the blocks in use agree (ArenasInv), from whatever mixture of allocations, frees,
\* reservations and failures of any number of threads (arena.c).
THEOREM ArenasInvariance == ArenasSpec => []ArenasInv
<1>1. ArenasInit => ArenasInv
  BY ArenasInitInv
<1>2. ArenasInv /\ [ArenasNext]_arenasVars => ArenasInv'
  BY ArenasStep
<1> QED
  BY <1>1, <1>2, PTL DEF ArenasSpec

LEMMA StaticApart ==
  ASSUME ArenasInv
  PROVE  /\ \A x \in static_live : x[1] + x[2] <= STATIC_MAX
         /\ \A x, y \in static_live : x # y => BytesAt(x[1], x[2]) \cap BytesAt(y[1], y[2]) = {}
<1>1. ArenasTypeOK /\ StaticOK
  BY DEF ArenasInv
<1>2. ASSUME NEW x \in static_live, NEW y \in static_live, x # y
      PROVE  BytesAt(x[1], x[2]) \cap BytesAt(y[1], y[2]) = {}
  <2>1. Beside(x[1], x[2], y[1], y[2])
    BY <1>1, <1>2 DEF StaticOK
  <2>2. x[1] \in Nat /\ x[2] \in Nat /\ y[1] \in Nat /\ y[2] \in Nat
    BY <1>1, StaticFacts
  <2> QED
    BY <2>1, <2>2 DEF Beside, BytesAt
<1> QED
  BY <1>1, <1>2 DEF StaticOK

\* Whatever threads do with the table of arenas, memory is handed out once and found
\* again by its id, exclusive and large arenas serve only those who ask, no mapped
\* memory is lost, and the structures in the static area do not overlap, for any number
\* of threads, entries and blocks and any sizes (arena.c).
THEOREM ArenasSafe == ArenasSpec => []ArenasSound
<1>1. ASSUME ArenasInv PROVE ArenasSound
  <2>1. ArenasTypeOK /\ AliveApart /\ AllAccounted
    BY <1>1, WorkingApart, WorkingAccounted DEF ArenasInv
  <2>2. ~ended => \A p \in alive : FoundAgain(p)
    BY <1>1, WorkingFound
  <2>3. ASSUME NEW p \in alive, NEW q \in alive, p # q
        PROVE  BytesAt(p.start, p.size) \cap BytesAt(q.start, q.size) = {}
    <3>1. Beside(p.start, p.size, q.start, q.size)
      BY <2>1, <2>3 DEF AliveApart
    <3>2. \A r \in alive : r.start \in Nat /\ r.size \in Nat
      <4>1. \A r \in ArenaPiece \cup OsPiece : r.start \in Nat /\ r.size \in Nat
        BY DEF ArenaPiece, OsPiece
      <4> QED
        BY <2>1, <4>1 DEF ArenasTypeOK
    <3>3. p.start \in Nat /\ p.size \in Nat /\ q.start \in Nat /\ q.size \in Nat
      BY <3>2
    <3> QED
      BY <3>1, <3>3 DEF Beside, BytesAt
  <2>4. \A m \in mapped : Accounted(m)
    BY <2>1 DEF AllAccounted
  <2> QED
    BY <1>1, <2>2, <2>3, <2>4, StaticApart DEF ArenasSound
<1>2. ArenasInv => ArenasSound
  BY <1>1
<1> QED
  BY <1>2, ArenasInvariance, PTL
=============================================================================
