--------------------------- MODULE SegmentsProofs ---------------------------
(***************************************************************************)
(* Theorems about Segments, for any number of segments, threads and slices *)
(* and any sizes of pages, if realloc grows a page only where that is      *)
(* right (ExtendsSafely).                                                  *)
(*                                                                         *)
(* Inv says that each segment is free memory or is tiled by spans T, those *)
(* in P in use and the others free (Held), and that the queues of a thread *)
(* hold the free spans of its segments (QueuesOK).  In the middle of a     *)
(* call one span is neither (SoundBut), and a loop over the spans has      *)
(* queued those before the slice it is at (Orphanage, Taking, Forcing).    *)
(* The order is: spans and entries, masks, merging, freeing and            *)
(* allocating a span, queues, the loops, and then the steps (the lemmas    *)
(* named after them, ending in Fits).                                      *)
(*                                                                         *)
(* What is needed for all numbers or slices is shown by the absence of a   *)
(* least one without it (LeastNat).                                        *)
(***************************************************************************)
EXTENDS Segments, FiniteSetTheorems, SequenceTheorems, WellFoundedInduction, TLAPS

-----------------------------------------------------------------------------
(* Numbers, and functions defined by recursion over entries.                *)

LEMMA LeastNat ==
  ASSUME NEW S \in SUBSET Nat, S # {}
  PROVE  \E x \in S : \A y \in S : x <= y
<1> DEFINE R == {p \in Nat \X Nat : p[1] < p[2]}
<1>1. IsWellFoundedOn(R, Nat)
  BY NatLessThanWellFounded DEF OpToRel
<1>2. PICK x \in S : \A y \in S : <<y, x>> \notin R
  BY ZenonT(30), <1>1, WFMin
<1>3. ASSUME NEW y \in S PROVE x <= y
  <2>1. <<y, x>> \notin R
    BY <1>2
  <2>2. y \in Nat /\ x \in Nat
    OBVIOUS
  <2>3. ~(y < x)
    BY <2>1, <2>2
  <2> QED
    BY <2>2, <2>3
<1> QED
  BY <1>3

LEMMA Half ==
  ASSUME NEW m \in Nat, m >= 8
  PROVE  m \div 2 \in Nat /\ m \div 2 < m /\ 4 <= m \div 2
OBVIOUS

\* What SliceBin computes exists.
BinFunction(f) ==
  /\ f = [m \in 0 .. SLICES |-> f[m]]
  /\ \A m \in 0 .. SLICES : f[m] = IF m < 8 THEN m ELSE 4 + f[m \div 2]

LEMMA BinExists == \E f : BinFunction(f)
<1> DEFINE Upto(f, n) == /\ f = [m \in 0 .. n |-> f[m]]
                         /\ \A m \in 0 .. n : f[m] = IF m < 8 THEN m ELSE 4 + f[m \div 2]
           Bad == {n \in Nat : ~\E f : Upto(f, n)}
<1>1. SLICES \in Nat
  BY SizesAssumption
<1>2. Bad = {}
  <2> SUFFICES ASSUME Bad # {} PROVE FALSE
    OBVIOUS
  <2>1. PICK n \in Bad : \A k \in Bad : n <= k
    <3>1. Bad \in SUBSET Nat
      OBVIOUS
    <3> HIDE DEF Bad
    <3> QED
      BY <3>1, LeastNat
  <2>2. CASE n = 0
    <3>1. Upto([m \in 0 .. 0 |-> m], 0)
      OBVIOUS
    <3> QED
      BY ZenonT(30), <2>2, <3>1
  <2>3. CASE n # 0
    <3>1. n - 1 \in Nat /\ n - 1 \notin Bad
      BY <2>1, <2>3
    <3>2. PICK f : Upto(f, n - 1)
      BY <3>1
    <3> DEFINE h == [m \in 0 .. n |-> IF m < n THEN f[m] ELSE IF n < 8 THEN n ELSE 4 + f[n \div 2]]
    <3>3. \A m \in 0 .. n : h[m] = IF m < 8 THEN m ELSE 4 + h[m \div 2]
      <4> SUFFICES ASSUME NEW m \in 0 .. n PROVE h[m] = IF m < 8 THEN m ELSE 4 + h[m \div 2]
        BY ZenonT(30)
      <4>0. n \in Nat /\ m \in Nat
        BY <2>1
      <4>1. m >= 8 => m \div 2 \in Nat /\ m \div 2 < m
        BY <4>0, Half
      <4>2. m >= 8 => m \div 2 \in 0 .. n - 1 /\ m \div 2 \in 0 .. n
        BY <4>0, <4>1
      <4>3. m >= 8 => h[m \div 2] = f[m \div 2]
        BY <4>0, <4>2
      <4>4. m < n => m \in 0 .. n - 1 /\ h[m] = f[m]
        BY <4>0
      <4>5. m = n => h[m] = IF n < 8 THEN n ELSE 4 + f[n \div 2]
        OBVIOUS
      <4>6. m < n => f[m] = IF m < 8 THEN m ELSE 4 + f[m \div 2]
        BY ZenonT(30), <3>2, <4>4
      <4> HIDE DEF h
      <4>7. CASE m < n
        BY <4>0, <4>3, <4>4, <4>6, <4>7
      <4>8. CASE m = n
        BY <4>0, <4>3, <4>5, <4>8
      <4> QED
        BY <4>0, <4>7, <4>8
    <3>4. h = [m \in 0 .. n |-> h[m]]
      OBVIOUS
    <3> HIDE DEF h
    <3>5. Upto(h, n)
      BY ZenonT(30), <3>3, <3>4
    <3> QED
      BY ZenonT(30), <3>5, <2>1
  <2> QED
    BY <2>2, <2>3
<1> QED
  BY <1>1, <1>2 DEF BinFunction

LEMMA BinIs ==
  \E f : BinFunction(f) /\ \A n \in 0 .. SLICES : SliceBin(n) = IF n <= 8 THEN n ELSE f[n - 1]
<1> DEFINE bin == CHOOSE f : f = [m \in 0 .. SLICES |-> IF m < 8 THEN m ELSE 4 + f[m \div 2]]
<1>1. PICK f : BinFunction(f)
  BY BinExists
<1>2. f = [m \in 0 .. SLICES |-> IF m < 8 THEN m ELSE 4 + f[m \div 2]]
  BY <1>1 DEF BinFunction
<1>3. bin = [m \in 0 .. SLICES |-> IF m < 8 THEN m ELSE 4 + bin[m \div 2]]
  BY ZenonT(30), <1>2
<1>4. \A n \in 0 .. SLICES : SliceBin(n) = IF n <= 8 THEN n ELSE bin[n - 1]
  BY DEF SliceBin
<1> HIDE DEF bin
<1>5. BinFunction(bin)
  <2>1. \A m \in 0 .. SLICES : bin[m] = IF m < 8 THEN m ELSE 4 + bin[m \div 2]
    BY ZenonT(30), <1>3
  <2>2. bin = [m \in 0 .. SLICES |-> bin[m]]
    BY <1>3
  <2> QED
    BY ZenonT(30), <2>1, <2>2 DEF BinFunction
<1> QED
  BY <1>4, <1>5

LEMMA BinMonotone ==
  ASSUME NEW f, BinFunction(f), NEW n \in 0 .. SLICES
  PROVE  \A m \in 0 .. n : f[m] \in Nat /\ f[m] <= f[n]
<1> DEFINE Fine(k) == \A m \in 0 .. k : f[m] \in Nat /\ f[m] <= f[k]
           Bad == {k \in 0 .. SLICES : ~Fine(k)}
<1>0. SLICES \in Nat
  BY SizesAssumption
<1>1. \A k \in 0 .. SLICES : f[k] = IF k < 8 THEN k ELSE 4 + f[k \div 2]
  BY ZenonT(30) DEF BinFunction
<1>2. Bad = {}
  <2> SUFFICES ASSUME Bad # {} PROVE FALSE
    OBVIOUS
  <2>1. PICK k \in Bad : \A j \in Bad : k <= j
    <3>1. Bad \in SUBSET Nat
      OBVIOUS
    <3> HIDE DEF Bad
    <3> QED
      BY <3>1, LeastNat
  <2>2. k \in 0 .. SLICES /\ k \in Nat /\ \A j \in 0 .. k - 1 : j \in 0 .. SLICES /\ Fine(j)
    BY <1>0, <2>1
  <2>3. \A j \in 0 .. SLICES : j < 8 => f[j] = j
    BY <1>1
  <2>4. CASE k < 8
    <3>1. \A m \in 0 .. k : f[m] = m
      BY <1>1, <2>2, <2>4
    <3>2. Fine(k)
      BY <2>2, <2>4, <3>1
    <3> QED
      BY <2>1, <3>2
  <2>5. CASE k >= 8
    <3>1. k \div 2 \in Nat /\ k \div 2 < k /\ 4 <= k \div 2
      BY <2>2, <2>5, Half
    <3>2. Fine(k \div 2)
      BY <2>2, <3>1
    <3>3. f[k \div 2] \in Nat /\ f[4] <= f[k \div 2] /\ f[4] = 4
      BY <2>2, <2>3, <2>5, <3>1, <3>2
    <3>4. f[k] = 4 + f[k \div 2]
      BY <1>1, <2>2, <2>5
    <3>5. ASSUME NEW m \in 0 .. k PROVE f[m] \in Nat /\ f[m] <= f[k]
      <4>0. m \in 0 .. SLICES /\ m \in Nat
        BY <2>2
      <4>1. CASE m < 8
        <5>1. f[m] = m
          BY <2>3, <4>0, <4>1
        <5> QED
          BY <3>3, <3>4, <4>0, <4>1, <5>1
      <4>2. CASE m >= 8
        <5>1. f[m] = 4 + f[m \div 2] /\ m \div 2 \in Nat
          BY <1>1, <4>0, <4>2, Half
        <5>2. m \div 2 <= k \div 2
          BY <2>2, <4>0
        <5>3. f[m \div 2] \in Nat /\ f[m \div 2] <= f[k \div 2]
          BY <3>1, <3>2, <5>1, <5>2
        <5> QED
          BY <3>3, <3>4, <5>1, <5>3
      <4> QED
        BY <4>0, <4>1, <4>2
    <3> QED
      BY <2>1, <3>5
  <2> QED
    BY <2>2, <2>4, <2>5
<1> QED
  BY <1>2

\* Every number of slices has a bin (segment.c:208).
LEMMA BinOf ==
  ASSUME NEW n \in 0 .. SLICES
  PROVE  SliceBin(n) \in Bins
<1>0. SLICES \in Nat
  BY SizesAssumption
<1>1. PICK f : BinFunction(f) /\ \A k \in 0 .. SLICES : SliceBin(k) = IF k <= 8 THEN k ELSE f[k - 1]
  BY BinIs
<1>2. SliceBin(SLICES) = (IF SLICES <= 8 THEN SLICES ELSE f[SLICES - 1]) /\ SliceBin(n) = IF n <= 8 THEN n ELSE f[n - 1]
  BY <1>0, <1>1
<1>3. SLICES > 8 => \A m \in 0 .. SLICES - 1 : f[m] \in Nat /\ f[m] <= f[SLICES - 1]
  BY <1>0, <1>1, BinMonotone
<1>4. SLICES > 8 => f[8] = 8
  <2> SUFFICES ASSUME SLICES > 8 PROVE f[8] = 8
    OBVIOUS
  <2>1. 8 \in 0 .. SLICES /\ 4 \in 0 .. SLICES /\ 8 \div 2 = 4
    BY <1>0
  <2>2. \A m \in 0 .. SLICES : f[m] = IF m < 8 THEN m ELSE 4 + f[m \div 2]
    BY ZenonT(30), <1>1 DEF BinFunction
  <2>3. f[4] = 4
    BY <2>1, <2>2
  <2> QED
    BY <2>1, <2>2, <2>3
<1>5. CASE SLICES <= 8
  BY <1>0, <1>2, <1>5 DEF Bins
<1>6. CASE SLICES > 8 /\ n <= 8
  <2>1. 8 <= f[SLICES - 1] /\ f[SLICES - 1] \in Nat
    BY <1>0, <1>3, <1>4, <1>6
  <2> QED
    BY <1>0, <1>2, <1>6, <2>1 DEF Bins
<1>7. CASE SLICES > 8 /\ n > 8
  <2>1. f[n - 1] \in Nat /\ f[SLICES - 1] \in Nat /\ f[n - 1] <= f[SLICES - 1]
    BY <1>0, <1>3, <1>7
  <2> QED
    BY <1>0, <1>2, <1>7, <2>1 DEF Bins
<1> QED
  BY <1>0, <1>5, <1>6, <1>7

-----------------------------------------------------------------------------
(* Spans.                                                                   *)

\* T are the first slices of spans that tile the segment, f its entries.
Tiled(f, T) ==
  /\ T \subseteq Slices /\ 0 \in T
  /\ \A i \in T : /\ f[i].slice_count \in Nat \ {0}
                  /\ i + f[i].slice_count \in T \/ i + f[i].slice_count >= SLICES
                  /\ i # 0 => \E j \in T : j + f[j].slice_count = i

\* The first slices of spans are indices, and their counts numbers.
LEMMA TiledNumbers ==
  ASSUME NEW f, NEW T, Tiled(f, T)
  PROVE  SLICES \in Nat /\ \A k \in T : k \in Nat /\ k < SLICES /\ k \in Entries /\ f[k].slice_count \in Nat \ {0}
<1>1. SLICES \in Nat
  BY SizesAssumption
<1>2. ASSUME NEW k \in T
      PROVE  k \in Nat /\ k < SLICES /\ k \in Entries /\ f[k].slice_count \in Nat \ {0}
  <2>1. k \in Slices /\ f[k].slice_count \in Nat \ {0}
    BY DEF Tiled
  <2> QED
    BY <1>1, <2>1 DEF Slices, Entries
<1> QED
  BY <1>1, <1>2

\* Spans do not overlap.
LEMMA TiledApart ==
  ASSUME NEW f, NEW T, Tiled(f, T)
  PROVE  \A i, j \in T : j < i => j + f[j].slice_count <= i
<1> DEFINE Fine(i) == \A j \in T : j < i => j + f[j].slice_count <= i
           Bad == {i \in T : ~Fine(i)}
<1>0. SLICES \in Nat /\ T \subseteq Nat /\ \A i \in T : f[i].slice_count \in Nat \ {0}
  BY SizesAssumption DEF Tiled, Slices
<1>1. Bad = {}
  <2> SUFFICES ASSUME Bad # {} PROVE FALSE
    OBVIOUS
  <2>1. PICK i \in Bad : \A j \in Bad : i <= j
    <3>1. Bad \in SUBSET Nat
      BY ZenonT(30), <1>0
    <3> HIDE DEF Bad
    <3> QED
      BY <3>1, LeastNat
  <2>2. PICK j \in T : j < i /\ ~(j + f[j].slice_count <= i)
    BY <2>1
  <2>3. i \in T /\ i \in Nat /\ j \in Nat /\ i # 0
    BY <1>0, <2>1, <2>2
  <2>4. PICK p \in T : p + f[p].slice_count = i
    BY <2>3 DEF Tiled
  <2>5. p \in Nat /\ f[p].slice_count \in Nat \ {0} /\ f[j].slice_count \in Nat \ {0} /\ p < i
    BY <1>0, <2>3, <2>4
  <2>6. Fine(p) /\ Fine(j)
    BY <2>1, <2>2, <2>3, <2>5
  <2>7. CASE j = p
    BY <2>2, <2>3, <2>4, <2>5, <2>7
  <2>8. CASE j < p
    BY <2>2, <2>3, <2>5, <2>6, <2>8
  <2>9. CASE p < j
    BY <2>2, <2>3, <2>4, <2>5, <2>6, <2>9
  <2> QED
    BY <2>3, <2>5, <2>7, <2>8, <2>9
<1> QED
  BY <1>1

\* What the loop in Spans computes.
AtFunction(f, at) ==
  /\ at = [k \in Entries |-> at[k]]
  /\ \A k \in Entries : at[k] = IF k = 0 THEN 0
                                ELSE IF at[k - 1] = k - 1 THEN at[k - 1] + f[k - 1].slice_count ELSE at[k - 1]

LEMMA AtExists ==
  ASSUME NEW f
  PROVE  \E at : AtFunction(f, at)
<1> DEFINE Upto(at, n) == /\ at = [k \in 0 .. n |-> at[k]]
                          /\ \A k \in 0 .. n : at[k] = IF k = 0 THEN 0
                               ELSE IF at[k - 1] = k - 1 THEN at[k - 1] + f[k - 1].slice_count ELSE at[k - 1]
           Bad == {n \in Nat : ~\E at : Upto(at, n)}
<1>1. SLICES \in Nat
  BY SizesAssumption
<1>2. Bad = {}
  <2> SUFFICES ASSUME Bad # {} PROVE FALSE
    OBVIOUS
  <2>1. PICK n \in Bad : \A k \in Bad : n <= k
    <3>1. Bad \in SUBSET Nat
      OBVIOUS
    <3> HIDE DEF Bad
    <3> QED
      BY <3>1, LeastNat
  <2>2. CASE n = 0
    <3>1. Upto([k \in 0 .. 0 |-> 0], 0)
      OBVIOUS
    <3> QED
      BY ZenonT(30), <2>2, <3>1
  <2>3. CASE n # 0
    <3>1. n - 1 \in Nat /\ n - 1 \notin Bad
      BY <2>1, <2>3
    <3>2. PICK at : Upto(at, n - 1)
      BY <3>1
    <3> DEFINE step == IF at[n - 1] = n - 1 THEN at[n - 1] + f[n - 1].slice_count ELSE at[n - 1]
    <3> HIDE DEF step
    <3> DEFINE h == [k \in 0 .. n |-> IF k < n THEN at[k] ELSE step]
    <3>3. \A k \in 0 .. n : h[k] = IF k = 0 THEN 0
                               ELSE IF h[k - 1] = k - 1 THEN h[k - 1] + f[k - 1].slice_count ELSE h[k - 1]
      <4> SUFFICES ASSUME NEW k \in 0 .. n
                   PROVE h[k] = IF k = 0 THEN 0
                               ELSE IF h[k - 1] = k - 1 THEN h[k - 1] + f[k - 1].slice_count ELSE h[k - 1]
        BY ZenonT(30)
      <4>0. n \in Nat /\ k \in Nat
        BY <2>1
      <4>1. k # 0 => h[k - 1] = at[k - 1]
        BY <4>0
      <4>2. k < n => h[k] = at[k] /\ k \in 0 .. n - 1
        BY <4>0
      <4>3. h[n] = step
        BY <4>0
      <4>4. k < n => at[k] = IF k = 0 THEN 0
                               ELSE IF at[k - 1] = k - 1 THEN at[k - 1] + f[k - 1].slice_count ELSE at[k - 1]
        BY ZenonT(30), <3>2, <4>2
      <4> HIDE DEF h
      <4>5. CASE k < n
        BY <4>0, <4>1, <4>2, <4>4, <4>5
      <4>6. CASE k = n
        BY <2>3, <4>0, <4>1, <4>3, <4>6 DEF step
      <4> QED
        BY <4>0, <4>5, <4>6
    <3>4. h = [k \in 0 .. n |-> h[k]]
      OBVIOUS
    <3> HIDE DEF h
    <3>5. Upto(h, n)
      BY <3>3, <3>4
    <3> QED
      BY ZenonT(30), <3>5, <2>1
  <2> QED
    BY <2>2, <2>3
<1> QED
  BY <1>1, <1>2 DEF AtFunction, Entries

LEMMA SpansBy ==
  ASSUME NEW g
  PROVE  \E at : AtFunction(g.slices, at) /\ Spans(g) = {k \in Slices : at[k] = k}
<1> DEFINE at == CHOOSE at : at = [k \in Entries |->
                    IF k = 0 THEN 0
                    ELSE IF at[k - 1] = k - 1 THEN at[k - 1] + g.slices[k - 1].slice_count ELSE at[k - 1]]
<1>1. PICK a : AtFunction(g.slices, a)
  BY AtExists
<1>2. a = [k \in Entries |->
                    IF k = 0 THEN 0
                    ELSE IF a[k - 1] = k - 1 THEN a[k - 1] + g.slices[k - 1].slice_count ELSE a[k - 1]]
  BY <1>1 DEF AtFunction
<1>3. at = [k \in Entries |->
                    IF k = 0 THEN 0
                    ELSE IF at[k - 1] = k - 1 THEN at[k - 1] + g.slices[k - 1].slice_count ELSE at[k - 1]]
  BY ZenonT(30), <1>2
<1>4. Spans(g) = {k \in Slices : at[k] = k}
  BY DEF Spans
<1> HIDE DEF at
<1>5. AtFunction(g.slices, at)
  <2>1. \A k \in Entries : at[k] =
                    IF k = 0 THEN 0
                    ELSE IF at[k - 1] = k - 1 THEN at[k - 1] + g.slices[k - 1].slice_count ELSE at[k - 1]
    BY ZenonT(30), <1>3
  <2>2. at = [k \in Entries |-> at[k]]
    BY <1>3
  <2> QED
    BY <2>1, <2>2 DEF AtFunction
<1> QED
  BY <1>4, <1>5

\* The loop finds the spans of a tiling.
LEMMA SpansAre ==
  ASSUME NEW g, NEW T, Tiled(g.slices, T)
  PROVE  Spans(g) = T
<1> DEFINE f == g.slices
<1>0. SLICES \in Nat /\ T \subseteq Nat /\ T \subseteq Slices /\ \A i \in T : f[i].slice_count \in Nat \ {0}
  BY SizesAssumption DEF Tiled, Slices
<1>1. PICK at : AtFunction(f, at) /\ Spans(g) = {k \in Slices : at[k] = k}
  BY SpansBy
<1> DEFINE Where(k) == \* the first span that is not before k
             /\ at[k] \in Nat /\ at[k] >= k
             /\ at[k] \in T \/ at[k] >= SLICES
             /\ \A i \in T : i < k \/ i >= at[k]
           Bad == {k \in Entries : ~Where(k)}
<1>2. Bad = {}
  <2> SUFFICES ASSUME Bad # {} PROVE FALSE
    OBVIOUS
  <2>1. PICK k \in Bad : \A j \in Bad : k <= j
    <3>1. Bad \in SUBSET Nat
      BY <1>0 DEF Entries
    <3> HIDE DEF Bad
    <3> QED
      BY <3>1, LeastNat
  <2>2. k \in Entries /\ k \in Nat /\ k <= SLICES
    BY <1>0, <2>1 DEF Entries
  <2>3. CASE k = 0
    <3>1. at[0] = 0
      BY <1>1, <2>2, <2>3 DEF AtFunction
    <3>2. Where(0)
      BY <1>0, <3>1 DEF Tiled
    <3> QED
      BY <2>1, <2>3, <3>2
  <2>4. CASE k # 0
    <3>1. k - 1 \in Entries /\ k - 1 \in Nat
      BY <1>0, <2>2, <2>4 DEF Entries
    <3>2. Where(k - 1)
      BY <2>1, <2>2, <2>4, <3>1
    <3>3. at[k] = IF at[k - 1] = k - 1 THEN at[k - 1] + f[k - 1].slice_count ELSE at[k - 1]
      BY ZenonT(30), <1>1, <2>2, <2>4 DEF AtFunction
    <3>4. CASE at[k - 1] = k - 1
      <4>1. k - 1 \in T
        BY <1>0, <2>2, <2>4, <3>1, <3>2, <3>4
      <4>2. f[k - 1].slice_count \in Nat \ {0} /\ at[k] = k - 1 + f[k - 1].slice_count
        BY ZenonT(30), <1>0, <3>3, <3>4, <4>1
      <4>3. at[k] \in T \/ at[k] >= SLICES
        BY <4>1, <4>2 DEF Tiled
      <4>4. \A i \in T : i < k \/ i >= at[k]
        BY <1>0, <2>2, <4>1, <4>2, TiledApart
      <4>5. Where(k)
        BY <2>2, <2>4, <4>2, <4>3, <4>4
      <4> QED
        BY <2>1, <4>5
    <3>5. CASE at[k - 1] # k - 1
      <4>1. at[k] = at[k - 1] /\ at[k] \in Nat /\ at[k] >= k
        BY <2>2, <3>2, <3>3, <3>5
      <4>2. Where(k)
        BY <1>0, <2>2, <3>2, <4>1
      <4> QED
        BY <2>1, <4>2
    <3> QED
      BY <3>4, <3>5
  <2> QED
    BY <2>3, <2>4
<1>3. \A k \in Slices : k \in Entries /\ k \in Nat /\ k < SLICES
  BY <1>0 DEF Slices, Entries
<1>4. \A k \in Slices : Where(k)
  BY <1>2, <1>3
<1>5. ASSUME NEW k \in Slices PROVE at[k] = k <=> k \in T
  BY <1>0, <1>3, <1>4
<1> QED
  BY ZenonT(30), <1>0, <1>1, <1>5

-----------------------------------------------------------------------------
(* The queues of spans.                                                     *)

Once(q) == \A j, k \in 1 .. Len(q) : q[j] = q[k] => j = k

LEMMA RangeIs ==
  ASSUME NEW S, NEW q \in Seq(S)
  PROVE  Range(q) = {q[k] : k \in 1 .. Len(q)} /\ DOMAIN q = 1 .. Len(q) /\ Len(q) \in Nat
BY DEF Range

LEMMA WithoutIs ==
  ASSUME NEW S, NEW q \in Seq(S), Once(q), NEW e
  PROVE  /\ Without(q, e) \in Seq(S) /\ Once(Without(q, e))
         /\ Range(Without(q, e)) = Range(q) \ {e}
<1>0. Range(q) = {q[j] : j \in 1 .. Len(q)} /\ DOMAIN q = 1 .. Len(q) /\ Len(q) \in Nat
  BY RangeIs
<1>1. CASE e \notin Range(q)
  BY <1>1 DEF Without
<1>2. CASE e \in Range(q)
  <2> DEFINE k == CHOOSE j \in DOMAIN q : q[j] = e
             r == SubSeq(q, 1, k - 1) \o SubSeq(q, k + 1, Len(q))
  <2>1. Without(q, e) = r
    BY ZenonT(30), <1>2 DEF Without
  <2>2. k \in 1 .. Len(q) /\ q[k] = e
    BY <1>0, <1>2
  <2> HIDE DEF k
  <2>3. /\ r \in Seq(S) /\ Len(r) = Len(q) - 1
        /\ \A j \in 1 .. Len(q) - 1 : r[j] = IF j < k THEN q[j] ELSE q[j + 1]
    <3>1. k \in Nat /\ Len(q) \in Nat /\ 1 <= k /\ k <= Len(q)
      BY <1>0, <2>2
    <3> DEFINE a == SubSeq(q, 1, k - 1)
               c == SubSeq(q, k + 1, Len(q))
    <3>2. a \in Seq(S) /\ Len(a) = k - 1 /\ \A j \in 1 .. k - 1 : a[j] = q[j]
      BY <3>1
    <3>3. c \in Seq(S) /\ Len(c) = Len(q) - k /\ \A j \in 1 .. Len(q) - k : c[j] = q[j + k]
      BY <3>1
    <3> HIDE DEF a, c
    <3>4. /\ a \o c \in Seq(S) /\ Len(a \o c) = Len(q) - 1
          /\ \A j \in 1 .. Len(q) - 1 : (a \o c)[j] = IF j <= k - 1 THEN a[j] ELSE c[j - (k - 1)]
      <4>1. /\ a \o c \in Seq(S) /\ Len(a \o c) = Len(a) + Len(c)
            /\ \A j \in 1 .. Len(a) + Len(c) : (a \o c)[j] = IF j <= Len(a) THEN a[j] ELSE c[j - Len(a)]
        BY ZenonT(30), <3>2, <3>3, ConcatProperties
      <4>2. Len(a) + Len(c) = Len(q) - 1
        BY <3>1, <3>2, <3>3
      <4> QED
        BY ZenonT(30), <3>2, <4>1, <4>2
    <3>5. ASSUME NEW j \in 1 .. Len(q) - 1 PROVE (a \o c)[j] = IF j < k THEN q[j] ELSE q[j + 1]
      <4>1. CASE j < k
        BY <3>1, <3>2, <3>4, <4>1
      <4>2. CASE j >= k
        <5>1. j - (k - 1) \in 1 .. Len(q) - k /\ (j - (k - 1)) + k = j + 1 /\ ~(j <= k - 1) /\ j \in Nat
          BY <3>1, <4>2
        <5> QED
          BY <3>1, <3>3, <3>4, <4>2, <5>1
      <4>3. j < k \/ j >= k
        BY <3>1
      <4> QED
        BY ZenonT(30), <4>1, <4>2, <4>3
    <3>6. r = a \o c
      BY DEF a, c
    <3> HIDE DEF r
    <3> QED
      BY <3>4, <3>5, <3>6
  <2> HIDE DEF r
  <2>4. Once(r)
    <3>1. \A i, j \in 1 .. Len(q) : q[i] = q[j] => i = j
      BY DEF Once
    <3>2. k \in Nat /\ Len(q) \in Nat /\ 1 <= k /\ k <= Len(q)
      BY <1>0, <2>2
    <3>3. ASSUME NEW i \in 1 .. Len(r), NEW j \in 1 .. Len(r), r[i] = r[j] PROVE i = j
      <4> DEFINE From(x) == IF x < k THEN x ELSE x + 1
      <4>1. From(i) \in 1 .. Len(q) /\ From(j) \in 1 .. Len(q) /\ i \in Nat /\ j \in Nat
        BY <2>3, <3>2
      <4>2. r[i] = q[From(i)] /\ r[j] = q[From(j)]
        BY <2>3
      <4>3. From(i) = From(j)
        <5> HIDE DEF From
        <5> QED
          BY ZenonT(30), <3>1, <3>3, <4>1, <4>2
      <4> QED
        BY <3>2, <4>1, <4>3
    <3> QED
      BY <3>3 DEF Once
  <2>5. Range(r) = {r[j] : j \in 1 .. Len(r)}
    BY <2>3, RangeIs
  <2>6. ASSUME NEW x \in Range(r) PROVE x \in Range(q) /\ x # e
    <3>1. PICK j \in 1 .. Len(r) : r[j] = x
      BY <2>5
    <3>2. CASE j < k
      BY <1>0, <2>2, <2>3, <3>1, <3>2 DEF Once
    <3>3. CASE j >= k
      BY <1>0, <2>2, <2>3, <3>1, <3>3 DEF Once
    <3> QED
      BY <1>0, <2>2, <3>2, <3>3
  <2>7. ASSUME NEW x \in Range(q), x # e PROVE x \in Range(r)
    <3>1. PICK j \in 1 .. Len(q) : q[j] = x
      BY <1>0
    <3>2. CASE j < k
      <4>1. j \in 1 .. Len(r) /\ r[j] = x
        BY <1>0, <2>2, <2>3, <3>1, <3>2
      <4> QED
        BY <2>5, <4>1
    <3>3. CASE j >= k
      <4>1. j - 1 \in 1 .. Len(r) /\ r[j - 1] = x
        BY <1>0, <2>2, <2>3, <2>7, <3>1, <3>3
      <4> QED
        BY <2>5, <4>1
    <3> QED
      BY <1>0, <2>2, <3>2, <3>3
  <2> QED
    BY <2>1, <2>3, <2>4, <2>6, <2>7
<1> QED
  BY <1>1, <1>2

LEMMA PushIs ==
  ASSUME NEW S, NEW q \in Seq(S), Once(q), NEW e \in S, e \notin Range(q)
  PROVE  /\ <<e>> \o q \in Seq(S) /\ Once(<<e>> \o q)
         /\ Range(<<e>> \o q) = Range(q) \cup {e}
<1>0. Range(q) = {q[j] : j \in 1 .. Len(q)} /\ Len(q) \in Nat
  BY RangeIs
<1> DEFINE r == <<e>> \o q
<1>1. /\ r \in Seq(S) /\ Len(r) = Len(q) + 1
      /\ \A j \in 1 .. Len(q) + 1 : r[j] = IF j = 1 THEN e ELSE q[j - 1]
  BY <1>0
<1> HIDE DEF r
<1>2. Range(r) = {r[j] : j \in 1 .. Len(r)}
  BY <1>1, RangeIs
<1>3. Once(r)
  <2> SUFFICES ASSUME NEW i \in 1 .. Len(r), NEW j \in 1 .. Len(r), r[i] = r[j] PROVE i = j
    BY DEF Once
  <2>1. i # 1 => i - 1 \in 1 .. Len(q) /\ r[i] = q[i - 1] /\ q[i - 1] # e
    BY <1>0, <1>1
  <2>2. j # 1 => j - 1 \in 1 .. Len(q) /\ r[j] = q[j - 1] /\ q[j - 1] # e
    BY <1>0, <1>1
  <2>3. (i = 1 => r[i] = e) /\ (j = 1 => r[j] = e)
    BY <1>0, <1>1
  <2> QED
    BY <1>0, <1>1, <2>1, <2>2, <2>3 DEF Once
<1>4. ASSUME NEW x \in Range(q) PROVE x \in Range(r)
  <2>1. PICK j \in 1 .. Len(q) : q[j] = x
    BY <1>0
  <2>2. j + 1 \in 1 .. Len(r) /\ r[j + 1] = x
    BY <1>0, <1>1, <2>1
  <2> QED
    BY <1>2, <2>2
<1>5. e \in Range(r)
  <2>1. 1 \in 1 .. Len(r) /\ r[1] = e
    BY <1>0, <1>1
  <2> QED
    BY <1>2, <2>1
<1>6. ASSUME NEW x \in Range(r) PROVE x \in Range(q) \cup {e}
  <2>1. PICK j \in 1 .. Len(r) : r[j] = x
    BY <1>2
  <2> QED
    BY <1>0, <1>1, <2>1
<1> QED
  BY <1>1, <1>3, <1>4, <1>5, <1>6 DEF r

\* The queues q hold the spans H, pairs of a bin and a slice, of segment s, and of
\* other segments what q0 holds; each span once.
QueueOK(q, q0, s, H) ==
  /\ q \in [Bins -> Seq(Span)]
  /\ \A b \in Bins : Once(q[b])
  /\ \A b \in Bins : \A e \in Span :
       e \in Range(q[b]) <=> IF e[1] = s THEN <<b, e[2]>> \in H ELSE e \in Range(q0[b])

LEMMA QueueDeletes ==
  ASSUME NEW q, NEW q0, NEW s \in Addresses, NEW H, QueueOK(q, q0, s, H),
         NEW b \in Bins, NEW i \in Slices
  PROVE  QueueOK([q EXCEPT ![b] = Without(@, <<s, i>>)], q0, s, H \ {<<b, i>>})
<1> DEFINE r == [q EXCEPT ![b] = Without(@, <<s, i>>)]
<1>1. /\ Without(q[b], <<s, i>>) \in Seq(Span) /\ Once(Without(q[b], <<s, i>>))
      /\ Range(Without(q[b], <<s, i>>)) = Range(q[b]) \ {<<s, i>>}
  BY WithoutIs DEF QueueOK
<1>2. r \in [Bins -> Seq(Span)] /\ \A c \in Bins : Once(r[c])
  BY ZenonT(30), <1>1 DEF QueueOK
<1>3. ASSUME NEW c \in Bins, NEW e \in Span
      PROVE  e \in Range(r[c]) <=> IF e[1] = s THEN <<c, e[2]>> \in H \ {<<b, i>>} ELSE e \in Range(q0[c])
  <2>1. e \in Range(q[c]) <=> IF e[1] = s THEN <<c, e[2]>> \in H ELSE e \in Range(q0[c])
    BY DEF QueueOK
  <2>2. e = <<e[1], e[2]>>
    BY DEF Span
  <2>3. Range(r[c]) = IF c = b THEN Range(q[b]) \ {<<s, i>>} ELSE Range(q[c])
    BY ZenonT(30), <1>1 DEF QueueOK
  <2> QED
    BY <2>1, <2>2, <2>3
<1> QED
  BY ZenonT(30), <1>2, <1>3 DEF QueueOK

LEMMA QueuePushes ==
  ASSUME NEW q, NEW q0, NEW s \in Addresses, NEW H, QueueOK(q, q0, s, H),
         NEW b \in Bins, NEW i \in Slices, <<b, i>> \notin H
  PROVE  QueueOK([q EXCEPT ![b] = <<<<s, i>>>> \o @], q0, s, H \cup {<<b, i>>})
<1> DEFINE r == [q EXCEPT ![b] = <<<<s, i>>>> \o @]
<1>0. <<s, i>> \in Span /\ <<s, i>> \notin Range(q[b]) /\ q[b] \in Seq(Span)
  BY DEF QueueOK, Span
<1>1. /\ <<<<s, i>>>> \o q[b] \in Seq(Span) /\ Once(<<<<s, i>>>> \o q[b])
      /\ Range(<<<<s, i>>>> \o q[b]) = Range(q[b]) \cup {<<s, i>>}
  <2>1. Once(q[b])
    BY DEF QueueOK
  <2> DEFINE e == <<s, i>>
  <2>2. e \in Span /\ e \notin Range(q[b])
    BY <1>0
  <2> HIDE DEF e
  <2>3. <<e>> \o q[b] \in Seq(Span) /\ Once(<<e>> \o q[b]) /\ Range(<<e>> \o q[b]) = Range(q[b]) \cup {e}
    BY <1>0, <2>1, <2>2, PushIs
  <2> QED
    BY ZenonT(30), <2>3 DEF e
<1>2. r \in [Bins -> Seq(Span)] /\ \A c \in Bins : Once(r[c])
  BY <1>1 DEF QueueOK
<1>3. ASSUME NEW c \in Bins, NEW e \in Span
      PROVE  e \in Range(r[c]) <=> IF e[1] = s THEN <<c, e[2]>> \in H \cup {<<b, i>>} ELSE e \in Range(q0[c])
  <2>1. e \in Range(q[c]) <=> IF e[1] = s THEN <<c, e[2]>> \in H ELSE e \in Range(q0[c])
    BY DEF QueueOK
  <2>2. e = <<e[1], e[2]>>
    BY DEF Span
  <2>3. Range(r[c]) = IF c = b THEN Range(q[b]) \cup {<<s, i>>} ELSE Range(q[c])
    BY ZenonT(30), <1>1 DEF QueueOK
  <2> QED
    BY <2>1, <2>2, <2>3
<1> QED
  BY ZenonT(30), <1>2, <1>3 DEF QueueOK

-----------------------------------------------------------------------------
(* Segments and worlds, with the counters as any numbers.                   *)

SegRec ==
  [kind : {"none", "NORMAL", "HUGE"}, thread_id : Threads \cup {NoThread},
   slices : [Entries -> SliceRecord], used : Int, abandoned : Int,
   abandoned_visits : Int, was_reclaimed : BOOLEAN, dont_free : BOOLEAN,
   free_is_zero : BOOLEAN, commit_mask : SUBSET Slices, purge_mask : SUBSET Slices,
   purge_expire : UNSET .. LONGPASSED, os : SUBSET Slices, orphans : SUBSET Slices,
   zero_init : SUBSET Slices, dirty : SUBSET Slices]

TldRec == [spans : [Bins -> Seq(Span)], count : Int, reclaim_count : Int]

Worlds == [g : SegRec, tld : TldRec, s : Addresses, at : Nat]

\* h is g but for its slices, its masks and what no property depends on.
Same(g, h) ==
  /\ h \in SegRec
  /\ h.kind = g.kind /\ h.thread_id = g.thread_id /\ h.used = g.used /\ h.abandoned = g.abandoned
  /\ h.dont_free = g.dont_free /\ h.orphans = g.orphans /\ h.dirty = g.dirty

-----------------------------------------------------------------------------
(* The masks.                                                               *)

\* The slices in U are committed and not to be purged; the masks tell the truth.
MaskOK(g, U) ==
  /\ U \subseteq g.os
  /\ g.commit_mask \subseteq g.os
  /\ g.purge_mask \subseteq g.commit_mask \ U
  /\ g.purge_mask # {} => g.purge_expire # UNSET

WithMasks(g, c, p, o, x) ==
  [g EXCEPT !.commit_mask = c, !.purge_mask = p, !.os = o, !.purge_expire = x]

LEMMA MasksSet ==
  ASSUME NEW g \in SegRec, NEW c \in SUBSET Slices, NEW p \in SUBSET Slices, NEW o \in SUBSET Slices,
         NEW x \in UNSET .. LONGPASSED
  PROVE  LET h == WithMasks(g, c, p, o, x)
         IN /\ Same(g, h) /\ h.slices = g.slices
            /\ h.commit_mask = c /\ h.purge_mask = p /\ h.os = o /\ h.purge_expire = x
<1> DEFINE h == WithMasks(g, c, p, o, x)
<1>1. h \in SegRec
  BY ZenonT(30) DEF SegRec, WithMasks
<1>2. /\ h.kind = g.kind /\ h.thread_id = g.thread_id /\ h.used = g.used /\ h.abandoned = g.abandoned
      /\ h.dont_free = g.dont_free /\ h.orphans = g.orphans /\ h.dirty = g.dirty
  BY DEF SegRec, WithMasks
<1>3. h.slices = g.slices /\ h.commit_mask = c /\ h.purge_mask = p /\ h.os = o /\ h.purge_expire = x
  BY DEF SegRec, WithMasks
<1> QED
  BY <1>1, <1>2, <1>3 DEF Same

LEMMA MaskTypes ==
  ASSUME NEW g \in SegRec
  PROVE  /\ g.commit_mask \in SUBSET Slices /\ g.purge_mask \in SUBSET Slices /\ g.os \in SUBSET Slices
         /\ g.purge_expire \in UNSET .. LONGPASSED
BY DEF SegRec

LEMMA PurgeOK ==
  ASSUME NEW g \in SegRec, NEW U, NEW mask \in SUBSET Slices, mask \cap U = {}, MaskOK(g, U)
  PROVE  /\ Same(g, Purge(g, mask)) /\ Purge(g, mask).slices = g.slices
         /\ MaskOK(Purge(g, mask), U)
<1>1. CASE ~AllowPurge \/ mask = {}
  BY <1>1 DEF Purge, Same, MaskOK
<1>2. CASE AllowPurge /\ mask # {} /\ g.commit_mask \cap mask # {}
  <2> DEFINE c == g.commit_mask \ mask
             p == g.purge_mask \ mask
             o == g.os \ mask
  <2>1. Purge(g, mask) = WithMasks(g, c, p, o, g.purge_expire)
    BY ZenonT(30), <1>2 DEF Purge, SegRec, WithMasks
  <2>2. c \in SUBSET Slices /\ p \in SUBSET Slices /\ o \in SUBSET Slices /\ g.purge_expire \in UNSET .. LONGPASSED
    BY MaskTypes
  <2>3. /\ U \subseteq o /\ c \subseteq o /\ p \subseteq c \ U
        /\ p # {} => g.purge_expire # UNSET
    BY DEF MaskOK
  <2> HIDE DEF c, p, o
  <2> DEFINE h == WithMasks(g, c, p, o, g.purge_expire)
  <2>4. /\ Same(g, h) /\ h.slices = g.slices
        /\ h.commit_mask = c /\ h.purge_mask = p /\ h.os = o /\ h.purge_expire = g.purge_expire
    BY <2>2, MasksSet
  <2> HIDE DEF h
  <2>5. Purge(g, mask) = h
    BY <2>1 DEF h
  <2> QED
    BY <2>3, <2>4, <2>5 DEF MaskOK
<1>3. CASE AllowPurge /\ mask # {} /\ g.commit_mask \cap mask = {}
  <2> DEFINE c == g.commit_mask
             p == g.purge_mask \ mask
             o == g.os
  <2>1. Purge(g, mask) = WithMasks(g, c, p, o, g.purge_expire)
    BY ZenonT(30), <1>3 DEF Purge, SegRec, WithMasks
  <2>2. c \in SUBSET Slices /\ p \in SUBSET Slices /\ o \in SUBSET Slices /\ g.purge_expire \in UNSET .. LONGPASSED
    BY MaskTypes
  <2>3. /\ U \subseteq o /\ c \subseteq o /\ p \subseteq c \ U
        /\ p # {} => g.purge_expire # UNSET
    BY DEF MaskOK
  <2> HIDE DEF c, p, o
  <2> DEFINE h == WithMasks(g, c, p, o, g.purge_expire)
  <2>4. /\ Same(g, h) /\ h.slices = g.slices
        /\ h.commit_mask = c /\ h.purge_mask = p /\ h.os = o /\ h.purge_expire = g.purge_expire
    BY <2>2, MasksSet
  <2> HIDE DEF h
  <2>5. Purge(g, mask) = h
    BY <2>1 DEF h
  <2> QED
    BY <2>3, <2>4, <2>5 DEF MaskOK
<1> QED
  BY <1>1, <1>2, <1>3

\* A purge that is tried takes nothing that is in use (segment.c:525).
LEMMA TryPurgeOK ==
  ASSUME NEW g \in SegRec, NEW U, MaskOK(g, U), NEW force
  PROVE  /\ Same(g, TryPurge(g, force)) /\ TryPurge(g, force).slices = g.slices
         /\ MaskOK(TryPurge(g, force), U)
<1>1. CASE TryPurge(g, force) = g
  BY <1>1 DEF Same
<1>2. CASE TryPurge(g, force) # g
  <2> DEFINE h == [g EXCEPT !.purge_expire = UNSET, !.purge_mask = {}]
  <2>1. TryPurge(g, force) = Purge(h, g.purge_mask)
    BY <1>2 DEF TryPurge
  <2>2. /\ Same(g, h) /\ h.slices = g.slices /\ h.os = g.os /\ h.commit_mask = g.commit_mask
        /\ h.purge_mask = {} /\ h.purge_expire = UNSET
    <3> DEFINE c == g.commit_mask
               o == g.os
               p == {}
    <3>1. h = WithMasks(g, c, p, o, UNSET)
      BY ZenonT(30) DEF SegRec, WithMasks
    <3>2. c \in SUBSET Slices /\ p \in SUBSET Slices /\ o \in SUBSET Slices /\ UNSET \in UNSET .. LONGPASSED
      BY MaskTypes DEF UNSET, LONGPASSED
    <3>3. p = {}
      OBVIOUS
    <3> HIDE DEF h, c, o, p
    <3>4. /\ Same(g, h) /\ h.slices = g.slices
          /\ h.commit_mask = c /\ h.purge_mask = p /\ h.os = o /\ h.purge_expire = UNSET
      BY <3>1, <3>2, MasksSet
    <3> QED
      BY <3>3, <3>4 DEF c, o
  <2>3. g.purge_mask \in SUBSET Slices
    BY DEF SegRec
  <2> HIDE DEF h
  <2>4. h \in SegRec
    BY <2>2 DEF Same
  <2>5. /\ Same(h, Purge(h, g.purge_mask)) /\ Purge(h, g.purge_mask).slices = h.slices
        /\ MaskOK(Purge(h, g.purge_mask), U)
    <3>1. MaskOK(h, U) /\ g.purge_mask \cap U = {}
      BY <2>2 DEF MaskOK
    <3> QED
      BY <2>3, <2>4, <3>1, PurgeOK
  <2> QED
    BY <2>1, <2>2, <2>5 DEF Same
<1> QED
  BY <1>1, <1>2

LEMMA SchedulePurgeOK ==
  ASSUME NEW g \in SegRec, NEW U, MaskOK(g, U), NEW mask \in SUBSET Slices, mask \cap U = {}
  PROVE  /\ Same(g, SchedulePurge(g, mask)) /\ SchedulePurge(g, mask).slices = g.slices
         /\ MaskOK(SchedulePurge(g, mask), U)
<1> DEFINE set == [g EXCEPT !.purge_mask = @ \cup (g.commit_mask \cap mask)]
<1>0. PurgeDelay \in {-1, 0, 1}
  BY OptionsAssumption
<1>1. /\ set \in SegRec /\ Same(g, set) /\ set.slices = g.slices /\ set.os = g.os
      /\ set.commit_mask = g.commit_mask /\ set.purge_expire = g.purge_expire
      /\ set.purge_mask = g.purge_mask \cup (g.commit_mask \cap mask)
  BY DEF SegRec, Same
<1>2. CASE PurgeDelay = -1
  <2>1. SchedulePurge(g, mask) = g
    <3>1. ~AllowPurge
      BY <1>2 DEF AllowPurge
    <3>2. ~(PurgeDelay > 0)
      BY <1>2
    <3> QED
      BY <3>1, <3>2 DEF SchedulePurge
  <2> QED
    BY <2>1 DEF Same
<1>3. CASE PurgeDelay = 0
  <2>1. SchedulePurge(g, mask) = Purge(g, mask)
    BY <1>3 DEF SchedulePurge, AllowPurge
  <2> QED
    BY <2>1, PurgeOK
<1>4. CASE PurgeDelay = 1 /\ g.purge_expire = LONGPASSED
  <2>1. SchedulePurge(g, mask) = TryPurge(set, TRUE)
    BY <1>4 DEF SchedulePurge, AllowPurge
  <2>2. MaskOK(set, U)
    BY <1>1, <1>4 DEF MaskOK, LONGPASSED, UNSET
  <2> HIDE DEF set
  <2>3. /\ Same(set, TryPurge(set, TRUE)) /\ TryPurge(set, TRUE).slices = set.slices
        /\ MaskOK(TryPurge(set, TRUE), U)
    BY ZenonT(30), <1>1, <2>2, TryPurgeOK
  <2> QED
    BY ZenonT(30), <1>1, <2>1, <2>3 DEF Same
<1>5. CASE PurgeDelay = 1 /\ g.purge_expire # LONGPASSED
  <2> DEFINE h == [set EXCEPT !.purge_expire = FUTURE]
  <2>1. SchedulePurge(g, mask) = h
    BY <1>5 DEF SchedulePurge, AllowPurge
  <2>2. /\ h \in SegRec /\ Same(set, h) /\ h.slices = set.slices /\ h.os = set.os
        /\ h.commit_mask = set.commit_mask /\ h.purge_expire = FUTURE /\ h.purge_mask = set.purge_mask
    <3> HIDE DEF set
    <3> QED
      BY <1>1 DEF SegRec, Same, FUTURE, UNSET, LONGPASSED
  <2>3. MaskOK(h, U)
    BY <1>1, <2>2 DEF MaskOK, FUTURE, UNSET
  <2> QED
    BY <1>1, <2>1, <2>2, <2>3 DEF Same
<1> QED
  BY <1>0, <1>2, <1>3, <1>4, <1>5

\* The answer r of a commit of `mask` for g.
Committed(g, U, mask, ok, r) ==
  /\ r.ok \in BOOLEAN /\ (ok => r.ok) /\ (~r.ok => r.g = g)
  /\ Same(g, r.g) /\ r.g.slices = g.slices
  /\ MaskOK(r.g, U) /\ (r.ok => MaskOK(r.g, U \cup mask))

LEMMA CommitOK ==
  ASSUME NEW g \in SegRec, NEW U, MaskOK(g, U), NEW mask \in SUBSET Slices, NEW ok \in BOOLEAN
  PROVE  Committed(g, U, mask, ok, Commit(g, mask, ok))
<1> DEFINE all == mask \subseteq g.commit_mask
           c == g.commit_mask \cup mask
           o == IF all THEN g.os ELSE g.os \cup mask
           p == g.purge_mask \ mask
           x == IF g.purge_mask \cap mask # {} THEN FUTURE ELSE g.purge_expire
           done == WithMasks(g, c, p, o, x)
<1>1. Commit(g, mask, ok) = IF all \/ ok THEN [ok |-> TRUE, g |-> done] ELSE [ok |-> FALSE, g |-> g]
  BY ZenonT(30) DEF Commit, SegRec, WithMasks
<1>2. /\ c \in SUBSET Slices /\ p \in SUBSET Slices /\ o \in SUBSET Slices /\ x \in UNSET .. LONGPASSED
  BY MaskTypes DEF FUTURE, UNSET, LONGPASSED
<1>3. /\ U \cup mask \subseteq o /\ c \subseteq o /\ p \subseteq c \ (U \cup mask)
      /\ p # {} => x # UNSET
  BY DEF MaskOK, FUTURE, UNSET
<1> HIDE DEF all, c, o, p, x
<1>4. /\ Same(g, done) /\ done.slices = g.slices
      /\ done.commit_mask = c /\ done.purge_mask = p /\ done.os = o /\ done.purge_expire = x
  BY <1>2, MasksSet
<1> HIDE DEF done
<1>5. MaskOK(done, U \cup mask) /\ MaskOK(done, U)
  BY <1>3, <1>4 DEF MaskOK
<1>6. Same(g, g)
  BY DEF Same
<1>7. CASE all \/ ok
  <2>1. Commit(g, mask, ok).ok = TRUE /\ Commit(g, mask, ok).g = done
    BY <1>1, <1>7
  <2> QED
    BY ZenonT(30), <1>4, <1>5, <2>1 DEF Committed
<1>8. CASE ~(all \/ ok)
  <2>1. Commit(g, mask, ok).ok = FALSE /\ Commit(g, mask, ok).g = g
    BY <1>1, <1>8
  <2> QED
    BY ZenonT(30), <1>6, <1>8, <2>1 DEF Committed
<1> QED
  BY <1>7, <1>8

\* What a page is given is committed and no longer scheduled for a purge
\* (segment.c:455).
LEMMA EnsureCommittedOK ==
  ASSUME NEW g \in SegRec, NEW U, MaskOK(g, U), NEW mask \in SUBSET Slices, NEW ok \in BOOLEAN
  PROVE  Committed(g, U, mask, ok, EnsureCommitted(g, mask, ok))
<1>1. CASE g.commit_mask = Slices /\ g.purge_mask = {}
  <2>1. EnsureCommitted(g, mask, ok).ok = TRUE /\ EnsureCommitted(g, mask, ok).g = g
    BY <1>1 DEF EnsureCommitted
  <2>2. MaskOK(g, U \cup mask)
    BY <1>1 DEF MaskOK
  <2> QED
    BY ZenonT(30), <2>1, <2>2 DEF Same, Committed
<1>2. CASE ~(g.commit_mask = Slices /\ g.purge_mask = {})
  <2>1. EnsureCommitted(g, mask, ok) = Commit(g, mask, ok)
    BY <1>2 DEF EnsureCommitted
  <2> QED
    BY <2>1, CommitOK
<1> QED
  BY <1>1, <1>2

LEMMA MaskLess ==
  ASSUME NEW g, NEW U, NEW V, MaskOK(g, U), V \subseteq U
  PROVE  MaskOK(g, V)
BY DEF MaskOK

-----------------------------------------------------------------------------
(* Entries.                                                                 *)

\* The span at i of the entries f; `page` says whether it is in use, so that all
\* of its entries lead back to the first.  The last entry of a span that is neither
\* free nor in use is not known.
SpanOK(f, kind, i, page) ==
  /\ f[i].slice_offset = 0 /\ f[i].block_size \in Nat
  /\ page => f[i].block_size # 0
  /\ kind = "NORMAL" => i + f[i].slice_count <= SLICES
  /\ kind = "HUGE" => i \in {0, INFO}
  /\ \A k \in Slices :
       /\ i <= k /\ k < i + f[i].slice_count
       /\ \/ k = i + f[i].slice_count - 1 /\ (page \/ f[i].block_size = 0 \/ kind = "HUGE")
          \/ page /\ k - i <= PA_MAX_SLICE_OFFSET_COUNT
       => k - f[k].slice_offset = i

\* T are the spans of a segment and P those in use; what is neither free nor in P is
\* being worked on.  No two neighbours are free.
TilesOK(f, kind, T, P) ==
  /\ f \in [Entries -> SliceRecord]
  /\ Tiled(f, T)
  /\ P \subseteq T /\ 0 \in P
  /\ \A i \in T : SpanOK(f, kind, i, i \in P)
  /\ \A i, j \in T : f[i].block_size = 0 /\ j = i + f[i].slice_count => f[j].block_size # 0

\* The slices the spans in P cover.
InUse(f, P) == {k \in Slices : \E i \in P : i <= k /\ k < i + f[i].slice_count}

\* The entries h differ from f in lo .. hi - 1 only, which the spans U tile.
Retiles(f, h, T, lo, hi, U) ==
  /\ lo \in T /\ hi \in Nat /\ lo < hi /\ (hi \in T \/ hi >= SLICES)
  /\ U \subseteq Slices /\ lo \in U /\ \A i \in U : lo <= i /\ i < hi
  /\ \A k \in Entries : k < lo \/ k >= hi => h[k] = f[k]
  /\ \A i \in U : /\ h[i].slice_count \in Nat \ {0}
                  /\ i + h[i].slice_count \in U \/ i + h[i].slice_count = hi
                  /\ i # lo => \E j \in U : j + h[j].slice_count = i
  /\ \E j \in U : j + h[j].slice_count = hi

NewSpans(T, lo, hi, U) == {k \in T : k < lo \/ k >= hi} \cup U

\* The spans outside lo .. hi - 1 end before it or begin after it.
LEMMA Outside ==
  ASSUME NEW f, NEW T, Tiled(f, T), NEW lo \in T, NEW hi \in Nat, lo < hi, hi \in T \/ hi >= SLICES,
         NEW i \in T, i < lo \/ i >= hi
  PROVE  /\ i \in Nat /\ i < SLICES /\ f[i].slice_count \in Nat \ {0} /\ lo \in Nat
         /\ i < lo => i + f[i].slice_count <= lo
<1>1. /\ SLICES \in Nat /\ \A k \in T : k \in Nat /\ k < SLICES /\ f[k].slice_count \in Nat \ {0}
  BY SizesAssumption DEF Tiled, Slices
<1>2. i < lo => i + f[i].slice_count <= lo
  BY TiledApart
<1> QED
  BY <1>1, <1>2

LEMMA RetileTiled ==
  ASSUME NEW f, NEW h, NEW T, Tiled(f, T), NEW lo, NEW hi, NEW U, Retiles(f, h, T, lo, hi, U)
  PROVE  Tiled(h, NewSpans(T, lo, hi, U))
<1> DEFINE N == NewSpans(T, lo, hi, U)
<1>0. /\ SLICES \in Nat /\ \A k \in T : k \in Nat /\ k < SLICES /\ k \in Entries /\ f[k].slice_count \in Nat \ {0}
      /\ lo \in T /\ lo \in Nat /\ hi \in Nat /\ lo < hi /\ (hi \in T \/ hi >= SLICES)
      /\ U \subseteq Slices /\ lo \in U /\ \A i \in U : i \in Nat /\ lo <= i /\ i < hi /\ h[i].slice_count \in Nat \ {0}
  BY SizesAssumption DEF Tiled, Slices, Entries, Retiles
<1>1. N \subseteq Slices /\ 0 \in N
  <2>1. 0 \in T /\ T \subseteq Slices
    BY DEF Tiled
  <2>2. 0 < lo \/ 0 = lo
    BY <1>0
  <2> QED
    BY ZenonT(30), <1>0, <2>1, <2>2 DEF NewSpans
<1>2. \A k \in T : k < lo \/ k >= hi => h[k] = f[k]
  BY <1>0 DEF Retiles
<1>3. ASSUME NEW i \in U
      PROVE  /\ h[i].slice_count \in Nat \ {0}
             /\ i + h[i].slice_count \in N \/ i + h[i].slice_count >= SLICES
             /\ i # 0 => \E j \in N : j + h[j].slice_count = i
  <2>1. i + h[i].slice_count \in N \/ i + h[i].slice_count >= SLICES
    <3>1. i + h[i].slice_count \in U \/ i + h[i].slice_count = hi
      BY DEF Retiles
    <3>2. hi \in N \/ hi >= SLICES
      BY <1>0 DEF NewSpans
    <3> QED
      BY <3>1, <3>2 DEF NewSpans
  <2>2. ASSUME i # 0 PROVE \E j \in N : j + h[j].slice_count = i
    <3>1. CASE i # lo
      <4>1. PICK j \in U : j + h[j].slice_count = i
        BY <3>1 DEF Retiles
      <4> QED
        BY <4>1 DEF NewSpans
    <3>2. CASE i = lo
      <4>1. PICK j \in T : j + f[j].slice_count = i
        BY <1>0, <2>2, <3>2 DEF Tiled
      <4>2. j < lo
        <5>1. j \in Nat /\ f[j].slice_count \in Nat \ {0} /\ lo \in Nat
          BY <1>0
        <5> QED
          BY <3>2, <4>1, <5>1
      <4> QED
        BY <1>2, <4>1, <4>2 DEF NewSpans
    <3> QED
      BY <3>1, <3>2
  <2> QED
    BY <1>0, <2>1, <2>2
<1>4. ASSUME NEW i \in T, i < lo \/ i >= hi
      PROVE  /\ h[i].slice_count \in Nat \ {0}
             /\ i + h[i].slice_count \in N \/ i + h[i].slice_count >= SLICES
             /\ i # 0 => \E j \in N : j + h[j].slice_count = i
  <2>1. i < lo => i + f[i].slice_count <= lo
    BY <1>0, <1>4, Outside
  <2>2. h[i] = f[i] /\ f[i].slice_count \in Nat \ {0}
    BY <1>0, <1>2, <1>4
  <2>3. i + f[i].slice_count \in T \/ i + f[i].slice_count >= SLICES
    BY DEF Tiled
  <2>4. i + f[i].slice_count \in N \/ i + f[i].slice_count >= SLICES
    <3>0. i \in Nat /\ f[i].slice_count \in Nat \ {0} /\ lo \in Nat /\ hi \in Nat /\ lo < hi
      BY <1>0
    <3>1. CASE i >= hi
      <4>1. i + f[i].slice_count >= hi
        BY <3>0, <3>1
      <4> QED
        BY <2>3, <4>1 DEF NewSpans
    <3>2. CASE i < lo /\ i + f[i].slice_count < lo
      BY <1>0, <2>2, <2>3, <3>2 DEF NewSpans
    <3>3. CASE i < lo /\ i + f[i].slice_count = lo
      BY <1>0, <3>3 DEF NewSpans
    <3> QED
      BY <1>4, <2>1, <3>0, <3>1, <3>2, <3>3
  <2>5. ASSUME i # 0 PROVE \E j \in N : j + h[j].slice_count = i
    <3>1. PICK j \in T : j + f[j].slice_count = i
      BY <2>5 DEF Tiled
    <3>2. j \in Nat /\ f[j].slice_count \in Nat \ {0} /\ j < i /\ i \in Nat
      BY <1>0, <3>1
    <3>3. CASE j < lo \/ j >= hi
      BY <1>2, <3>1, <3>3 DEF NewSpans
    <3>4. CASE ~(j < lo \/ j >= hi)
      <4>1. i >= hi
        BY <1>0, <1>4, <3>2, <3>4
      <4>2. hi \in T
        BY <1>0, <4>1
      <4>3. j + f[j].slice_count <= hi
        BY <1>0, <3>4, <4>2, TiledApart
      <4>4. i = hi
        BY <1>0, <3>1, <3>2, <4>1, <4>3
      <4>5. PICK k \in U : k + h[k].slice_count = hi
        BY DEF Retiles
      <4> QED
        BY <4>4, <4>5 DEF NewSpans
    <3> QED
      BY <3>3, <3>4
  <2> QED
    BY <2>2, <2>4, <2>5
<1>5. \A i \in N : i \in U \/ (i \in T /\ (i < lo \/ i >= hi))
  BY DEF NewSpans
<1> QED
  BY <1>1, <1>3, <1>4, <1>5 DEF Tiled

\* The new entries h with the spans Q in use are sound if the new spans are and no
\* free span has a free neighbour.
Recut(f, h, kind, T, P, lo, hi, U, Q) ==
  /\ TilesOK(f, kind, T, P)
  /\ Retiles(f, h, T, lo, hi, U) /\ h \in [Entries -> SliceRecord]
  /\ Q \subseteq NewSpans(T, lo, hi, U) /\ 0 \in Q
  /\ \A i \in T : (i < lo \/ i >= hi) /\ i \in Q => i \in P
  /\ \A i \in U : SpanOK(h, kind, i, i \in Q)
  /\ \A i \in U : \A j \in NewSpans(T, lo, hi, U) :
       h[i].block_size = 0 /\ j = i + h[i].slice_count => h[j].block_size # 0
  /\ \A i \in T : i < lo /\ f[i].block_size = 0 /\ i + f[i].slice_count = lo => h[lo].block_size # 0

\* A call that cuts a range of entries anew leaves a sound segment.
LEMMA RecutOK ==
  ASSUME NEW f, NEW h, NEW kind, NEW T, NEW P, NEW lo, NEW hi, NEW U, NEW Q,
         Recut(f, h, kind, T, P, lo, hi, U, Q)
  PROVE  TilesOK(h, kind, NewSpans(T, lo, hi, U), Q)
<1> DEFINE N == NewSpans(T, lo, hi, U)
<1>0. Tiled(f, T) /\ Tiled(h, N)
  BY RetileTiled DEF TilesOK, Recut
<1>1. /\ SLICES \in Nat /\ \A k \in T : k \in Nat /\ k < SLICES /\ k \in Entries /\ f[k].slice_count \in Nat \ {0}
      /\ lo \in T /\ lo \in Nat /\ hi \in Nat /\ lo < hi /\ (hi \in T \/ hi >= SLICES)
      /\ U \subseteq Slices /\ lo \in U /\ \A i \in U : i \in Nat /\ lo <= i /\ i < hi
  BY SMTT(30), <1>0, SizesAssumption DEF Tiled, Slices, Entries, Retiles, Recut
<1>2. \A k \in Entries : k < lo \/ k >= hi => h[k] = f[k]
  BY DEF Retiles, Recut
<1>3. \A i \in N : i \in U \/ (i \in T /\ (i < lo \/ i >= hi))
  BY DEF NewSpans
<1>4. ASSUME NEW i \in T, i < lo \/ i >= hi
      PROVE  SpanOK(h, kind, i, i \in Q)
  <2>1. i < lo => i + f[i].slice_count <= lo
    BY <1>0, <1>1, <1>4, Outside
  <2>2. h[i] = f[i] /\ f[i].slice_count \in Nat \ {0} /\ i \in Nat
    BY ZenonT(30), <1>1, <1>2, <1>4
  <2>3. SpanOK(f, kind, i, i \in P)
    BY DEF TilesOK, Recut
  <2>4. i \in Q => i \in P
    BY <1>4 DEF Recut
  <2>5. ASSUME NEW k \in Slices, i <= k, k < i + f[i].slice_count PROVE h[k] = f[k]
    <3>1. k \in Entries /\ k \in Nat
      BY <1>1 DEF Slices, Entries
    <3>2. k < lo \/ k >= hi
      BY <1>1, <1>4, <2>1, <2>2, <2>5, <3>1
    <3> QED
      BY <1>2, <3>1, <3>2
  <2> QED
    BY <2>2, <2>3, <2>4, <2>5 DEF SpanOK
<1>5. ASSUME NEW i \in N, NEW j \in N, h[i].block_size = 0, j = i + h[i].slice_count
      PROVE  h[j].block_size # 0
  <2>1. CASE i \in U
    BY <1>5, <2>1 DEF Recut
  <2>2. CASE i \in T /\ (i < lo \/ i >= hi)
    <3>1. i < lo => i + f[i].slice_count <= lo
      BY <1>0, <1>1, <2>2, Outside
    <3>2. h[i] = f[i] /\ f[i].slice_count \in Nat \ {0} /\ i \in Nat
      BY ZenonT(30), <1>1, <1>2, <2>2
    <3>3. CASE i >= hi
      <4>1. j \in T /\ j >= hi /\ j \in Nat
        BY <1>1, <1>3, <1>5, <3>2, <3>3
      <4>2. h[j] = f[j]
        BY <1>1, <1>2, <4>1
      <4> QED
        BY <1>5, <2>2, <3>2, <4>1, <4>2 DEF TilesOK, Recut
    <3>4. CASE i < lo /\ j < lo
      <4>1. j \in T
        <5>1. j \in U => j \in Nat /\ lo \in Nat /\ lo <= j
          BY <1>1
        <5>2. j \in U \/ j \in T
          BY <1>3
        <5> QED
          BY <3>4, <5>1, <5>2
      <4>2. h[j] = f[j]
        BY <1>1, <1>2, <3>4, <4>1
      <4> QED
        BY <1>5, <2>2, <3>2, <4>1, <4>2 DEF TilesOK, Recut
    <3>5. CASE i < lo /\ j = lo
      BY <1>5, <2>2, <3>2, <3>5 DEF Recut
    <3> QED
      BY <1>1, <1>5, <2>2, <3>1, <3>2, <3>3, <3>4, <3>5
  <2> QED
    BY <1>3, <2>1, <2>2
<1>6. \A i \in N : SpanOK(h, kind, i, i \in Q)
  BY <1>3, <1>4 DEF Recut
<1> QED
  BY <1>0, <1>5, <1>6 DEF TilesOK, Recut

\* What the spans in use cover afterwards.
LEMMA RecutUse ==
  ASSUME NEW f, NEW h, NEW kind, NEW T, NEW P, NEW lo, NEW hi, NEW U, NEW Q,
         Recut(f, h, kind, T, P, lo, hi, U, Q)
  PROVE  /\ \A k \in InUse(h, Q) : k < lo \/ k >= hi => k \in InUse(f, P)
         /\ Q \cap U = {} => \A k \in InUse(h, Q) : k < lo \/ k >= hi
<1>0. /\ Tiled(f, T) /\ Retiles(f, h, T, lo, hi, U) /\ Q \subseteq NewSpans(T, lo, hi, U)
      /\ \A i \in T : (i < lo \/ i >= hi) /\ i \in Q => i \in P
  BY DEF Recut, TilesOK
<1>1. /\ SLICES \in Nat /\ \A k \in T : k \in Nat /\ k < SLICES /\ k \in Entries /\ f[k].slice_count \in Nat \ {0}
      /\ lo \in T /\ lo \in Nat /\ hi \in Nat /\ lo < hi /\ (hi \in T \/ hi >= SLICES)
      /\ U \subseteq Slices /\ lo \in U /\ \A i \in U : i \in Nat /\ lo <= i /\ i < hi
  BY <1>0, SizesAssumption DEF Tiled, Slices, Entries, Retiles
<1>2. ASSUME NEW k \in InUse(h, Q)
      PROVE  /\ k < lo \/ k >= hi => k \in InUse(f, P)
             /\ Q \cap U = {} => k < lo \/ k >= hi
  <2>1. PICK i \in Q : i <= k /\ k < i + h[i].slice_count
    BY DEF InUse
  <2>2. k \in Slices /\ k \in Nat
    BY DEF InUse, Slices
  <2>3. i \in U \/ (i \in T /\ (i < lo \/ i >= hi))
    BY <1>0 DEF NewSpans
  <2>4. CASE i \in T /\ (i < lo \/ i >= hi)
    <3>1. i < lo => i + f[i].slice_count <= lo
      BY <1>0, <1>1, <2>4, Outside
    <3>2. h[i] = f[i] /\ i \in Nat /\ f[i].slice_count \in Nat /\ i \in P
      BY <1>0, <1>1, <2>4 DEF Retiles
    <3> QED
      BY <1>1, <2>1, <2>2, <2>4, <3>1, <3>2 DEF InUse
  <2>5. CASE i \in U
    <3>1. i + h[i].slice_count <= hi /\ i \in Nat /\ h[i].slice_count \in Nat
      BY <1>0, <1>1, <2>5 DEF Retiles
    <3> QED
      BY <1>1, <2>1, <2>2, <2>5, <3>1
  <2> QED
    BY <2>3, <2>4, <2>5
<1> QED
  BY <1>2

-----------------------------------------------------------------------------
(* Merging free spans.                                                      *)

\* Only the span at i is neither free nor in use.
Rested(f, T, P, i) == \A k \in T \ P : k # i => f[k].block_size = 0

\* The entry before a span leads to the first slice of the span before it
\* (segment.c:697).
LEMMA PreviousIs ==
  ASSUME NEW f, NEW kind, NEW T, NEW P, TilesOK(f, kind, T, P), NEW i \in T, i # 0, Rested(f, T, P, i)
  PROVE  LET p == i - 1 - f[i - 1].slice_offset
         IN p \in T /\ p < i /\ p + f[p].slice_count = i
<1>1. PICK p \in T : p + f[p].slice_count = i
  BY DEF TilesOK, Tiled
<1>2. /\ SLICES \in Nat /\ p \in Nat /\ f[p].slice_count \in Nat \ {0} /\ i \in Nat /\ i < SLICES
      /\ SpanOK(f, kind, p, p \in P)
  BY SizesAssumption DEF TilesOK, Tiled, Slices
<1>3. i - 1 \in Slices /\ p <= i - 1 /\ i - 1 < p + f[p].slice_count /\ i - 1 = p + f[p].slice_count - 1 /\ p < i
  BY <1>1, <1>2 DEF Slices
<1>4. i - 1 - f[i - 1].slice_offset = p
  <2>1. p \in P \/ f[p].block_size = 0
    BY <1>2, <1>3 DEF Rested
  <2> QED
    BY <1>2, <1>3, <2>1 DEF SpanOK
<1> QED
  BY <1>1, <1>3, <1>4

Next_(f, i) == i + f[i].slice_count
Prev_(f, i) == i - 1 - f[i - 1].slice_offset
HasNext(f, i) == Next_(f, i) < SLICES /\ f[Next_(f, i)].block_size = 0
HasPrev(f, i) == i > 0 /\ f[Prev_(f, i)].block_size = 0
MergeAt(f, i) == IF HasPrev(f, i) THEN Prev_(f, i) ELSE i
MergeLength(f, i) ==
  f[i].slice_count + (IF HasNext(f, i) THEN f[Next_(f, i)].slice_count ELSE 0)
                   + (IF HasPrev(f, i) THEN f[Prev_(f, i)].slice_count ELSE 0)

LEMMA MergeNeighbours ==
  ASSUME NEW f, NEW T, NEW P, TilesOK(f, "NORMAL", T, P), NEW i \in T, i \notin P, Rested(f, T, P, i)
  PROVE  /\ i \in Nat /\ i # 0 /\ i < SLICES /\ f[i].slice_count \in Nat \ {0}
         /\ Next_(f, i) \in T \/ Next_(f, i) = SLICES
         /\ Next_(f, i) \in Nat /\ i < Next_(f, i)
         /\ HasNext(f, i) => /\ Next_(f, i) \in T /\ Next_(f, i) \notin P
                             /\ f[Next_(f, i)].slice_count \in Nat \ {0} /\ Next_(f, i) < SLICES
         /\ Prev_(f, i) \in T /\ Prev_(f, i) \in Nat /\ Prev_(f, i) < i
         /\ f[Prev_(f, i)].slice_count \in Nat \ {0} /\ Prev_(f, i) + f[Prev_(f, i)].slice_count = i
         /\ HasPrev(f, i) => Prev_(f, i) \notin P
         /\ ~HasPrev(f, i) => f[Prev_(f, i)].block_size # 0
<1>1. /\ SLICES \in Nat /\ 0 \in P /\ P \subseteq T
      /\ \A k \in T : /\ k \in Nat /\ k < SLICES /\ f[k].slice_count \in Nat \ {0}
                      /\ k + f[k].slice_count \in T \/ k + f[k].slice_count >= SLICES
                      /\ k \in P => f[k].block_size # 0
                      /\ k + f[k].slice_count <= SLICES
  BY SizesAssumption DEF TilesOK, Tiled, Slices, SpanOK
<1>2. i \in Nat /\ i # 0 /\ i < SLICES /\ f[i].slice_count \in Nat \ {0} /\ i > 0
  BY <1>1
<1>3. Prev_(f, i) \in T /\ Prev_(f, i) < i /\ Prev_(f, i) + f[Prev_(f, i)].slice_count = i
  BY <1>2, PreviousIs DEF Prev_
<1>4. /\ Next_(f, i) \in Nat /\ i < Next_(f, i) /\ (Next_(f, i) \in T \/ Next_(f, i) >= SLICES) /\ Next_(f, i) <= SLICES
  BY <1>1, <1>2 DEF Next_
<1>5. HasNext(f, i) => /\ Next_(f, i) \in T /\ Next_(f, i) \notin P
                       /\ f[Next_(f, i)].slice_count \in Nat \ {0} /\ Next_(f, i) < SLICES
  <2> SUFFICES ASSUME HasNext(f, i) PROVE Next_(f, i) < SLICES /\ f[Next_(f, i)].block_size = 0
    BY <1>1, <1>4
  <2> QED
    BY DEF HasNext
<1>6. HasPrev(f, i) => f[Prev_(f, i)].block_size = 0
  BY DEF HasPrev
<1>7. ~HasPrev(f, i) => f[Prev_(f, i)].block_size # 0
  BY <1>2 DEF HasPrev
<1>8. Next_(f, i) \in T \/ Next_(f, i) = SLICES
  BY <1>1, <1>4
<1>9. HasPrev(f, i) => Prev_(f, i) \notin P
  BY <1>1, <1>6
<1>10. Prev_(f, i) \in Nat /\ f[Prev_(f, i)].slice_count \in Nat \ {0}
  BY <1>1, <1>3
<1> QED
  BY <1>2, <1>3, <1>4, <1>5, <1>7, <1>8, <1>9, <1>10

LEMMA MergeRange ==
  ASSUME NEW f, NEW T, NEW P, TilesOK(f, "NORMAL", T, P), NEW i \in T, i \notin P, Rested(f, T, P, i),
         NEW lo, lo = MergeAt(f, i), NEW n, n = MergeLength(f, i)
  PROVE  /\ lo \in T /\ lo \in Nat \ {0} /\ lo \notin P /\ lo <= i /\ n \in Nat \ {0} /\ lo + n <= SLICES
         /\ lo + n \in T \/ lo + n = SLICES
         /\ i < lo + n /\ Next_(f, i) <= lo + n
         /\ \A k \in T : lo <= k /\ k < lo + n =>
              k = i \/ (HasNext(f, i) /\ k = Next_(f, i)) \/ (HasPrev(f, i) /\ k = Prev_(f, i))
         /\ \A k \in T : k = lo + n => f[k].block_size # 0
         /\ \A k \in T : k + f[k].slice_count = lo => f[k].block_size # 0
<1> DEFINE nx == Next_(f, i)
           pv == Prev_(f, i)
           c  == f[i].slice_count
           cn == f[nx].slice_count
           cp == f[pv].slice_count
<1>0. Tiled(f, T)
  BY DEF TilesOK
<1>1. /\ SLICES \in Nat /\ 0 \in P /\ P \subseteq T
      /\ \A k \in T : /\ k \in Nat /\ k < SLICES /\ f[k].slice_count \in Nat \ {0}
                      /\ k + f[k].slice_count \in T \/ k + f[k].slice_count >= SLICES
                      /\ k + f[k].slice_count <= SLICES
  BY SizesAssumption DEF TilesOK, Tiled, Slices, SpanOK
<1>2. /\ i \in Nat /\ i # 0 /\ i < SLICES /\ c \in Nat \ {0}
      /\ nx \in T \/ nx = SLICES
      /\ nx \in Nat /\ i < nx /\ nx = i + c
      /\ HasNext(f, i) => /\ nx \in T /\ nx \notin P /\ cn \in Nat \ {0} /\ nx < SLICES
      /\ pv \in T /\ pv \in Nat /\ pv < i /\ cp \in Nat \ {0} /\ pv + cp = i
      /\ HasPrev(f, i) => pv \notin P
      /\ ~HasPrev(f, i) => f[pv].block_size # 0
  BY MergeNeighbours DEF Next_
<1>3. /\ lo = IF HasPrev(f, i) THEN pv ELSE i
      /\ n = c + (IF HasNext(f, i) THEN cn ELSE 0) + (IF HasPrev(f, i) THEN cp ELSE 0)
  BY DEF MergeAt, MergeLength
<1>4. HasNext(f, i) => (nx + cn \in T \/ nx + cn >= SLICES) /\ nx + cn <= SLICES
  BY <1>1, <1>2
<1>5. /\ HasNext(f, i) => f[nx].block_size = 0
      /\ HasPrev(f, i) => f[pv].block_size = 0
      /\ ~HasNext(f, i) /\ nx < SLICES => f[nx].block_size # 0
  BY DEF HasNext, HasPrev
<1> HIDE DEF nx, pv, c, cn, cp
<1>6. /\ lo \in T /\ lo \in Nat /\ lo <= i /\ n \in Nat \ {0}
      /\ lo + n = IF HasNext(f, i) THEN nx + cn ELSE nx
  BY <1>2, <1>3
<1>7. /\ lo + n <= SLICES /\ (lo + n \in T \/ lo + n = SLICES) /\ i < lo + n /\ nx <= lo + n
  BY <1>1, <1>2, <1>4, <1>6
<1>8. lo \notin P /\ lo # 0
  BY <1>1, <1>2, <1>3
<1>9. ASSUME NEW k \in T, lo <= k, k < lo + n
      PROVE  k = i \/ (HasNext(f, i) /\ k = nx) \/ (HasPrev(f, i) /\ k = pv)
  <2>0. k \in Nat
    BY <1>1
  <2>1. CASE k < i
    <3>1. HasPrev(f, i) /\ pv <= k
      BY <1>2, <1>3, <1>9, <2>0, <2>1
    <3>2. pv < k => pv + cp <= k
      BY <1>0, <1>2, TiledApart DEF cp
    <3> QED
      BY <1>2, <2>0, <2>1, <3>1, <3>2
  <2>2. CASE k > i
    <3>1. i + c <= k
      BY <1>0, <1>2, <2>0, <2>2, TiledApart DEF c
    <3>2. HasNext(f, i)
      BY <1>2, <1>6, <1>9, <2>0, <3>1
    <3>3. nx < k => nx + cn <= k
      BY <1>0, <1>2, <3>2, TiledApart DEF cn
    <3> QED
      BY <1>2, <1>6, <1>9, <2>0, <3>1, <3>2, <3>3
  <2> QED
    BY <1>2, <2>0, <2>1, <2>2
<1>10. ASSUME NEW k \in T, k = lo + n PROVE f[k].block_size # 0
  <2>1. CASE HasNext(f, i)
    <3>1. nx \in T /\ f[nx].block_size = 0 /\ k = nx + f[nx].slice_count
      BY <1>2, <1>5, <1>6, <1>10, <2>1 DEF cn
    <3> QED
      BY <3>1 DEF TilesOK
  <2>2. CASE ~HasNext(f, i)
    BY <1>1, <1>5, <1>6, <1>10, <2>2
  <2> QED
    BY <2>1, <2>2
<1>11. ASSUME NEW k \in T, k + f[k].slice_count = lo PROVE f[k].block_size # 0
  <2>1. CASE HasPrev(f, i)
    <3>1. lo = pv /\ f[pv].block_size = 0
      BY <1>3, <1>5, <2>1
    <3>2. f[k].block_size = 0 => f[pv].block_size # 0
      BY <1>2, <1>11, <3>1 DEF TilesOK
    <3> QED
      BY <3>1, <3>2
  <2>2. CASE ~HasPrev(f, i)
    <3>1. lo = i /\ k \in Nat /\ f[k].slice_count \in Nat \ {0}
      BY <1>1, <1>3, <2>2
    <3>2. k < pv => k + f[k].slice_count <= pv
      BY <1>0, <1>2, TiledApart
    <3>3. pv < k => pv + cp <= k
      BY <1>0, <1>2, TiledApart DEF cp
    <3>4. k = pv
      BY <1>2, <1>11, <3>1, <3>2, <3>3
    <3> QED
      BY <1>2, <2>2, <3>4
  <2> QED
    BY <2>1, <2>2
<1>12. nx = Next_(f, i) /\ pv = Prev_(f, i)
  BY DEF nx, pv
<1> QED
  BY <1>6, <1>7, <1>8, <1>9, <1>10, <1>11, <1>12

\* h is f with a free span of n slices at i.
FreedAt(f, i, n, h) ==
  /\ h \in [Entries -> SliceRecord]
  /\ h[i].slice_count = n /\ h[i].block_size = 0
  /\ SpanOK(h, "NORMAL", i, FALSE)
  /\ \A k \in Entries : k # i /\ k # i + n - 1 => h[k] = f[k]

LEMMA FreeEntry ==
  ASSUME NEW e \in SliceRecord, NEW n \in Int
  PROVE  LET x == [e EXCEPT !.slice_count = n, !.slice_offset = 0, !.block_size = 0]
         IN x \in SliceRecord /\ x.slice_count = n /\ x.block_size = 0 /\ x.slice_offset = 0
<1> DEFINE a == [e EXCEPT !.slice_count = n]
           b == [a EXCEPT !.slice_offset = 0]
           c == [b EXCEPT !.block_size = 0]
<1>1. a \in SliceRecord /\ a.slice_count = n
  BY DEF SliceRecord
<1> HIDE DEF a
<1>2. b \in SliceRecord /\ b.slice_count = n /\ b.slice_offset = 0
  BY <1>1 DEF SliceRecord
<1> HIDE DEF b
<1>3. c \in SliceRecord /\ c.slice_count = n /\ c.slice_offset = 0 /\ c.block_size = 0
  BY <1>2 DEF SliceRecord
<1> QED
  BY <1>3 DEF a, b

LEMMA FreeEntriesOK ==
  ASSUME NEW g, g.slices \in [Entries -> SliceRecord], NEW i \in Slices, NEW n \in Nat \ {0}, i + n <= SLICES
  PROVE  FreedAt(g.slices, i, n, FreeEntries(g, i, n))
<1> DEFINE f == g.slices
           h == FreeEntries(g, i, n)
           tail == [Zeroed EXCEPT !.slice_offset = n - 1]
<1>0. /\ SLICES \in Nat /\ i \in Nat /\ i < SLICES /\ \A k \in Slices : k \in Nat /\ k < SLICES /\ k \in Entries
  BY SizesAssumption DEF Slices, Entries
<1>1. /\ i \in Entries /\ i + n - 1 \in Entries /\ i + n - 1 \in Nat /\ ~(i + n - 1 > SLICES)
      /\ \A k \in Entries : k \in Nat
  BY <1>0 DEF Entries
<1>2. tail \in SliceRecord /\ tail.slice_offset = n - 1
  BY DEF Zeroed, SliceRecord
<1> DEFINE x == [f[i] EXCEPT !.slice_count = n, !.slice_offset = 0, !.block_size = 0]
<1>3. x \in SliceRecord /\ x.slice_count = n /\ x.block_size = 0 /\ x.slice_offset = 0
  <2>1. f[i] \in SliceRecord
    BY <1>1
  <2>2. n \in Int
    OBVIOUS
  <2> QED
    BY <2>1, <2>2, FreeEntry
<1>4. h = [k \in Entries |-> IF k = i THEN x ELSE IF k = i + n - 1 THEN tail ELSE f[k]]
  BY <1>1 DEF FreeEntries, tail
<1> HIDE DEF tail, x, h
<1>5. h[i] = x /\ (n # 1 => h[i + n - 1] = tail)
  BY <1>0, <1>1, <1>4
<1>6. h \in [Entries -> SliceRecord]
  BY <1>2, <1>3, <1>4
<1>7. h[i + n - 1].slice_offset = n - 1
  <2>1. CASE n = 1
    <3>1. i + n - 1 = i
      BY <1>0, <2>1
    <3> QED
      BY <1>3, <1>5, <2>1, <3>1
  <2>2. CASE n # 1
    BY <1>2, <1>5, <2>2
  <2> QED
    BY <2>1, <2>2
<1>8. \A k \in Entries : k # i /\ k # i + n - 1 => h[k] = f[k]
  BY <1>4
<1>9. SpanOK(h, "NORMAL", i, FALSE)
  <2>1. h[i].slice_count = n /\ h[i].block_size = 0 /\ h[i].slice_offset = 0
    BY <1>3, <1>5
  <2>2. ASSUME NEW k \in Slices, k = i + h[i].slice_count - 1 PROVE k - h[k].slice_offset = i
    <3>1. k = i + n - 1
      BY <2>1, <2>2
    <3>2. h[k].slice_offset = n - 1
      BY <1>7, <3>1
    <3> QED
      BY <1>0, <3>1, <3>2
  <2> QED
    BY <1>0, <2>1, <2>2 DEF SpanOK
<1> QED
  BY ZenonT(30), <1>3, <1>5, <1>6, <1>8, <1>9 DEF h, FreedAt

\* The spans when those after lo and before lo + n are merged into the one at lo.
NewT(T, lo, n) == {k \in T : k <= lo \/ k >= lo + n}

\* The span at i is to be merged: the entries e are those of f but for the merged
\* range, and h those with the merged span free.
CanMerge(f, T, P, i, lo, n, e, h) ==
  /\ TilesOK(f, "NORMAL", T, P) /\ i \in T /\ i \notin P /\ lo = MergeAt(f, i) /\ n = MergeLength(f, i)
  /\ Rested(f, T, P, i)
  /\ e \in [Entries -> SliceRecord] /\ \A k \in Entries : k < lo \/ k >= lo + n => e[k] = f[k]
  /\ FreedAt(e, lo, n, h)

Merged(f, T, P, lo, n, h) ==
  /\ TilesOK(h, "NORMAL", NewT(T, lo, n), P)
  /\ h[lo].slice_count = n /\ h[lo].block_size = 0
  /\ \A k \in Entries : k < lo \/ k >= lo + n => h[k] = f[k]
  /\ \A k \in P : k < lo \/ k >= lo + n
  /\ InUse(h, P) \subseteq InUse(f, P) /\ InUse(h, P) \cap Mask(lo, n) = {}

\* What a merge leaves.
LEMMA MergeOK ==
  ASSUME NEW f, NEW T, NEW P, NEW i, NEW lo, NEW n, NEW e, NEW h, CanMerge(f, T, P, i, lo, n, e, h)
  PROVE  Merged(f, T, P, lo, n, h)
<1>a. /\ TilesOK(f, "NORMAL", T, P) /\ i \in T /\ i \notin P /\ lo = MergeAt(f, i) /\ n = MergeLength(f, i)
      /\ e \in [Entries -> SliceRecord] /\ \A k \in Entries : k < lo \/ k >= lo + n => e[k] = f[k]
      /\ FreedAt(e, lo, n, h) /\ Rested(f, T, P, i)
  BY DEF CanMerge
<1> DEFINE N == NewSpans(T, lo, lo + n, {lo})
<1>0. /\ SLICES \in Nat /\ 0 \in P /\ P \subseteq T /\ Tiled(f, T)
      /\ \A k \in T : k \in Nat /\ k < SLICES /\ k \in Slices /\ k \in Entries
  BY <1>a, SizesAssumption DEF TilesOK, Tiled, Slices, Entries
<1>1. /\ lo \in T /\ lo \in Nat \ {0} /\ lo \notin P /\ lo <= i /\ n \in Nat \ {0} /\ lo + n <= SLICES
      /\ lo + n \in T \/ lo + n = SLICES
      /\ \A k \in T : lo <= k /\ k < lo + n =>
              k = i \/ (HasNext(f, i) /\ k = Next_(f, i)) \/ (HasPrev(f, i) /\ k = Prev_(f, i))
      /\ \A k \in T : k = lo + n => f[k].block_size # 0
      /\ \A k \in T : k + f[k].slice_count = lo => f[k].block_size # 0
  BY <1>a, MergeRange
<1>10. /\ lo \in T /\ lo \in Nat \ {0} /\ lo \notin P /\ lo <= i /\ n \in Nat \ {0} /\ lo + n <= SLICES
       /\ lo + n \in T \/ lo + n = SLICES
  BY <1>1
<1>2. \A k \in P : k < lo \/ k >= lo + n
  <2>1. /\ HasNext(f, i) => Next_(f, i) \notin P
        /\ HasPrev(f, i) => Prev_(f, i) \notin P
    BY <1>a, MergeNeighbours
  <2> QED
    BY <1>a, <1>0, <1>1, <2>1
<1>3. /\ h \in [Entries -> SliceRecord]
      /\ h[lo].slice_count = n /\ h[lo].block_size = 0
      /\ SpanOK(h, "NORMAL", lo, FALSE)
      /\ \A k \in Entries : k # lo /\ k # lo + n - 1 => h[k] = e[k]
  BY ZenonT(30), <1>a DEF FreedAt
<1>4. \A k \in Entries : k < lo \/ k >= lo + n => h[k] = f[k]
  <2> SUFFICES ASSUME NEW k \in Entries, k < lo \/ k >= lo + n PROVE h[k] = f[k]
    OBVIOUS
  <2>1. k \in Nat
    BY <1>0 DEF Entries
  <2>2. k # lo /\ k # lo + n - 1
    BY <1>10, <2>1
  <2> QED
    BY <1>a, <1>3, <2>2
<1>5. Retiles(f, h, T, lo, lo + n, {lo})
  BY <1>a, <1>0, <1>1, <1>3, <1>4 DEF Retiles
<1>6. N = {k \in T : k <= lo \/ k >= lo + n}
  <2>0. lo \in Nat /\ \A k \in T : k \in Nat
    BY <1>0, <1>10
  <2>1. \A k \in T : k <= lo <=> k < lo \/ k = lo
    BY <2>0
  <2> QED
    BY <1>1, <2>1 DEF NewSpans
<1>7. Recut(f, h, "NORMAL", T, P, lo, lo + n, {lo}, P)
  <2>1. P \subseteq N
    BY <1>0, <1>2 DEF NewSpans
  <2>2. \A j \in N : j = lo + h[lo].slice_count => h[j].block_size # 0
    <3> SUFFICES ASSUME NEW j \in N, j = lo + n PROVE h[j].block_size # 0
      BY ZenonT(30), <1>3
    <3>0. j \in T
      BY <1>6
    <3>1. j \in T /\ j >= lo + n /\ j \in Entries
      BY <1>0, <3>0
    <3>2. h[j] = f[j]
      BY <1>4, <3>1
    <3> QED
      BY <1>1, <3>1, <3>2
  <2>3. \A k \in {lo} : SpanOK(h, "NORMAL", k, k \in P)
    BY <1>10, <1>3 DEF SpanOK
  <2>4. \A k \in T : k < lo /\ f[k].block_size = 0 /\ k + f[k].slice_count = lo => h[lo].block_size # 0
    BY ZenonT(30), <1>1
  <2>5. h \in [Entries -> SliceRecord] /\ 0 \in P /\ \A k \in T : (k < lo \/ k >= lo + n) /\ k \in P => k \in P
    BY <1>0, <1>3
  <2>6. \A k \in {lo} : \A j \in N : h[k].block_size = 0 /\ j = k + h[k].slice_count => h[j].block_size # 0
    BY <2>2
  <2> QED
    BY ZenonT(30), <1>a, <1>5, <2>1, <2>3, <2>4, <2>5, <2>6 DEF Recut
<1>8. InUse(h, P) \subseteq InUse(f, P) /\ InUse(h, P) \cap Mask(lo, n) = {}
  <2>1. /\ \A k \in InUse(h, P) : k < lo \/ k >= lo + n => k \in InUse(f, P)
        /\ P \cap {lo} = {} => \A k \in InUse(h, P) : k < lo \/ k >= lo + n
    BY <1>7, RecutUse
  <2>2. \A k \in Mask(lo, n) : ~(k < lo \/ k >= lo + n)
    BY <1>10 DEF Mask
  <2> QED
    BY <1>10, <2>1, <2>2
<1>9. TilesOK(h, "NORMAL", N, P)
  BY <1>7, RecutOK
<1> QED
  BY ZenonT(30), <1>2, <1>3, <1>4, <1>6, <1>8, <1>9 DEF Merged, NewT

-----------------------------------------------------------------------------
(* Worlds.                                                                  *)

MasksEqual(g, h) ==
  /\ h.commit_mask = g.commit_mask /\ h.purge_mask = g.purge_mask
  /\ h.os = g.os /\ h.purge_expire = g.purge_expire

LEMMA MasksEqualOK ==
  ASSUME NEW g, NEW h, MasksEqual(g, h), NEW U, MaskOK(g, U)
  PROVE  MaskOK(h, U)
BY DEF MasksEqual, MaskOK

LEMMA WorldParts ==
  ASSUME NEW w \in Worlds
  PROVE  /\ w.g \in SegRec /\ w.tld \in TldRec /\ w.s \in Addresses /\ w.at \in Nat
         /\ w.g.slices \in [Entries -> SliceRecord] /\ w.tld.spans \in [Bins -> Seq(Span)]
BY DEF Worlds, SegRec, TldRec

\* The world with other entries.
SetSlices(w, f) == [w EXCEPT !.g.slices = f]

LEMMA SetSlicesIs ==
  ASSUME NEW w \in Worlds, NEW f \in [Entries -> SliceRecord]
  PROVE  LET v == SetSlices(w, f)
         IN /\ v \in Worlds /\ v.s = w.s /\ v.at = w.at /\ v.tld = w.tld
            /\ Same(w.g, v.g) /\ MasksEqual(w.g, v.g) /\ v.g.slices = f
<1> DEFINE v == SetSlices(w, f)
           h == [w.g EXCEPT !.slices = f]
<1>1. v = [w EXCEPT !.g = h]
  BY DEF SetSlices
<1>2. h \in SegRec
  BY SMTT(30), WorldParts DEF SegRec
<1>3. Same(w.g, h) /\ MasksEqual(w.g, h) /\ h.slices = f
  BY ZenonT(30), <1>2, WorldParts DEF SegRec, Same, MasksEqual
<1> HIDE DEF h
<1>4. v \in Worlds /\ v.s = w.s /\ v.at = w.at /\ v.tld = w.tld /\ v.g = h
  BY <1>1, <1>2 DEF Worlds
<1> HIDE DEF v
<1>5. Same(w.g, v.g) /\ MasksEqual(w.g, v.g) /\ v.g.slices = f
  BY <1>3, <1>4
<1> QED
  BY <1>4, <1>5 DEF v

\* The world with other queues.
SetSpans(w, q) == [w EXCEPT !.tld.spans = q]

LEMMA SetSpansIs ==
  ASSUME NEW w \in Worlds, NEW q \in [Bins -> Seq(Span)]
  PROVE  LET v == SetSpans(w, q)
         IN v \in Worlds /\ v.s = w.s /\ v.at = w.at /\ v.g = w.g /\ v.tld.spans = q
BY ZenonT(30), WorldParts DEF Worlds, SetSpans, TldRec

LEMMA EntryTypes ==
  ASSUME NEW f \in [Entries -> SliceRecord], NEW i \in Entries, NEW n \in Int
  PROVE  /\ [f EXCEPT ![i].slice_count = n] \in [Entries -> SliceRecord]
         /\ [f EXCEPT ![i].block_size = n] \in [Entries -> SliceRecord]
BY DEF SliceRecord

LEMMA QueueDeleteIs ==
  ASSUME NEW w \in Worlds, NEW i \in Slices, NEW q0, NEW H, QueueOK(w.tld.spans, q0, w.s, H),
         NEW b \in Bins, b = SliceBin(w.g.slices[i].slice_count)
  PROVE  LET v == QueueDelete(w, i)
         IN /\ v \in Worlds /\ v.s = w.s /\ v.at = w.at
            /\ Same(w.g, v.g) /\ MasksEqual(w.g, v.g)
            /\ v.g.slices = [w.g.slices EXCEPT ![i].block_size = 1]
            /\ QueueOK(v.tld.spans, q0, w.s, H \ {<<b, i>>})
<1> DEFINE f == [w.g.slices EXCEPT ![i].block_size = 1]
           q == [w.tld.spans EXCEPT ![b] = Without(@, <<w.s, i>>)]
           v == SetSlices(w, f)
<1>1. f \in [Entries -> SliceRecord]
  <2>1. i \in Entries
    BY SizesAssumption DEF Slices, Entries
  <2>2. w.g.slices \in [Entries -> SliceRecord]
    BY WorldParts
  <2> QED
    BY <2>1, <2>2 DEF SliceRecord
<1>2. QueueOK(q, q0, w.s, H \ {<<b, i>>})
  BY QueueDeletes, WorldParts
<1>3. q \in [Bins -> Seq(Span)]
  BY ZenonT(30), <1>2 DEF QueueOK
<1>4. QueueDelete(w, i) = SetSpans(v, q)
  BY ZenonT(30) DEF QueueDelete, SetSpans, SetSlices, Worlds
<1> HIDE DEF f, q
<1>5. /\ v \in Worlds /\ v.s = w.s /\ v.at = w.at /\ v.tld = w.tld
      /\ Same(w.g, v.g) /\ MasksEqual(w.g, v.g) /\ v.g.slices = f
  BY <1>1, SetSlicesIs
<1> HIDE DEF v
<1>6. LET x == SetSpans(v, q) IN x \in Worlds /\ x.s = v.s /\ x.at = v.at /\ x.g = v.g /\ x.tld.spans = q
  BY <1>3, <1>5, SetSpansIs
<1> QED
  BY <1>2, <1>4, <1>5, <1>6 DEF f

\* The world with another segment.
SetSegment(w, h) == [w EXCEPT !.g = h]

LEMMA SetSegmentIs ==
  ASSUME NEW w \in Worlds, NEW h \in SegRec
  PROVE  LET v == SetSegment(w, h)
         IN v \in Worlds /\ v.s = w.s /\ v.at = w.at /\ v.tld = w.tld /\ v.g = h
BY DEF Worlds, SetSegment

\* v is w with a free span of n slices at i, in its queue if the segment has an owner.
SpanFreed(w, v, i, n, U, q0, H) ==
  /\ v \in Worlds /\ v.s = w.s /\ v.at = w.at /\ Same(w.g, v.g)
  /\ FreedAt(w.g.slices, i, n, v.g.slices)
  /\ MaskOK(v.g, U)
  /\ QueueOK(v.tld.spans, q0, w.s, IF w.g.thread_id = NoThread THEN H ELSE H \cup {<<SliceBin(n), i>>})

LEMMA SpanFreeIs ==
  ASSUME NEW w \in Worlds, NEW i \in Slices, NEW n \in Nat \ {0}, i + n <= SLICES, NEW purge \in BOOLEAN,
         w.g.kind = "NORMAL",
         NEW U, MaskOK(w.g, U), purge => U \cap Mask(i, n) = {},
         NEW q0, NEW H, QueueOK(w.tld.spans, q0, w.s, H), <<SliceBin(n), i>> \notin H
  PROVE  SpanFreed(w, SpanFree(w, i, n, purge), i, n, U, q0, H)
<1> DEFINE h == FreeEntries(w.g, i, n)
           b == SliceBin(n)
           free == [w EXCEPT !.g.slices = h]
           w1 == IF purge THEN [free EXCEPT !.g = SchedulePurge(@, Mask(i, n))] ELSE free
<1>0. /\ SLICES \in Nat /\ i \in Nat /\ n \in 0 .. SLICES
      /\ w.g.slices \in [Entries -> SliceRecord] /\ w.g \in SegRec /\ Mask(i, n) \in SUBSET Slices
  BY WorldParts, SizesAssumption DEF Slices, Mask
<1>1. SpanFree(w, i, n, purge) = IF w.g.thread_id = NoThread THEN w1 ELSE QueuePush(w1, b, i)
  BY DEF SpanFree
<1>2. FreedAt(w.g.slices, i, n, h)
  BY <1>0, FreeEntriesOK
<1>3. free = SetSlices(w, h)
  BY DEF SetSlices
<1>4. h \in [Entries -> SliceRecord]
  BY <1>2 DEF FreedAt
<1> HIDE DEF h, free
<1>5. /\ free \in Worlds /\ free.s = w.s /\ free.at = w.at /\ free.tld = w.tld
      /\ Same(w.g, free.g) /\ MasksEqual(w.g, free.g) /\ free.g.slices = h
  BY <1>3, <1>4, SetSlicesIs
<1>6. free.g \in SegRec /\ MaskOK(free.g, U)
  BY <1>5, MasksEqualOK DEF Same
<1>7. /\ w1 \in Worlds /\ w1.s = w.s /\ w1.at = w.at /\ w1.tld = w.tld
      /\ Same(w.g, w1.g) /\ w1.g.slices = h /\ MaskOK(w1.g, U)
  <2>1. CASE ~purge
    BY <1>5, <1>6, <2>1
  <2>2. CASE purge
    <3> DEFINE p == SchedulePurge(free.g, Mask(i, n))
    <3>1. Same(free.g, p) /\ p.slices = free.g.slices /\ MaskOK(p, U)
      BY <1>0, <1>6, <2>2, SchedulePurgeOK
    <3>2. w1 = SetSegment(free, p)
      BY <2>2 DEF SetSegment
    <3> HIDE DEF p, w1
    <3>3. w1 \in Worlds /\ w1.s = free.s /\ w1.at = free.at /\ w1.tld = free.tld /\ w1.g = p
      BY <1>5, <3>1, <3>2, SetSegmentIs DEF Same
    <3> QED
      BY <1>5, <3>1, <3>3 DEF Same
  <2> QED
    BY <2>1, <2>2
<1> HIDE DEF w1
<1>8. CASE w.g.thread_id = NoThread
  BY <1>1, <1>2, <1>7, <1>8 DEF SpanFreed
<1>9. CASE w.g.thread_id # NoThread
  <2> DEFINE q == [w.tld.spans EXCEPT ![b] = <<<<w.s, i>>>> \o @]
  <2>1. b \in Bins
    BY <1>0, BinOf
  <2>2. QueueOK(q, q0, w.s, H \cup {<<b, i>>})
    BY ZenonT(30), <2>1, QueuePushes, WorldParts
  <2>3. q \in [Bins -> Seq(Span)]
    BY <2>2 DEF QueueOK
  <2>4. QueuePush(w1, b, i) = SetSpans(w1, q)
    BY <1>7 DEF QueuePush, SetSpans, Worlds
  <2> HIDE DEF q
  <2>5. LET x == SetSpans(w1, q) IN x \in Worlds /\ x.s = w1.s /\ x.at = w1.at /\ x.g = w1.g /\ x.tld.spans = q
    BY <1>7, <2>3, SetSpansIs
  <2> QED
    BY <1>1, <1>2, <1>7, <1>9, <2>2, <2>4, <2>5 DEF SpanFreed
<1> QED
  BY <1>8, <1>9

-----------------------------------------------------------------------------
(* A call on a segment: what holds of the world at every point of it.       *)

\* The pairs of a bin and a slice for the spans R.
Queued(f, R) == {<<SliceBin(f[i].slice_count), i>> : i \in R}

InQueues(g) == g.kind = "NORMAL" /\ g.thread_id # NoThread

\* T are the spans, P those in use (the segment structure is the one at 0), R the free
\* ones in the queues; the spans of other segments in the queues are those of q0.
WorldOK(w, q0, T, P, R) ==
  /\ w \in Worlds /\ w.g.kind \in {"NORMAL", "HUGE"}
  /\ TilesOK(w.g.slices, w.g.kind, T, P)
  /\ R \subseteq T \ P
  /\ ~InQueues(w.g) => R = {}
  /\ QueueOK(w.tld.spans, q0, w.s, Queued(w.g.slices, R))
  /\ MaskOK(w.g, InUse(w.g.slices, P))
  /\ w.g.dirty = {}

LEMMA WorldTypes ==
  ASSUME NEW w, NEW q0, NEW T, NEW P, NEW R, WorldOK(w, q0, T, P, R)
  PROVE  /\ w.g \in SegRec /\ w.g.slices \in [Entries -> SliceRecord] /\ w.s \in Addresses /\ w.at \in Nat
         /\ SLICES \in Nat /\ INFO \in Nat \ {0} /\ P \subseteq T /\ 0 \in P /\ Tiled(w.g.slices, T)
         /\ \A k \in T : /\ k \in Nat /\ k < SLICES /\ k \in Slices /\ k \in Entries
                         /\ w.g.slices[k].slice_count \in Nat \ {0}
                         /\ k + w.g.slices[k].slice_count \in T \/ k + w.g.slices[k].slice_count >= SLICES
<1>1. w.g \in SegRec /\ w.g.slices \in [Entries -> SliceRecord] /\ w.s \in Addresses /\ w.at \in Nat
  BY WorldParts DEF WorldOK
<1>2. SLICES \in Nat /\ INFO \in Nat \ {0} /\ \A k \in Slices : k \in Nat /\ k < SLICES /\ k \in Entries
  BY SizesAssumption DEF Slices, Entries
<1>3. P \subseteq T /\ 0 \in P /\ Tiled(w.g.slices, T)
  BY DEF WorldOK, TilesOK
<1>4. /\ T \subseteq Slices
      /\ \A k \in T : /\ w.g.slices[k].slice_count \in Nat \ {0}
                      /\ k + w.g.slices[k].slice_count \in T \/ k + w.g.slices[k].slice_count >= SLICES
  BY <1>3 DEF Tiled
<1> QED
  BY <1>1, <1>2, <1>3, <1>4

LEMMA QueuedSame ==
  ASSUME NEW f, NEW h, NEW R, \A k \in R : h[k] = f[k]
  PROVE  Queued(h, R) = Queued(f, R)
BY DEF Queued

\* x is w with other entries from lo to hi - 1, and the spans R of f in the queues.
Between(w, x, lo, hi, f, R, q0) ==
  /\ x \in Worlds /\ x.s = w.s /\ x.at = w.at /\ Same(w.g, x.g) /\ MasksEqual(w.g, x.g)
  /\ \A k \in Entries : k < lo \/ k >= hi => x.g.slices[k] = f[k]
  /\ QueueOK(x.tld.spans, q0, w.s, Queued(f, R))

CanDelete(w, x, lo, hi, f, R, q0, j) ==
  /\ lo \in Nat /\ hi \in Nat /\ w.g \in SegRec /\ Between(w, x, lo, hi, f, R, q0)
  /\ j \in Slices /\ lo <= j /\ j < hi
  /\ x.g.slices[j].slice_count = f[j].slice_count /\ f[j].slice_count \in 0 .. SLICES

Deleted(w, x, lo, hi, f, R, q0, j, v) ==
  /\ Between(w, v, lo, hi, f, R \ {j}, q0)
  /\ v.g.slices = [x.g.slices EXCEPT ![j].block_size = 1]

LEMMA BetweenDelete ==
  ASSUME NEW w, NEW x, NEW lo, NEW hi, NEW f, NEW R, NEW q0, NEW j,
         CanDelete(w, x, lo, hi, f, R, q0, j)
  PROVE  Deleted(w, x, lo, hi, f, R, q0, j, QueueDelete(x, j))
<1> DEFINE b == SliceBin(f[j].slice_count)
           v == QueueDelete(x, j)
<1>0. /\ lo \in Nat /\ hi \in Nat /\ w.g \in SegRec /\ Between(w, x, lo, hi, f, R, q0)
      /\ j \in Slices /\ lo <= j /\ j < hi
      /\ x.g.slices[j].slice_count = f[j].slice_count /\ f[j].slice_count \in 0 .. SLICES
  BY DEF CanDelete
<1>1. b \in Bins
  BY <1>0, BinOf
<1>2. x \in Worlds /\ QueueOK(x.tld.spans, q0, x.s, Queued(f, R)) /\ x.s = w.s /\ b = SliceBin(x.g.slices[j].slice_count)
  BY <1>0 DEF Between
<1>3. Queued(f, R) \ {<<b, j>>} = Queued(f, R \ {j})
  BY DEF Queued
<1> HIDE DEF b
<1>4. /\ v \in Worlds /\ v.s = x.s /\ v.at = x.at
      /\ Same(x.g, v.g) /\ MasksEqual(x.g, v.g)
      /\ v.g.slices = [x.g.slices EXCEPT ![j].block_size = 1]
      /\ QueueOK(v.tld.spans, q0, x.s, Queued(f, R) \ {<<b, j>>})
  BY ZenonT(40), <1>0, <1>1, <1>2, QueueDeleteIs
<1> HIDE DEF v
<1>5. x.s = w.s /\ x.at = w.at /\ Same(w.g, x.g) /\ MasksEqual(w.g, x.g)
      /\ \A k \in Entries : k < lo \/ k >= hi => x.g.slices[k] = f[k]
  BY <1>0 DEF Between
<1>6. Same(w.g, v.g) /\ MasksEqual(w.g, v.g) /\ v.s = w.s /\ v.at = w.at
  BY <1>4, <1>5 DEF Same, MasksEqual
<1>7. ASSUME NEW k \in Entries, k < lo \/ k >= hi PROVE v.g.slices[k] = f[k]
  <2>1. k # j /\ x.g.slices[k] = f[k]
    BY <1>0, <1>5, <1>7, SizesAssumption DEF Entries, Slices
  <2>2. x.g.slices \in [Entries -> SliceRecord]
    BY <1>2, WorldParts
  <2> QED
    BY <1>4, <2>1, <2>2
<1>8. QueueOK(v.tld.spans, q0, w.s, Queued(f, R \ {j}))
  BY ZenonT(30), <1>3, <1>4, <1>5
<1> QED
  BY <1>4, <1>6, <1>7, <1>8 DEF Between, Deleted, v

-----------------------------------------------------------------------------
(* Merging a span with its free neighbours.                                 *)

PointBack(x, i, d) == [x EXCEPT !.g.slices[i] = [@ EXCEPT !.slice_count = 0, !.slice_offset = d]]

\* The steps of SpanFreeCoalesce before the merged span is freed.
NextTaken(w, i) ==
  IF HasNext(w.g.slices, i) /\ w.g.thread_id # NoThread THEN QueueDelete(w, Next_(w.g.slices, i)) ELSE w
Pointing(w, x, i) ==
  IF HasPrev(w.g.slices, i)
    THEN PointBack(x, i, i - Prev_(w.g.slices, i))
    ELSE x
PrevTaken(w, x, i) ==
  IF HasPrev(w.g.slices, i) /\ w.g.thread_id # NoThread THEN QueueDelete(x, Prev_(w.g.slices, i)) ELSE x
Prepared(w, i) == PrevTaken(w, Pointing(w, NextTaken(w, i), i), i)

LEMMA CoalesceUnfolds ==
  ASSUME NEW w, NEW i \in Nat \ {0}, w.g.kind = "NORMAL"
  PROVE  SpanFreeCoalesce(w, i) =
           [SpanFree(Prepared(w, i), MergeAt(w.g.slices, i), MergeLength(w.g.slices, i), TRUE)
              EXCEPT !.at = MergeAt(w.g.slices, i)]
<1>1. i > 0
  OBVIOUS
<1> QED
  BY SMTT(30), <1>1 DEF SpanFreeCoalesce, Prepared, NextTaken, Pointing, PointBack, PrevTaken, MergeAt, MergeLength, HasNext, HasPrev,
     Next_, Prev_, SliceFirst

CanPoint(w, x, lo, hi, f, R, q0, i, d) ==
  /\ lo \in Nat /\ hi \in Nat /\ w.g \in SegRec /\ Between(w, x, lo, hi, f, R, q0)
  /\ i \in Slices /\ lo <= i /\ i < hi /\ d \in Int

Pointed(w, x, lo, hi, f, R, q0, i, d, v) ==
  /\ Between(w, v, lo, hi, f, R, q0)
  /\ v.g.slices[i].slice_offset = d
  /\ \A k \in Entries : k # i => v.g.slices[k] = x.g.slices[k]

LEMMA BetweenPoint ==
  ASSUME NEW w, NEW x, NEW lo, NEW hi, NEW f, NEW R, NEW q0, NEW i, NEW d,
         CanPoint(w, x, lo, hi, f, R, q0, i, d)
  PROVE  Pointed(w, x, lo, hi, f, R, q0, i, d, PointBack(x, i, d))
<1> DEFINE g == x.g.slices
           e == [g[i] EXCEPT !.slice_count = 0, !.slice_offset = d]
           h == [g EXCEPT ![i] = e]
           v == PointBack(x, i, d)
<1> USE DEF CanPoint
<1>0. x \in Worlds /\ x.s = w.s /\ x.at = w.at /\ Same(w.g, x.g) /\ MasksEqual(w.g, x.g)
      /\ (\A k \in Entries : k < lo \/ k >= hi => x.g.slices[k] = f[k])
      /\ QueueOK(x.tld.spans, q0, w.s, Queued(f, R))
  BY DEF Between
<1>1. g \in [Entries -> SliceRecord] /\ i \in Entries
  BY <1>0, WorldParts, SizesAssumption DEF Entries, Slices
<1>2. e \in SliceRecord /\ e.slice_offset = d
  <2>1. g[i] \in SliceRecord
    BY <1>1
  <2> DEFINE c == g[i]
  <2> HIDE DEF c
  <2>2. c \in SliceRecord => [c EXCEPT !.slice_count = 0, !.slice_offset = d] \in SliceRecord
                             /\ [c EXCEPT !.slice_count = 0, !.slice_offset = d].slice_offset = d
    <3> SUFFICES ASSUME c \in SliceRecord
                 PROVE  [c EXCEPT !.slice_count = 0, !.slice_offset = d] \in SliceRecord
                             /\ [c EXCEPT !.slice_count = 0, !.slice_offset = d].slice_offset = d
      OBVIOUS
    <3> DEFINE b == [c EXCEPT !.slice_count = 0]
    <3>1. b \in SliceRecord
      BY DEF SliceRecord
    <3> HIDE DEF b
    <3>2. [b EXCEPT !.slice_offset = d] \in SliceRecord /\ [b EXCEPT !.slice_offset = d].slice_offset = d
      BY <3>1 DEF SliceRecord
    <3> QED
      BY <3>2 DEF b
  <2> QED
    BY <2>1, <2>2 DEF c
<1>3. v = SetSlices(x, h)
  BY DEF SetSlices, PointBack
<1> HIDE DEF e, v
<1>4. h \in [Entries -> SliceRecord]
  BY <1>1, <1>2
<1>5. h[i] = e /\ \A k \in Entries : k # i => h[k] = g[k]
  BY <1>1
<1> HIDE DEF h
<1>6. /\ v \in Worlds /\ v.s = x.s /\ v.at = x.at /\ v.tld = x.tld
      /\ Same(x.g, v.g) /\ MasksEqual(x.g, v.g) /\ v.g.slices = h
  BY <1>0, <1>3, <1>4, SetSlicesIs
<1>7. Same(w.g, v.g) /\ MasksEqual(w.g, v.g)
  BY <1>0, <1>6 DEF Same, MasksEqual
<1>8. \A k \in Entries : k < lo \/ k >= hi => v.g.slices[k] = f[k]
  <2>1. \A k \in Entries : k < lo \/ k >= hi => k # i
    BY SizesAssumption DEF Slices, Entries
  <2> QED
    BY <1>0, <1>5, <1>6, <2>1
<1>9. Between(w, v, lo, hi, f, R, q0)
  BY <1>0, <1>6, <1>7, <1>8 DEF Between
<1> QED
  BY <1>2, <1>5, <1>6, <1>9 DEF Pointed, v

\* The elements of R before lo and from hi on.
Out(R, lo, hi) == {k \in R : k < lo \/ k >= hi}

\* Before the merged span is freed its free neighbours are out of the queues, and
\* the span that was freed points to the first slice (segment.c:692-709).
LEMMA MergePrepared ==
  ASSUME NEW w, NEW q0, NEW T, NEW P, NEW R, WorldOK(w, q0, T, P, R), w.g.kind = "NORMAL",
         NEW i \in T, i \notin P, i \notin R, Rested(w.g.slices, T, P, i),
         NEW lo, lo = MergeAt(w.g.slices, i), NEW n, n = MergeLength(w.g.slices, i)
  PROVE  /\ Between(w, Prepared(w, i), lo, lo + n, w.g.slices, Out(R, lo, lo + n), q0)
         /\ i # lo => Prepared(w, i).g.slices[i].slice_offset = i - lo
<1> DEFINE f  == w.g.slices
           nx == Next_(f, i)
           pv == Prev_(f, i)
           hi == lo + n
           own == w.g.thread_id # NoThread
           x1 == NextTaken(w, i)
           x2 == Pointing(w, x1, i)
           x3 == PrevTaken(w, x2, i)
           R1 == IF HasNext(f, i) THEN R \ {nx} ELSE R
           R2 == IF HasPrev(f, i) THEN R1 \ {pv} ELSE R1
<1>1. /\ w.g \in SegRec /\ f \in [Entries -> SliceRecord] /\ w.s \in Addresses
      /\ SLICES \in Nat /\ P \subseteq T /\ Tiled(f, T)
      /\ \A k \in T : k \in Nat /\ k < SLICES /\ k \in Slices /\ k \in Entries
  BY WorldTypes
<1>2. TilesOK(f, "NORMAL", T, P) /\ R \subseteq T \ P /\ (~own => R = {})
      /\ QueueOK(w.tld.spans, q0, w.s, Queued(f, R)) /\ w \in Worlds
  BY DEF WorldOK, InQueues
<1>3. /\ i \in Nat /\ i # 0 /\ i < SLICES /\ nx \in Nat /\ i < nx
      /\ HasNext(f, i) => nx \in T /\ nx < SLICES /\ f[nx].slice_count \in Nat \ {0}
      /\ pv \in T /\ pv \in Nat /\ pv < i /\ f[pv].slice_count \in Nat \ {0} /\ pv + f[pv].slice_count = i
  BY <1>2, MergeNeighbours
<1>4. /\ lo \in T /\ lo \in Nat \ {0} /\ lo <= i /\ n \in Nat \ {0} /\ lo + n <= SLICES
      /\ lo + n \in T \/ lo + n = SLICES
      /\ i < lo + n /\ nx <= lo + n
      /\ \A k \in T : lo <= k /\ k < lo + n =>
              k = i \/ (HasNext(f, i) /\ k = nx) \/ (HasPrev(f, i) /\ k = pv)
      /\ \A k \in T : k = lo + n => f[k].block_size # 0
  BY <1>2, MergeRange
<1>5. HasNext(f, i) => f[nx].block_size = 0
  BY DEF HasNext
<1>6. HasPrev(f, i) => lo = pv
  BY DEF MergeAt
<1>7. ~HasPrev(f, i) => lo = i
  BY DEF MergeAt
<1>8. HasNext(f, i) => nx < hi /\ lo <= nx /\ f[nx].slice_count \in 0 .. SLICES
  <2> SUFFICES ASSUME HasNext(f, i) PROVE nx < hi /\ lo <= nx /\ f[nx].slice_count \in 0 .. SLICES
    OBVIOUS
  <2>1. nx # hi
    BY <1>3, <1>4, <1>5
  <2>2. SpanOK(f, "NORMAL", nx, nx \in P)
    BY <1>2, <1>3 DEF TilesOK
  <2>3. nx + f[nx].slice_count <= SLICES
    BY <2>2 DEF SpanOK
  <2> QED
    BY <1>1, <1>3, <1>4, <2>1, <2>3
<1>9. hi \in Nat /\ lo \in Nat /\ i < hi /\ lo <= i /\ i \in Slices
  BY <1>1, <1>4
<1>10. Out(R, lo, hi) = R2
  <2>1. \A k \in R : lo <= k /\ k < hi => (HasNext(f, i) /\ k = nx) \/ (HasPrev(f, i) /\ k = pv)
    BY <1>2, <1>4
  <2>2. HasNext(f, i) => ~(nx < lo \/ nx >= hi)
    BY <1>3, <1>8, <1>9
  <2>3. HasPrev(f, i) => ~(pv < lo \/ pv >= hi)
    BY <1>3, <1>6, <1>9
  <2>4. \A k \in R : k \in Nat
    BY <1>1, <1>2
  <2> HIDE DEF nx, pv, hi, f
  <2>5. \A k \in R : (k < lo \/ k >= hi) <=> ~(lo <= k /\ k < hi)
    BY <1>9, <2>4
  <2> QED
    BY <2>1, <2>2, <2>3, <2>5 DEF Out
<1> HIDE DEF x1, x2, x3, R1, R2, hi
<1>11. Between(w, w, lo, hi, f, R, q0)
  BY <1>1, <1>2 DEF Between, Same, MasksEqual
<1>12. /\ Between(w, x1, lo, hi, f, R1, q0)
       /\ HasPrev(f, i) => x1.g.slices[pv].slice_count = f[pv].slice_count
  <2>1. CASE HasNext(f, i) /\ own
    <3>1. x1 = QueueDelete(w, nx) /\ R1 = R \ {nx}
      BY <2>1 DEF x1, R1, NextTaken
    <3>2. /\ Between(w, QueueDelete(w, nx), lo, hi, f, R \ {nx}, q0)
          /\ QueueDelete(w, nx).g.slices = [f EXCEPT ![nx].block_size = 1]
      <4>1. nx \in Slices /\ lo <= nx /\ nx < hi /\ f[nx].slice_count \in 0 .. SLICES
        BY <1>1, <1>3, <1>8, <2>1
      <4>2. CanDelete(w, w, lo, hi, f, R, q0, nx)
        BY <1>1, <1>9, <1>11, <4>1 DEF CanDelete
      <4>3. Deleted(w, w, lo, hi, f, R, q0, nx, QueueDelete(w, nx))
        BY <4>2, BetweenDelete
      <4> QED
        BY <4>3 DEF Deleted
    <3>3. pv # nx /\ pv \in Entries
      BY <1>1, <1>3
    <3>4. x1.g.slices[pv] = f[pv]
      BY <1>1, <3>1, <3>2, <3>3
    <3> QED
      BY <3>1, <3>2, <3>4
  <2>2. CASE ~(HasNext(f, i) /\ own)
    <3>1. x1 = w
      BY <2>2 DEF x1, NextTaken
    <3>2. R1 = R
      BY <1>2, <2>2 DEF R1
    <3> QED
      BY <1>11, <3>1, <3>2
  <2> QED
    BY <2>1, <2>2
<1>13. /\ Between(w, x2, lo, hi, f, R1, q0)
       /\ HasPrev(f, i) => x2.g.slices[pv].slice_count = f[pv].slice_count /\ x2.g.slices[i].slice_offset = i - pv
  <2>1. CASE HasPrev(f, i)
    <3> DEFINE d == i - pv
    <3>1. d \in Int
      BY <1>3
    <3>2. x2 = PointBack(x1, i, d)
      BY <2>1 DEF x2, Pointing
    <3> HIDE DEF d
    <3>3. /\ Between(w, x2, lo, hi, f, R1, q0) /\ x2.g.slices[i].slice_offset = d
          /\ \A k \in Entries : k # i => x2.g.slices[k] = x1.g.slices[k]
      <4>1. CanPoint(w, x1, lo, hi, f, R1, q0, i, d)
        BY <1>1, <1>9, <1>12, <3>1 DEF CanPoint
      <4>2. Pointed(w, x1, lo, hi, f, R1, q0, i, d, x2)
        BY <3>2, <4>1, BetweenPoint
      <4> QED
        BY <4>2 DEF Pointed
    <3>4. pv \in Entries /\ pv # i
      BY <1>1, <1>3
    <3> QED
      BY <1>12, <2>1, <3>3, <3>4 DEF d
  <2>2. CASE ~HasPrev(f, i)
    BY <1>12, <2>2 DEF x2, Pointing
  <2> QED
    BY <2>1, <2>2
<1>14. /\ Between(w, x3, lo, hi, f, R2, q0)
       /\ HasPrev(f, i) => x3.g.slices[i].slice_offset = i - pv
  <2>1. CASE HasPrev(f, i) /\ own
    <3>1. x3 = QueueDelete(x2, pv) /\ R2 = R1 \ {pv}
      BY <2>1 DEF x3, R2, PrevTaken
    <3>2. /\ Between(w, QueueDelete(x2, pv), lo, hi, f, R1 \ {pv}, q0)
          /\ QueueDelete(x2, pv).g.slices = [x2.g.slices EXCEPT ![pv].block_size = 1]
      <4>1. pv \in Slices /\ lo <= pv /\ pv < hi /\ f[pv].slice_count \in 0 .. SLICES
            /\ x2.g.slices[pv].slice_count = f[pv].slice_count
        BY <1>1, <1>3, <1>6, <1>9, <1>13, <2>1
      <4>2. CanDelete(w, x2, lo, hi, f, R1, q0, pv)
        BY <1>1, <1>9, <1>13, <4>1 DEF CanDelete
      <4>3. Deleted(w, x2, lo, hi, f, R1, q0, pv, QueueDelete(x2, pv))
        BY <4>2, BetweenDelete
      <4> QED
        BY <4>3 DEF Deleted
    <3>3. pv # i /\ i \in Entries
      BY <1>1, <1>3
    <3>4. x2.g.slices \in [Entries -> SliceRecord]
      BY <1>13, WorldParts DEF Between
    <3>5. x3.g.slices[i] = x2.g.slices[i]
      BY <3>1, <3>2, <3>3, <3>4
    <3> QED
      BY <1>13, <2>1, <3>1, <3>2, <3>5
  <2>2. CASE ~(HasPrev(f, i) /\ own)
    <3>1. x3 = x2
      BY <2>2 DEF x3, PrevTaken
    <3>2. R2 = R1
      BY <1>2, <2>2 DEF R2, R1
    <3> QED
      BY <1>13, <3>1, <3>2
  <2> QED
    BY <2>1, <2>2
<1>15. Prepared(w, i) = x3
  BY DEF Prepared, x1, x2, x3
<1> QED
  BY <1>6, <1>7, <1>10, <1>14, <1>15 DEF hi

CanFree(w, i, n, purge, U, q0, H) ==
  /\ w \in Worlds /\ w.g.kind = "NORMAL"
  /\ i \in Slices /\ n \in Nat \ {0} /\ i + n <= SLICES /\ purge \in BOOLEAN
  /\ MaskOK(w.g, U) /\ (purge => U \cap Mask(i, n) = {})
  /\ QueueOK(w.tld.spans, q0, w.s, H) /\ <<SliceBin(n), i>> \notin H

LEMMA SpanFreeWorks ==
  ASSUME NEW w, NEW i, NEW n, NEW purge, NEW U, NEW q0, NEW H, CanFree(w, i, n, purge, U, q0, H)
  PROVE  SpanFreed(w, SpanFree(w, i, n, purge), i, n, U, q0, H)
BY SpanFreeIs DEF CanFree

\* The world with another slice to return.
SetAt(w, i) == [w EXCEPT !.at = i]

LEMMA SetAtIs ==
  ASSUME NEW w \in Worlds, NEW i \in Nat
  PROVE  LET v == SetAt(w, i)
         IN v \in Worlds /\ v.s = w.s /\ v.at = i /\ v.tld = w.tld /\ v.g = w.g
BY DEF Worlds, SetAt

NewR(g, R, lo, n) == IF InQueues(g) THEN Out(R, lo, lo + n) \cup {lo} ELSE {}

\* v is w with the span at i free and merged into one of n slices at lo.
Coalesced(w, v, i, T, P, R, q0, lo, n) ==
  /\ v.at = lo /\ lo \in T \ P /\ lo \in Nat \ {0} /\ lo <= i /\ i < lo + n /\ n \in Nat \ {0}
  /\ v.s = w.s /\ Same(w.g, v.g)
  /\ WorldOK(v, q0, NewT(T, lo, n), P, NewR(w.g, R, lo, n))
  /\ v.g.slices[lo].slice_count = n /\ v.g.slices[lo].block_size = 0
  /\ \A k \in Entries : k < lo \/ k >= lo + n => v.g.slices[k] = w.g.slices[k]
  /\ i # lo => v.g.slices[i].slice_offset = i - lo
  /\ \A k \in P : k < lo \/ k >= lo + n

LEMMA QueuedMore ==
  ASSUME NEW f, NEW h, NEW R, \A k \in R : h[k] = f[k], NEW i, i \notin R
  PROVE  Queued(h, R \cup {i}) = Queued(f, R) \cup {<<SliceBin(h[i].slice_count), i>>}
BY DEF Queued

\* Freeing a span merges it with its free neighbours, whatever they are
\* (pa_segment_span_free_coalesce).
LEMMA CoalesceNormal ==
  ASSUME NEW w, NEW q0, NEW T, NEW P, NEW R, WorldOK(w, q0, T, P, R), w.g.kind = "NORMAL",
         NEW i \in T, i \notin P, i \notin R, Rested(w.g.slices, T, P, i)
  PROVE  Coalesced(w, SpanFreeCoalesce(w, i), i, T, P, R, q0,
                   MergeAt(w.g.slices, i), MergeLength(w.g.slices, i))
<1> DEFINE f  == w.g.slices
           lo == MergeAt(f, i)
           n  == MergeLength(f, i)
           x  == Prepared(w, i)
           e  == x.g.slices
           U  == InUse(f, P) \ Mask(lo, n)
           H  == Queued(f, Out(R, lo, lo + n))
           v0 == SpanFree(x, lo, n, TRUE)
           h  == v0.g.slices
           v  == SetAt(v0, lo)
<1>1. /\ w.g \in SegRec /\ f \in [Entries -> SliceRecord] /\ w.s \in Addresses
      /\ SLICES \in Nat /\ P \subseteq T /\ Tiled(f, T) /\ 0 \in P
      /\ \A k \in T : k \in Nat /\ k < SLICES /\ k \in Slices /\ k \in Entries
  BY WorldTypes
<1>2. /\ TilesOK(f, "NORMAL", T, P) /\ R \subseteq T \ P /\ w.g.dirty = {} /\ MaskOK(w.g, InUse(f, P))
      /\ InQueues(w.g) <=> w.g.thread_id # NoThread
      /\ ~InQueues(w.g) => R = {}
  BY DEF WorldOK, InQueues
<1>3. /\ lo \in T /\ lo \in Nat \ {0} /\ lo \notin P /\ lo <= i /\ n \in Nat \ {0} /\ lo + n <= SLICES
      /\ i < lo + n
  BY <1>2, MergeRange
<1>4. i \in Nat \ {0}
  BY <1>1
<1>5. SpanFreeCoalesce(w, i) = v
  BY ZenonT(30), <1>4, CoalesceUnfolds DEF SetAt
<1>6. Between(w, x, lo, lo + n, f, Out(R, lo, lo + n), q0) /\ (i # lo => x.g.slices[i].slice_offset = i - lo)
  <2> HIDE DEF lo, n
  <2>1. lo = MergeAt(f, i) /\ n = MergeLength(f, i)
    BY DEF lo, n
  <2> QED
    BY <2>1, MergePrepared
<1> HIDE DEF lo, n, x, v0, v
<1>7. /\ x \in Worlds /\ x.s = w.s /\ x.at = w.at /\ Same(w.g, x.g) /\ MasksEqual(w.g, x.g)
      /\ \A k \in Entries : k < lo \/ k >= lo + n => e[k] = f[k]
      /\ QueueOK(x.tld.spans, q0, w.s, H)
  BY <1>6 DEF Between
<1>8. e \in [Entries -> SliceRecord]
  BY <1>7, WorldParts
<1>9. lo \notin Out(R, lo, lo + n)
  BY <1>3 DEF Out
<1>10. SpanFreed(x, v0, lo, n, U, q0, H)
  <2>1. MaskOK(x.g, U)
    BY <1>2, <1>7, MasksEqualOK, MaskLess
  <2>2. <<SliceBin(n), lo>> \notin H
    BY <1>9 DEF Queued
  <2>3. x.g.kind = "NORMAL" /\ lo \in Slices
    BY <1>1, <1>3, <1>7 DEF Same
  <2>4. U \cap Mask(lo, n) = {}
    OBVIOUS
  <2> HIDE DEF U, H
  <2>5. CanFree(x, lo, n, TRUE, U, q0, H)
    BY <1>3, <1>7, <2>1, <2>2, <2>3, <2>4 DEF CanFree
  <2> QED
    BY ZenonT(30), <2>5, SpanFreeWorks DEF v0
<1>11. /\ v0 \in Worlds /\ v0.s = w.s /\ Same(w.g, v0.g)
       /\ FreedAt(e, lo, n, h) /\ MaskOK(v0.g, U)
       /\ QueueOK(v0.tld.spans, q0, w.s, IF w.g.thread_id = NoThread THEN H ELSE H \cup {<<SliceBin(n), lo>>})
  BY <1>7, <1>10 DEF SpanFreed, Same
<1>12. /\ TilesOK(h, "NORMAL", NewT(T, lo, n), P)
       /\ h[lo].slice_count = n /\ h[lo].block_size = 0
       /\ \A k \in Entries : k < lo \/ k >= lo + n => h[k] = f[k]
       /\ \A k \in P : k < lo \/ k >= lo + n
       /\ InUse(h, P) \subseteq InUse(f, P) /\ InUse(h, P) \cap Mask(lo, n) = {}
  <2>1. lo = MergeAt(f, i) /\ n = MergeLength(f, i)
    BY DEF lo, n
  <2>2. CanMerge(f, T, P, i, lo, n, e, h)
    BY <1>1, <1>2, <1>7, <1>8, <1>11, <2>1 DEF CanMerge
  <2>3. Merged(f, T, P, lo, n, h)
    BY <2>2, MergeOK
  <2> QED
    BY <2>3 DEF Merged
<1>13. QueueOK(v0.tld.spans, q0, w.s, Queued(h, NewR(w.g, R, lo, n)))
  <2>1. CASE w.g.thread_id = NoThread
    <3>1. NewR(w.g, R, lo, n) = {} /\ Out(R, lo, lo + n) = {}
      BY <1>2, <2>1 DEF NewR, Out
    <3>2. H = Queued(h, NewR(w.g, R, lo, n))
      BY <3>1 DEF Queued
    <3> QED
      BY <1>11, <2>1, <3>2
  <2>2. CASE w.g.thread_id # NoThread
    <3>1. NewR(w.g, R, lo, n) = Out(R, lo, lo + n) \cup {lo}
      BY <1>2, <2>2 DEF NewR
    <3>2. \A k \in Out(R, lo, lo + n) : h[k] = f[k]
      BY <1>1, <1>2, <1>12 DEF Out
    <3>3. Queued(h, NewR(w.g, R, lo, n)) = H \cup {<<SliceBin(n), lo>>}
      <4> HIDE DEF f, h
      <4> QED
        BY <1>9, <1>12, <3>1, <3>2, QueuedMore
    <3> QED
      BY <1>11, <2>2, <3>3
  <2> QED
    BY <2>1, <2>2
<1>14. v \in Worlds /\ v.s = w.s /\ v.at = lo /\ v.tld = v0.tld /\ v.g = v0.g
  BY ZenonT(30), <1>3, <1>11, SetAtIs DEF v
<1>15. NewR(w.g, R, lo, n) \subseteq NewT(T, lo, n) \ P /\ (~InQueues(v.g) => NewR(w.g, R, lo, n) = {})
  <2>1. InQueues(v.g) <=> InQueues(w.g)
    BY <1>11, <1>14 DEF Same, InQueues
  <2>2. Out(R, lo, lo + n) \subseteq NewT(T, lo, n) \ P
    <3>1. \A k \in T : k < lo => k <= lo
      BY <1>1, <1>3
    <3> QED
      BY <1>2, <3>1 DEF Out, NewT
  <2>3. lo \in NewT(T, lo, n) \ P
    BY <1>3 DEF NewT
  <2> QED
    BY <2>1, <2>2, <2>3 DEF NewR
<1>16. MaskOK(v.g, InUse(h, P))
  <2>1. InUse(h, P) \subseteq U
    BY <1>12
  <2> QED
    BY <1>11, <1>14, <2>1, MaskLess
<1>17. v.g.kind = "NORMAL" /\ v.g.dirty = {} /\ Same(w.g, v.g)
  BY <1>2, <1>11, <1>14 DEF Same
<1>18. WorldOK(v, q0, NewT(T, lo, n), P, NewR(w.g, R, lo, n))
  BY <1>12, <1>13, <1>14, <1>15, <1>16, <1>17 DEF WorldOK
<1>19. i # lo => h[i].slice_offset = i - lo
  <2> SUFFICES ASSUME i # lo PROVE h[i].slice_offset = i - lo
    OBVIOUS
  <2>1. /\ SpanOK(h, "NORMAL", lo, FALSE) /\ \A k \in Entries : k # lo /\ k # lo + n - 1 => h[k] = e[k]
    BY ZenonT(30), <1>11 DEF FreedAt
  <2>2. CASE i = lo + n - 1
    <3>1. i - h[i].slice_offset = lo
      BY <1>1, <1>3, <1>12, <2>1, <2>2 DEF SpanOK
    <3>2. h[i].slice_offset \in Int
      <4>1. h \in [Entries -> SliceRecord] /\ i \in Entries
        BY <1>1, <1>11 DEF FreedAt
      <4> QED
        BY <4>1 DEF SliceRecord
    <3> QED
      BY <1>3, <1>4, <3>1, <3>2
  <2>3. CASE i # lo + n - 1
    <3>1. h[i] = e[i]
      BY <1>1, <2>1, <2>3
    <3> QED
      BY <1>6, <3>1
  <2> QED
    BY <2>2, <2>3
<1>20. Coalesced(w, v, i, T, P, R, q0, lo, n)
  BY <1>3, <1>12, <1>14, <1>17, <1>18, <1>19 DEF Coalesced
<1> QED
  BY <1>5, <1>20 DEF lo, n

\* The page of a huge segment is not merged with anything.
LEMMA CoalesceHuge ==
  ASSUME NEW w, NEW q0, NEW T, NEW P, NEW R, WorldOK(w, q0, T, P, R), w.g.kind = "HUGE",
         NEW i \in T, i \notin P
  PROVE  Coalesced(w, SpanFreeCoalesce(w, i), i, T, P, R, q0, i, w.g.slices[i].slice_count)
<1> DEFINE f  == w.g.slices
           n  == f[i].slice_count
           h  == [f EXCEPT ![i].block_size = 0]
           v0 == SetSlices(w, h)
           v  == SetAt(v0, i)
<1>1. /\ w.g \in SegRec /\ f \in [Entries -> SliceRecord] /\ w.s \in Addresses
      /\ SLICES \in Nat /\ INFO \in Nat \ {0} /\ P \subseteq T /\ Tiled(f, T) /\ 0 \in P
      /\ \A k \in T : k \in Nat /\ k < SLICES /\ k \in Slices /\ k \in Entries /\ f[k].slice_count \in Nat \ {0}
  BY WorldTypes
<1>2. /\ TilesOK(f, "HUGE", T, P) /\ w.g.dirty = {} /\ MaskOK(w.g, InUse(f, P)) /\ w \in Worlds
      /\ ~InQueues(w.g) /\ R = {} /\ QueueOK(w.tld.spans, q0, w.s, Queued(f, R))
  BY DEF WorldOK, InQueues
<1>3. \A k \in T : k \in {0, INFO}
  BY <1>2 DEF TilesOK, SpanOK
<1>4. i = INFO /\ i \in Nat \ {0} /\ n \in Nat \ {0} /\ \A k \in T : k = 0 \/ k = i
  BY <1>1, <1>3
<1>5. h \in [Entries -> SliceRecord]
  <2>1. f \in [Entries -> SliceRecord] /\ i \in Entries
    BY <1>1
  <2> QED
    BY <2>1 DEF SliceRecord
<1>6. /\ h[i].block_size = 0 /\ \A k \in Entries : k # i => h[k] = f[k]
      /\ \A k \in Entries : h[k].slice_count = f[k].slice_count /\ h[k].slice_offset = f[k].slice_offset
  <2>1. f[i] \in SliceRecord /\ i \in Entries
    BY <1>1
  <2>2. h[i] = [f[i] EXCEPT !.block_size = 0]
    BY <1>1, <2>1
  <2>3. h[i].block_size = 0 /\ h[i].slice_count = f[i].slice_count /\ h[i].slice_offset = f[i].slice_offset
    BY <2>1, <2>2 DEF SliceRecord
  <2>4. \A k \in Entries : k # i => h[k] = f[k]
    BY <1>1
  <2> QED
    BY <2>3, <2>4
<1>7. SpanFreeCoalesce(w, i) = v
  BY DEF SpanFreeCoalesce, SetAt, SetSlices, Worlds
<1> HIDE DEF h, v0, v, n
<1>8. /\ v0 \in Worlds /\ v0.s = w.s /\ v0.tld = w.tld
      /\ Same(w.g, v0.g) /\ MasksEqual(w.g, v0.g) /\ v0.g.slices = h
  BY <1>2, <1>5, SetSlicesIs DEF v0
<1>9. v \in Worlds /\ v.s = w.s /\ v.at = i /\ v.tld = w.tld /\ v.g = v0.g
  BY <1>4, <1>8, SetAtIs DEF v
<1>10. TilesOK(h, "HUGE", T, P)
  <2>1. Tiled(h, T)
    BY <1>1, <1>6 DEF Tiled
  <2>2. ASSUME NEW k \in T PROVE SpanOK(h, "HUGE", k, k \in P)
    <3>1. SpanOK(f, "HUGE", k, k \in P)
      BY <1>2 DEF TilesOK
    <3>2. h[k].block_size \in Nat /\ (k \in P => h[k].block_size # 0)
      BY <1>1, <1>6, <3>1 DEF SpanOK
    <3>3. \A j \in Slices : j \in Entries
      BY <1>1 DEF Slices, Entries
    <3>4. \A j \in Slices : h[j].slice_offset = f[j].slice_offset
      BY <1>6, <3>3
    <3>5. h[k].slice_offset = f[k].slice_offset /\ h[k].slice_count = f[k].slice_count
      BY <1>1, <1>6
    <3> QED
      BY <3>1, <3>2, <3>4, <3>5 DEF SpanOK
  <2>3. ASSUME NEW a \in T, NEW b \in T, h[a].block_size = 0, b = a + h[a].slice_count PROVE h[b].block_size # 0
    <3>1. 0 \in T /\ 0 \in Entries /\ i # 0
      BY <1>1, <1>4
    <3>2. h[0] = f[0] /\ f[0].block_size # 0
      <4>1. SpanOK(f, "HUGE", 0, 0 \in P)
        BY <1>2, <3>1 DEF TilesOK
      <4> QED
        BY <1>1, <1>6, <3>1, <4>1 DEF SpanOK
    <3>3. a = i
      BY <1>4, <2>3, <3>2
    <3>4. b > i
      BY <1>1, <1>4, <1>6, <2>3, <3>3 DEF n
    <3> QED
      BY <1>1, <1>4, <3>4
  <2> QED
    BY <1>1, <1>5, <2>1, <2>2, <2>3 DEF TilesOK
<1>11. InUse(h, P) = InUse(f, P)
  BY <1>1, <1>6 DEF InUse
<1>12. MaskOK(v.g, InUse(h, P))
  BY <1>2, <1>8, <1>9, <1>11, MasksEqualOK
<1>13. NewT(T, i, n) = T /\ NewR(w.g, R, i, n) = {}
  <2>1. \A k \in T : k <= i
    BY <1>4
  <2> QED
    BY <1>2, <2>1 DEF NewT, NewR
<1>14. WorldOK(v, q0, T, P, {})
  <2>1. v.g.kind = "HUGE" /\ v.g.dirty = {} /\ ~InQueues(v.g)
    BY <1>2, <1>8, <1>9 DEF Same, InQueues
  <2>2. Queued(h, {}) = Queued(f, R)
    BY <1>2 DEF Queued
  <2> QED
    BY <1>2, <1>8, <1>9, <1>10, <1>12, <2>1, <2>2 DEF WorldOK
<1>15. /\ h[i].slice_count = n /\ h[i].block_size = 0
       /\ \A k \in Entries : k < i \/ k >= i + n => h[k] = f[k]
  <2>1. h[i].slice_count = n
    BY <1>1, <1>6 DEF n
  <2>2. \A k \in Entries : k < i \/ k >= i + n => k # i
    BY <1>1, <1>4 DEF Entries
  <2> QED
    BY <1>6, <2>1, <2>2
<1>16. (\A k \in P : k < i \/ k >= i + n) /\ i < i + n
  BY <1>1, <1>4
<1>17. Coalesced(w, v, i, T, P, R, q0, i, n)
  BY <1>4, <1>8, <1>9, <1>13, <1>14, <1>15, <1>16 DEF Coalesced
<1> QED
  BY <1>7, <1>17 DEF n

LEMMA CoalesceOK ==
  ASSUME NEW w, NEW q0, NEW T, NEW P, NEW R, WorldOK(w, q0, T, P, R), NEW i \in T, i \notin P, i \notin R,
         Rested(w.g.slices, T, P, i)
  PROVE  \E lo, n : Coalesced(w, SpanFreeCoalesce(w, i), i, T, P, R, q0, lo, n)
<1>1. w.g.kind = "NORMAL" \/ w.g.kind = "HUGE"
  BY DEF WorldOK
<1> QED
  BY <1>1, CoalesceNormal, CoalesceHuge

-----------------------------------------------------------------------------
(* Clearing a page.                                                         *)

\* The page at i is on its way to a free span.
Limbo(w, i) ==
  [w EXCEPT !.g.slices[i] = [@ EXCEPT !.block_size = 1, !.size = 0],
            !.g.zero_init = @ \ {i}, !.g.orphans = @ \ {i}]

\* h is g without the page i, but for what no property depends on.
Fewer(g, h, i, used) ==
  /\ h \in SegRec
  /\ h.kind = g.kind /\ h.thread_id = g.thread_id /\ h.used = used /\ h.abandoned = g.abandoned
  /\ h.dont_free = g.dont_free /\ h.orphans = g.orphans \ {i} /\ h.dirty = {}

LEMMA LimboIs ==
  ASSUME NEW w \in Worlds, w.g.dirty = {}, NEW i \in Entries
  PROVE  LET v == Limbo(w, i)
         IN /\ v \in Worlds /\ v.s = w.s /\ v.at = w.at /\ v.tld = w.tld
            /\ Fewer(w.g, v.g, i, w.g.used) /\ MasksEqual(w.g, v.g)
            /\ v.g.slices[i].block_size = 1
            /\ \A k \in Entries : /\ k # i => v.g.slices[k] = w.g.slices[k]
                                  /\ v.g.slices[k].slice_count = w.g.slices[k].slice_count
                                  /\ v.g.slices[k].slice_offset = w.g.slices[k].slice_offset
<1> DEFINE g == w.g
           f == g.slices
           a == [f[i] EXCEPT !.block_size = 1]
           e == [a EXCEPT !.size = 0]
           x == [f EXCEPT ![i] = e]
           z == g.zero_init \ {i}
           o == g.orphans \ {i}
           h == [g EXCEPT !.slices = x, !.zero_init = z, !.orphans = o]
           v == Limbo(w, i)
<1>1. g \in SegRec /\ f \in [Entries -> SliceRecord] /\ f[i] \in SliceRecord
  BY WorldParts
<1>2. /\ a \in SliceRecord /\ a.block_size = 1
      /\ a.slice_count = f[i].slice_count /\ a.slice_offset = f[i].slice_offset
  BY <1>1 DEF SliceRecord
<1> HIDE DEF a
<1>3. /\ e \in SliceRecord /\ e.block_size = 1
      /\ e.slice_count = f[i].slice_count /\ e.slice_offset = f[i].slice_offset
  BY <1>2 DEF SliceRecord
<1>4. v = SetSegment(w, h)
  BY ZenonT(30) DEF Limbo, SetSegment, a
<1> HIDE DEF e, f
<1>5. x \in [Entries -> SliceRecord] /\ x[i] = e /\ \A k \in Entries : k # i => x[k] = f[k]
  BY <1>1, <1>3
<1>6. z \in SUBSET Slices /\ o \in SUBSET Slices
  BY <1>1 DEF SegRec
<1> HIDE DEF x, z, o, g
<1>7. h \in SegRec
  BY ZenonT(30), <1>1, <1>5, <1>6 DEF SegRec
<1>8. /\ h.kind = g.kind /\ h.thread_id = g.thread_id /\ h.used = g.used /\ h.abandoned = g.abandoned
      /\ h.dont_free = g.dont_free /\ h.orphans = o /\ h.dirty = g.dirty /\ MasksEqual(g, h) /\ h.slices = x
  BY <1>1 DEF SegRec, MasksEqual
<1> HIDE DEF h, v
<1>9. v \in Worlds /\ v.s = w.s /\ v.at = w.at /\ v.tld = w.tld /\ v.g = h
  BY <1>4, <1>7, SetSegmentIs
<1>10. Fewer(g, h, i, g.used)
  BY <1>7, <1>8 DEF Fewer, o, g
<1>11. \A k \in Entries : /\ k # i => x[k] = f[k]
                          /\ x[k].slice_count = f[k].slice_count /\ x[k].slice_offset = f[k].slice_offset
  BY <1>3, <1>5
<1> QED
  BY <1>3, <1>5, <1>8, <1>9, <1>10, <1>11 DEF v, g, f

\* Putting the world v in place of w: the same spans, one page less.
Limboed(w, v, i, T, P, R, q0) ==
  /\ WorldOK(v, q0, T, P \ {i}, R) /\ v.s = w.s /\ v.at = w.at
  /\ Fewer(w.g, v.g, i, w.g.used)
  /\ v.g.slices[i].block_size = 1 /\ v.g.slices[i].slice_count = w.g.slices[i].slice_count
  /\ \A k \in Entries : k # i => v.g.slices[k] = w.g.slices[k]

LEMMA LimboOK ==
  ASSUME NEW w, NEW q0, NEW T, NEW P, NEW R, WorldOK(w, q0, T, P, R), NEW i \in P, i # 0
  PROVE  Limboed(w, Limbo(w, i), i, T, P, R, q0)
<1> DEFINE f == w.g.slices
           v == Limbo(w, i)
           h == v.g.slices
<1>1. /\ w.g \in SegRec /\ f \in [Entries -> SliceRecord] /\ w.s \in Addresses
      /\ SLICES \in Nat /\ P \subseteq T /\ Tiled(f, T) /\ 0 \in P
      /\ \A k \in T : k \in Nat /\ k < SLICES /\ k \in Slices /\ k \in Entries /\ f[k].slice_count \in Nat \ {0}
  BY WorldTypes
<1>2. /\ TilesOK(f, w.g.kind, T, P) /\ w.g.dirty = {} /\ MaskOK(w.g, InUse(f, P)) /\ w \in Worlds
      /\ R \subseteq T \ P /\ (~InQueues(w.g) => R = {}) /\ QueueOK(w.tld.spans, q0, w.s, Queued(f, R))
      /\ w.g.kind \in {"NORMAL", "HUGE"}
  BY DEF WorldOK
<1>3. i \in T /\ i \in Entries
  BY <1>1
<1> HIDE DEF v
<1>4. /\ v \in Worlds /\ v.s = w.s /\ v.at = w.at /\ v.tld = w.tld
      /\ Fewer(w.g, v.g, i, w.g.used) /\ MasksEqual(w.g, v.g)
      /\ h[i].block_size = 1
      /\ \A k \in Entries : /\ k # i => h[k] = f[k]
                            /\ h[k].slice_count = f[k].slice_count
                            /\ h[k].slice_offset = f[k].slice_offset
  BY <1>2, <1>3, LimboIs DEF v
<1> HIDE DEF h, f
<1>5. h \in [Entries -> SliceRecord]
  BY <1>4, WorldParts DEF h
<1>6. TilesOK(h, w.g.kind, T, P \ {i})
  <2>1. Tiled(h, T)
    BY <1>1, <1>4 DEF Tiled
  <2>2. ASSUME NEW k \in T PROVE SpanOK(h, w.g.kind, k, k \in P \ {i})
    <3>1. SpanOK(f, w.g.kind, k, k \in P)
      BY <1>2 DEF TilesOK
    <3>2. h[k].block_size \in Nat /\ (k \in P \ {i} => h[k].block_size # 0)
      BY <1>1, <1>4, <3>1 DEF SpanOK
    <3>3. \A j \in Slices : j \in Entries
      BY <1>1 DEF Slices, Entries
    <3>4. \A j \in Slices : h[j].slice_offset = f[j].slice_offset
      BY <1>4, <3>3
    <3>5. h[k].slice_offset = f[k].slice_offset /\ h[k].slice_count = f[k].slice_count
      BY <1>1, <1>4
    <3>6. /\ h[k].block_size = 0 => f[k].block_size = 0
          /\ k \in P => k \in P \ {i} \/ h[k].block_size # 0
      BY <1>1, <1>4
    <3>7. (k \in P \ {i} \/ h[k].block_size = 0) => (k \in P \/ f[k].block_size = 0)
      BY <3>6
    <3> QED
      BY <3>1, <3>2, <3>4, <3>5, <3>7 DEF SpanOK
  <2>3. ASSUME NEW a \in T, NEW b \in T, h[a].block_size = 0, b = a + h[a].slice_count PROVE h[b].block_size # 0
    <3>1. a # i /\ a \in Entries /\ b \in Entries
      BY <1>1, <1>4, <2>3
    <3>2. h[a] = f[a]
      BY <1>4, <3>1
    <3>3. b # i => h[b] = f[b]
      BY <1>4, <3>1
    <3>4. f[b].block_size # 0
      BY <1>2, <2>3, <3>2 DEF TilesOK
    <3> QED
      BY <1>4, <3>3, <3>4
  <2> QED
    BY <1>1, <1>5, <2>1, <2>2, <2>3 DEF TilesOK
<1>7. MaskOK(v.g, InUse(h, P \ {i}))
  <2>1. InUse(h, P \ {i}) \subseteq InUse(f, P)
    BY <1>1, <1>4 DEF InUse
  <2>2. MaskOK(v.g, InUse(f, P))
    BY <1>2, <1>4, MasksEqualOK
  <2> QED
    BY <2>1, <2>2, MaskLess
<1>8. Queued(h, R) = Queued(f, R)
  <2>1. \A k \in R : h[k] = f[k]
    <3>1. \A k \in R : k \in Entries /\ k # i
      BY <1>1, <1>2
    <3> QED
      BY <1>4, <3>1
  <2> QED
    BY <2>1, QueuedSame
<1>9. /\ v.g.kind = w.g.kind /\ v.g.dirty = {} /\ (InQueues(v.g) <=> InQueues(w.g))
  BY <1>4 DEF Fewer, InQueues
<1>10. R \subseteq T \ (P \ {i})
  BY <1>2
<1>11. WorldOK(v, q0, T, P \ {i}, R)
  BY <1>2, <1>4, <1>6, <1>7, <1>8, <1>9, <1>10 DEF WorldOK, h
<1> QED
  BY <1>3, <1>4, <1>11 DEF Limboed, v, h, f

\* v is w with the page at i cleared, and merged into a free span of n slices at lo.
Cleared(w, v, i, T, P, R, q0, lo, n) ==
  /\ v.at = lo /\ lo \in T \ (P \ {i}) /\ lo \in Nat \ {0} /\ lo <= i /\ i < lo + n /\ n \in Nat \ {0}
  /\ v.s = w.s /\ Fewer(w.g, v.g, i, w.g.used - 1)
  /\ WorldOK(v, q0, NewT(T, lo, n), P \ {i}, NewR(w.g, R, lo, n))
  /\ v.g.slices[lo].slice_count = n /\ v.g.slices[lo].block_size = 0
  /\ \A k \in Entries : k < lo \/ k >= lo + n => v.g.slices[k] = w.g.slices[k]
  /\ SliceFirst(v.g, i) = lo
  /\ \A k \in P \ {i} : k < lo \/ k >= lo + n

\* The last step of PageClear.
Uncounted(w) == [w EXCEPT !.g.used = @ - 1, !.g.free_is_zero = FALSE, !.g.dirty = {}]

LEMMA UncountedIs ==
  ASSUME NEW w \in Worlds
  PROVE  LET v == Uncounted(w)
         IN /\ v \in Worlds /\ v.s = w.s /\ v.at = w.at /\ v.tld = w.tld
            /\ MasksEqual(w.g, v.g) /\ v.g.slices = w.g.slices
            /\ v.g.kind = w.g.kind /\ v.g.thread_id = w.g.thread_id /\ v.g.used = w.g.used - 1
            /\ v.g.abandoned = w.g.abandoned /\ v.g.dont_free = w.g.dont_free
            /\ v.g.orphans = w.g.orphans /\ v.g.dirty = {}
<1> DEFINE g == w.g
           u == g.used - 1
           h == [g EXCEPT !.used = u, !.free_is_zero = FALSE, !.dirty = {}]
           v == Uncounted(w)
<1>1. g \in SegRec /\ u \in Int
  BY WorldParts DEF SegRec
<1>2. v = SetSegment(w, h)
  BY ZenonT(30) DEF Uncounted, SetSegment
<1> HIDE DEF g, u, v
<1>3. h \in SegRec
  BY ZenonT(30), <1>1 DEF SegRec
<1>4. /\ MasksEqual(g, h) /\ h.slices = g.slices /\ h.kind = g.kind /\ h.thread_id = g.thread_id /\ h.used = u
      /\ h.abandoned = g.abandoned /\ h.dont_free = g.dont_free /\ h.orphans = g.orphans /\ h.dirty = {}
  BY <1>1 DEF SegRec, MasksEqual
<1> HIDE DEF h
<1>5. v \in Worlds /\ v.s = w.s /\ v.at = w.at /\ v.tld = w.tld /\ v.g = h
  BY <1>2, <1>3, SetSegmentIs
<1> QED
  BY <1>4, <1>5 DEF v, g, u

\* A world keeps its soundness when another has its entries, masks and queues.
LEMMA WorldSame ==
  ASSUME NEW w, NEW v, NEW q0, NEW T, NEW P, NEW R, WorldOK(w, q0, T, P, R),
         v \in Worlds, v.s = w.s, v.tld.spans = w.tld.spans, MasksEqual(w.g, v.g), v.g.slices = w.g.slices,
         v.g.kind = w.g.kind, InQueues(v.g) <=> InQueues(w.g), v.g.dirty = {}
  PROVE  WorldOK(v, q0, T, P, R)
BY MasksEqualOK DEF WorldOK

LEMMA ClearOK ==
  ASSUME NEW w, NEW q0, NEW T, NEW P, NEW R, WorldOK(w, q0, T, P, R), NEW i \in P, i # 0,
         Rested(w.g.slices, T, P, i)
  PROVE  \E lo, n : Cleared(w, PageClear(w, i), i, T, P, R, q0, lo, n)
<1> DEFINE w1 == Limbo(w, i)
           w2 == SpanFreeCoalesce(w1, i)
           v  == Uncounted(w2)
<1>1. PageClear(w, i) = v
  BY DEF PageClear, Limbo, Uncounted
<1> HIDE DEF w1
<1>2. Limboed(w, w1, i, T, P, R, q0)
  BY LimboOK DEF w1
<1>3. /\ WorldOK(w1, q0, T, P \ {i}, R) /\ w1.s = w.s /\ Fewer(w.g, w1.g, i, w.g.used)
      /\ w1.g.slices[i].slice_count = w.g.slices[i].slice_count
      /\ \A k \in Entries : k # i => w1.g.slices[k] = w.g.slices[k]
  BY <1>2 DEF Limboed
<1>4. i \in T /\ i \in Nat /\ i \notin P \ {i} /\ i \notin R /\ SLICES \in Nat /\ i < SLICES
      /\ \A k \in Entries : k \in Nat
  <2>1. i \in T /\ R \subseteq T \ P
    BY DEF WorldOK, TilesOK
  <2>2. SLICES \in Nat /\ \A k \in T : k \in Nat /\ k < SLICES
    BY WorldTypes
  <2> QED
    BY <2>1, <2>2 DEF Entries
<1>5. PICK lo, n : Coalesced(w1, w2, i, T, P \ {i}, R, q0, lo, n)
  <2>1. T \subseteq Entries
    BY WorldTypes
  <2>2. Rested(w1.g.slices, T, P \ {i}, i)
    BY <1>3, <2>1 DEF Rested
  <2> QED
    BY <1>3, <1>4, <2>2, CoalesceOK
<1> HIDE DEF w2, v
<1>6. /\ w2.at = lo /\ lo \in T \ (P \ {i}) /\ lo \in Nat \ {0} /\ lo <= i /\ i < lo + n /\ n \in Nat \ {0}
      /\ w2.s = w1.s /\ Same(w1.g, w2.g)
      /\ WorldOK(w2, q0, NewT(T, lo, n), P \ {i}, NewR(w1.g, R, lo, n))
      /\ w2.g.slices[lo].slice_count = n /\ w2.g.slices[lo].block_size = 0
      /\ \A k \in Entries : k < lo \/ k >= lo + n => w2.g.slices[k] = w1.g.slices[k]
      /\ i # lo => w2.g.slices[i].slice_offset = i - lo
      /\ \A k \in P \ {i} : k < lo \/ k >= lo + n
  BY <1>5 DEF Coalesced
<1>7. w2 \in Worlds
  BY <1>6 DEF WorldOK
<1>8. /\ v \in Worlds /\ v.s = w2.s /\ v.at = w2.at /\ v.tld = w2.tld
      /\ MasksEqual(w2.g, v.g) /\ v.g.slices = w2.g.slices
      /\ v.g.kind = w2.g.kind /\ v.g.thread_id = w2.g.thread_id /\ v.g.used = w2.g.used - 1
      /\ v.g.abandoned = w2.g.abandoned /\ v.g.dont_free = w2.g.dont_free
      /\ v.g.orphans = w2.g.orphans /\ v.g.dirty = {}
  BY <1>7, UncountedIs DEF v
<1>9. Fewer(w.g, v.g, i, w.g.used - 1)
  BY <1>3, <1>6, <1>8, WorldParts DEF Fewer, Same
<1>10. WorldOK(v, q0, NewT(T, lo, n), P \ {i}, NewR(w.g, R, lo, n))
  <2>1. NewR(w1.g, R, lo, n) = NewR(w.g, R, lo, n)
    BY <1>3 DEF NewR, InQueues, Fewer
  <2>2. InQueues(v.g) <=> InQueues(w2.g)
    BY <1>8 DEF InQueues
  <2>3. WorldOK(w2, q0, NewT(T, lo, n), P \ {i}, NewR(w.g, R, lo, n))
    BY <1>6, <2>1
  <2> QED
    BY <1>8, <2>2, <2>3, WorldSame
<1>11. \A k \in Entries : k < lo \/ k >= lo + n => v.g.slices[k] = w.g.slices[k]
  <2> SUFFICES ASSUME NEW k \in Entries, k < lo \/ k >= lo + n PROVE v.g.slices[k] = w.g.slices[k]
    OBVIOUS
  <2>1. k # i
    BY <1>4, <1>6
  <2> QED
    BY <1>3, <1>6, <1>8, <2>1
<1>12. SliceFirst(v.g, i) = lo
  <2>1. CASE i # lo
    BY <1>4, <1>6, <1>8, <2>1 DEF SliceFirst
  <2>2. CASE i = lo
    <3>1. TilesOK(v.g.slices, v.g.kind, NewT(T, lo, n), P \ {i})
      BY <1>10 DEF WorldOK
    <3>2. i \in NewT(T, lo, n)
      BY <1>4, <2>2 DEF NewT
    <3>3. v.g.slices[i].slice_offset = 0
      BY <3>1, <3>2 DEF TilesOK, SpanOK
    <3> QED
      BY <1>4, <2>2, <3>3 DEF SliceFirst
  <2> QED
    BY <2>1, <2>2
<1>13. Cleared(w, v, i, T, P, R, q0, lo, n)
  BY <1>3, <1>6, <1>8, <1>9, <1>10, <1>11, <1>12 DEF Cleared
<1> QED
  BY <1>1, <1>13

-----------------------------------------------------------------------------
(* A segment with its blocks and counts.                                    *)

\* Every block is in a page, at a multiple of the page's block size.
BlockIn(f, P, b) ==
  /\ b.page \in P \ {0} /\ f[b.page].size = b.len
  /\ b.start + b.len <= b.page + f[b.page].slice_count
  /\ \E k \in Nat : b.start = b.page + k * b.len
BlocksIn(B, f, P, s) ==
  /\ \A k \in P \ {0} : f[k].size \in Nat \ {0}
  /\ \A b \in B : b.seg = s => BlockIn(f, P, b)
BlocksOK(f, P, s) == BlocksIn(blocks, f, P, s)

\* The free spans before m, if free spans are queued.
Before(g, T, P, m) == IF InQueues(g) THEN {k \in T \ P : k < m} ELSE {}

\* Every span that is not a page is free, but for i; those before m are queued.
SoundBut(w, q0, T, P, m, i) ==
  /\ WorldOK(w, q0, T, P, Before(w.g, T, P, m) \ {i})
  /\ \A k \in T \ P : k # i => w.g.slices[k].block_size = 0
  /\ BlocksOK(w.g.slices, P, w.s)
  /\ w.g.used = Cardinality(P \ {0}) /\ w.g.orphans \subseteq P \ {0}

Sound(w, q0, T, P, m) ==
  /\ WorldOK(w, q0, T, P, Before(w.g, T, P, m))
  /\ \A k \in T \ P : w.g.slices[k].block_size = 0
  /\ BlocksOK(w.g.slices, P, w.s)
  /\ w.g.used = Cardinality(P \ {0}) /\ w.g.orphans \subseteq P \ {0}

LEMMA BlocksMoved ==
  ASSUME NEW f, NEW h, NEW P, NEW Q, NEW s, BlocksOK(f, P, s), Q \subseteq P,
         \A k \in Q : h[k] = f[k], \A b \in blocks : b.seg = s => b.page \in Q \ {0}
  PROVE  BlocksOK(h, Q, s)
BY DEF BlocksOK, BlocksIn, BlockIn

LEMMA BlocksHave ==
  ASSUME NEW f, NEW P, NEW s, BlocksOK(f, P, s), NEW i, AllFree(s, i)
  PROVE  \A b \in blocks : b.seg = s => b.page \in (P \ {i}) \ {0}
BY DEF BlocksOK, BlocksIn, BlockIn, AllFree

LEMMA BlocksPages ==
  ASSUME NEW f, NEW P, NEW s, BlocksOK(f, P, s)
  PROVE  \A b \in blocks : b.seg = s => b.page \in P \ {0}
BY DEF BlocksOK, BlocksIn, BlockIn

BeforeMoves(g, h, T, P, Q, i, lo, n, R, m, m2) ==
  /\ InQueues(g) <=> InQueues(h)
  /\ T \in SUBSET Nat /\ lo \in Nat /\ n \in Nat \ {0} /\ lo \in T /\ lo \notin Q
  /\ i \in Nat /\ lo <= i /\ i < lo + n /\ Q = P \ {i}
  /\ R = Before(g, T, P, m) \ {i} /\ m \in Nat /\ m2 \in Nat
  /\ InQueues(g) => lo < m2 /\ \A k \in T : k < lo \/ k >= lo + n => (k < m <=> k < m2)

\* The queued spans after a merge.
LEMMA NewBefore ==
  ASSUME NEW g, NEW h, NEW T, NEW P, NEW Q, NEW i, NEW lo, NEW n, NEW R, NEW m, NEW m2,
         BeforeMoves(g, h, T, P, Q, i, lo, n, R, m, m2)
  PROVE  NewR(g, R, lo, n) = Before(h, NewT(T, lo, n), Q, m2)
<1> USE DEF BeforeMoves
<1>1. CASE ~InQueues(g)
  BY <1>1 DEF NewR, Before
<1>2. CASE InQueues(g)
  <2> DEFINE A == Out(R, lo, lo + n) \cup {lo}
             B == {k \in NewT(T, lo, n) \ Q : k < m2}
  <2>0. R = {k \in T \ P : k < m} \ {i}
    BY <1>2 DEF Before
  <2>1. NewR(g, R, lo, n) = A /\ Before(h, NewT(T, lo, n), Q, m2) = B
    BY <1>2 DEF NewR, Before
  <2>2. ASSUME NEW k \in T PROVE k \in A <=> k \in B
    <3>0. k \in Nat
      OBVIOUS
    <3>1. k \in NewT(T, lo, n) <=> k < lo \/ k = lo \/ k >= lo + n
      BY <3>0 DEF NewT
    <3>2. CASE k = lo
      BY <1>2, <3>1, <3>2
    <3>3. CASE k < lo \/ k >= lo + n
      <4>1. k # i /\ k # lo
        BY <3>0, <3>3
      <4>2. k \in Q <=> k \in P
        BY <4>1
      <4>3. k \in A <=> k \notin P /\ k < m
        BY <2>0, <3>3, <4>1 DEF Out
      <4>4. k \in B <=> k \notin P /\ k < m2
        BY <3>1, <3>3, <4>2
      <4> QED
        BY <1>2, <3>3, <4>3, <4>4
    <3>4. CASE ~(k < lo \/ k >= lo + n) /\ k # lo
      BY <3>1, <3>4 DEF Out
    <3> QED
      BY <3>2, <3>3, <3>4
  <2>3. A \subseteq T /\ B \subseteq T
    BY <2>0 DEF Out, NewT
  <2> QED
    BY ZenonT(30), <2>1, <2>2, <2>3
<1> QED
  BY <1>1, <1>2

\* Every span that is not a page is free.
Clean(h, T, P) == \A k \in T \ P : h[k].block_size = 0

CleanMoves(f, h, T, P, Q, i, lo, n) ==
  /\ T \in SUBSET Nat /\ T \subseteq Entries /\ i \in Nat
  /\ lo \in Nat /\ n \in Nat \ {0} /\ lo <= i /\ i < lo + n /\ Q = P \ {i}
  /\ h[lo].block_size = 0 /\ \A k \in Entries : k < lo \/ k >= lo + n => h[k] = f[k]
  /\ \A k \in T \ P : k # i => f[k].block_size = 0

\* It is so after a merge.
LEMMA NewClean ==
  ASSUME NEW f, NEW h, NEW T, NEW P, NEW Q, NEW i, NEW lo, NEW n, CleanMoves(f, h, T, P, Q, i, lo, n)
  PROVE  Clean(h, NewT(T, lo, n), Q)
<1> USE DEF CleanMoves
<1> SUFFICES ASSUME NEW k \in NewT(T, lo, n) \ Q PROVE h[k].block_size = 0
  BY DEF Clean
<1>1. k \in T /\ k \in Nat /\ k \in Entries /\ (k < lo \/ k = lo \/ k >= lo + n)
  BY DEF NewT
<1>2. CASE k = lo
  BY <1>2
<1>3. CASE k < lo \/ k >= lo + n
  <2>1. k # i
    BY <1>1, <1>3
  <2>2. k \in T \ P
    BY <1>1, <2>1
  <2> QED
    BY <1>1, <1>3, <2>1, <2>2
<1> QED
  BY <1>1, <1>2, <1>3

\* What a merge into lo .. lo + n - 1 leaves, when the spans before m were queued.
Follows(v, q0, T, P, lo, n, m) ==
  /\ m >= SLICES => Sound(v, q0, NewT(T, lo, n), P, m)
  /\ lo <= m /\ m < lo + n => Sound(v, q0, NewT(T, lo, n), P, lo + n)

LEMMA FollowsBy ==
  ASSUME NEW g, NEW v, NEW q0, NEW T, T \subseteq Slices, NEW P, NEW Q, NEW i \in Nat, Q = P \ {i},
         NEW lo, NEW n, NEW m \in Nat, NEW R,
         lo \in T \ Q, lo \in Nat \ {0}, lo <= i, i < lo + n, n \in Nat \ {0},
         R = Before(g, T, P, m) \ {i}, InQueues(g) <=> InQueues(v.g),
         WorldOK(v, q0, NewT(T, lo, n), Q, NewR(g, R, lo, n)),
         \A k \in NewT(T, lo, n) \ Q : v.g.slices[k].block_size = 0,
         BlocksOK(v.g.slices, Q, v.s), v.g.used = Cardinality(Q \ {0}), v.g.orphans \subseteq Q \ {0}
  PROVE  Follows(v, q0, T, Q, lo, n, m)
<1>0. /\ SLICES \in Nat /\ T \in SUBSET Nat /\ \A k \in T : k \in Nat /\ k < SLICES
      /\ lo \in Nat /\ lo \in T /\ lo \notin Q /\ n \in Nat \ {0}
  BY SizesAssumption DEF Slices
<1>1. ASSUME NEW m2 \in Nat,
             InQueues(g) => lo < m2 /\ \A k \in T : k < lo \/ k >= lo + n => (k < m <=> k < m2)
      PROVE  Sound(v, q0, NewT(T, lo, n), Q, m2)
  <2>1. NewR(g, R, lo, n) = Before(v.g, NewT(T, lo, n), Q, m2)
    <3>1. BeforeMoves(g, v.g, T, P, Q, i, lo, n, R, m, m2)
      BY <1>0, <1>1 DEF BeforeMoves
    <3> QED
      BY <3>1, NewBefore
  <2>2. WorldOK(v, q0, NewT(T, lo, n), Q, Before(v.g, NewT(T, lo, n), Q, m2))
    BY <2>1
  <2> QED
    BY <2>2 DEF Sound
<1>2. ASSUME m >= SLICES PROVE Sound(v, q0, NewT(T, lo, n), Q, m)
  <2>1. lo < m
    BY <1>0, <1>2
  <2>2. \A k \in T : k < lo \/ k >= lo + n => (k < m <=> k < m)
    OBVIOUS
  <2> QED
    BY ZenonT(30), <1>1, <2>1, <2>2
<1>3. ASSUME lo <= m, m < lo + n PROVE Sound(v, q0, NewT(T, lo, n), Q, lo + n)
  <2>1. lo < lo + n /\ lo + n \in Nat
    BY <1>0
  <2>2. \A k \in T : k < lo \/ k >= lo + n => (k < m <=> k < lo + n)
    BY <1>0, <1>3
  <2> QED
    BY ZenonT(30), <1>1, <2>1, <2>2
<1> QED
  BY <1>2, <1>3 DEF Follows

\* Freeing a span that is neither free nor a page.
LEMMA CoalesceSound ==
  ASSUME NEW w, NEW q0, NEW T, NEW P, NEW m \in Nat, NEW i \in T, i \notin P, SoundBut(w, q0, T, P, m, i)
  PROVE  \E lo, n : /\ Coalesced(w, SpanFreeCoalesce(w, i), i, T, P, Before(w.g, T, P, m) \ {i}, q0, lo, n)
                    /\ Follows(SpanFreeCoalesce(w, i), q0, T, P, lo, n, m)
<1> DEFINE R == Before(w.g, T, P, m) \ {i}
           v == SpanFreeCoalesce(w, i)
<1>1. /\ WorldOK(w, q0, T, P, R)
      /\ \A k \in T \ P : k # i => w.g.slices[k].block_size = 0
      /\ BlocksOK(w.g.slices, P, w.s)
      /\ w.g.used = Cardinality(P \ {0}) /\ w.g.orphans \subseteq P \ {0}
  BY DEF SoundBut
<1>2. R = Before(w.g, T, P, m) \ {i} /\ i \notin R
  OBVIOUS
<1> HIDE DEF R, v
<1>3. PICK lo, n : Coalesced(w, v, i, T, P, R, q0, lo, n)
  <2>1. Rested(w.g.slices, T, P, i)
    BY <1>1 DEF Rested
  <2> QED
    BY <1>1, <1>2, <2>1, CoalesceOK DEF v
<1>4. /\ lo \in T \ P /\ lo \in Nat \ {0} /\ lo <= i /\ i < lo + n /\ n \in Nat \ {0}
      /\ v.s = w.s /\ Same(w.g, v.g)
      /\ WorldOK(v, q0, NewT(T, lo, n), P, NewR(w.g, R, lo, n))
      /\ v.g.slices[lo].block_size = 0
      /\ \A k \in Entries : k < lo \/ k >= lo + n => v.g.slices[k] = w.g.slices[k]
      /\ \A k \in P : k < lo \/ k >= lo + n
  BY <1>3 DEF Coalesced
<1>5. T \subseteq Slices /\ T \subseteq Entries /\ T \in SUBSET Nat /\ P \subseteq T /\ i \in Nat
  BY <1>1, WorldTypes
<1>6. P = P \ {i}
  OBVIOUS
<1>7. /\ InQueues(w.g) <=> InQueues(v.g)
      /\ v.g.used = Cardinality(P \ {0}) /\ v.g.orphans \subseteq P \ {0}
  BY <1>1, <1>4 DEF Same, InQueues
<1>8. \A k \in NewT(T, lo, n) \ P : v.g.slices[k].block_size = 0
  <2> DEFINE f == w.g.slices
             h == v.g.slices
  <2>1. /\ lo \in Nat /\ n \in Nat \ {0} /\ lo <= i /\ i < lo + n /\ h[lo].block_size = 0
        /\ (\A k \in Entries : k < lo \/ k >= lo + n => h[k] = f[k])
        /\ \A k \in T \ P : k # i => f[k].block_size = 0
    BY <1>1, <1>4
  <2> HIDE DEF f, h
  <2>2. CleanMoves(f, h, T, P, P, i, lo, n)
    BY ZenonT(30), <1>5, <1>6, <2>1 DEF CleanMoves
  <2>3. Clean(h, NewT(T, lo, n), P)
    BY <2>2, NewClean
  <2> QED
    BY <2>3 DEF h, Clean
<1>9. BlocksOK(v.g.slices, P, v.s)
  <2>1. \A k \in P : v.g.slices[k] = w.g.slices[k]
    BY <1>4, <1>5
  <2>2. \A b \in blocks : b.seg = w.s => b.page \in P \ {0}
    BY <1>1, BlocksPages
  <2> QED
    BY <1>1, <1>4, <1>6, <2>1, <2>2, BlocksMoved
<1>10. Follows(v, q0, T, P, lo, n, m)
  BY ZenonT(30), <1>2, <1>4, <1>5, <1>6, <1>7, <1>8, <1>9, FollowsBy
<1> QED
  BY <1>3, <1>10 DEF v, R

LEMMA PagesFinite ==
  ASSUME NEW P, P \subseteq Slices
  PROVE  IsFiniteSet(P) /\ Cardinality(P) \in Nat
<1>1. SLICES \in Nat
  BY SizesAssumption
<1>2. IsFiniteSet(Slices)
  BY <1>1, FS_Interval DEF Slices
<1> QED
  BY <1>2, FS_Subset, FS_CardinalityType

LEMMA OneLess ==
  ASSUME NEW P, P \subseteq Slices, NEW i \in P
  PROVE  Cardinality(P \ {i}) = Cardinality(P) - 1
BY PagesFinite, FS_RemoveElement

LEMMA OneMore ==
  ASSUME NEW P, P \subseteq Slices, NEW i \in Slices, i \notin P
  PROVE  Cardinality(P \cup {i}) = Cardinality(P) + 1
BY PagesFinite, FS_AddElement

\* Clearing a page whose blocks have all been freed.
LEMMA ClearSound ==
  ASSUME NEW w, NEW q0, NEW T, NEW P, NEW m \in Nat, Sound(w, q0, T, P, m), NEW i \in P, i # 0, AllFree(w.s, i)
  PROVE  \E lo, n : /\ Cleared(w, PageClear(w, i), i, T, P, Before(w.g, T, P, m), q0, lo, n)
                    /\ Follows(PageClear(w, i), q0, T, P \ {i}, lo, n, m)
<1> DEFINE R == Before(w.g, T, P, m)
           v == PageClear(w, i)
           Q == P \ {i}
<1>1. /\ WorldOK(w, q0, T, P, R)
      /\ \A k \in T \ P : w.g.slices[k].block_size = 0
      /\ BlocksOK(w.g.slices, P, w.s)
      /\ w.g.used = Cardinality(P \ {0}) /\ w.g.orphans \subseteq P \ {0}
  BY DEF Sound
<1>2. R = Before(w.g, T, P, m) \ {i}
  BY DEF Before
<1>3. PICK lo, n : Cleared(w, v, i, T, P, R, q0, lo, n)
  <2>1. Rested(w.g.slices, T, P, i)
    BY <1>1 DEF Rested
  <2> QED
    BY <1>1, <2>1, ClearOK
<1> HIDE DEF R, v, Q
<1>4. /\ lo \in T \ Q /\ lo \in Nat \ {0} /\ lo <= i /\ i < lo + n /\ n \in Nat \ {0}
      /\ v.s = w.s /\ Fewer(w.g, v.g, i, w.g.used - 1)
      /\ WorldOK(v, q0, NewT(T, lo, n), Q, NewR(w.g, R, lo, n))
      /\ v.g.slices[lo].block_size = 0
      /\ \A k \in Entries : k < lo \/ k >= lo + n => v.g.slices[k] = w.g.slices[k]
      /\ \A k \in Q : k < lo \/ k >= lo + n
  BY <1>3 DEF Cleared, Q
<1>5. T \subseteq Slices /\ T \subseteq Entries /\ T \in SUBSET Nat /\ P \subseteq T /\ i \in Nat
  BY <1>1, WorldTypes
<1>6. Q = P \ {i} /\ Q \subseteq P
  BY DEF Q
<1>7. /\ InQueues(w.g) <=> InQueues(v.g)
      /\ v.g.used = Cardinality(Q \ {0}) /\ v.g.orphans \subseteq Q \ {0}
  <2>1. (P \ {0}) \ {i} = Q \ {0}
    BY <1>6
  <2>2. P \ {0} \subseteq Slices /\ i \in P \ {0}
    BY <1>5
  <2>3. Cardinality((P \ {0}) \ {i}) = Cardinality(P \ {0}) - 1
    BY <2>2, OneLess
  <2> QED
    BY ZenonT(30), <1>1, <1>4, <2>1, <2>3 DEF Fewer, InQueues
<1>8. \A k \in NewT(T, lo, n) \ Q : v.g.slices[k].block_size = 0
  <2> DEFINE f == w.g.slices
             h == v.g.slices
  <2>1. /\ lo \in Nat /\ n \in Nat \ {0} /\ lo <= i /\ i < lo + n /\ h[lo].block_size = 0
        /\ (\A k \in Entries : k < lo \/ k >= lo + n => h[k] = f[k])
        /\ \A k \in T \ P : k # i => f[k].block_size = 0
    BY <1>1, <1>4
  <2> HIDE DEF f, h
  <2>2. CleanMoves(f, h, T, P, Q, i, lo, n)
    BY ZenonT(30), <1>5, <1>6, <2>1 DEF CleanMoves
  <2>3. Clean(h, NewT(T, lo, n), Q)
    BY <2>2, NewClean
  <2> QED
    BY <2>3 DEF h, Clean
<1>9. BlocksOK(v.g.slices, Q, v.s)
  <2>1. \A k \in Q : v.g.slices[k] = w.g.slices[k]
    BY <1>4, <1>5, <1>6
  <2>2. \A b \in blocks : b.seg = w.s => b.page \in Q \ {0}
    BY <1>1, BlocksHave DEF Q
  <2> QED
    BY <1>1, <1>4, <1>6, <2>1, <2>2, BlocksMoved
<1>10. Follows(v, q0, T, Q, lo, n, m)
  BY ZenonT(30), <1>2, <1>4, <1>5, <1>6, <1>7, <1>8, <1>9, FollowsBy
<1> QED
  BY <1>3, <1>10 DEF v, R, Q

-----------------------------------------------------------------------------
(* The loops over the spans.                                                *)

\* One round of a loop: `p` is what it had when it was done with the entries before
\* k - 1.
Round(loop, w, k, p) ==
  IF loop = "unqueue"
    THEN IF k - 1 \in FreeSpans(w.g)
           THEN [p EXCEPT ![SliceBin(w.g.slices[k - 1].slice_count)] = Without(@, <<w.s, k - 1>>)] ELSE p
  ELSE IF loop = "check" THEN IF p.at = k - 1 THEN CheckSpan(p) ELSE p
  ELSE IF loop = "reclaim" THEN IF p.at = k - 1 THEN ReclaimSpan(p) ELSE p
  ELSE IF p.at = k - 1 THEN ForceAbandonSpan(p) ELSE p

IsLoop(loop, w, start, at) ==
  /\ at = [k \in Entries |-> at[k]]
  /\ \A k \in Entries : at[k] = IF k = 0 THEN start ELSE Round(loop, w, k, at[k - 1])

\* Every loop ends.
LEMMA LoopExists ==
  ASSUME NEW loop, NEW w, NEW start
  PROVE  \E at : IsLoop(loop, w, start, at)
<1> DEFINE Upto(at, n) == /\ at = [k \in 0 .. n |-> at[k]]
                          /\ \A k \in 0 .. n : at[k] = IF k = 0 THEN start ELSE Round(loop, w, k, at[k - 1])
           Bad == {n \in Nat : ~\E at : Upto(at, n)}
<1>1. SLICES \in Nat
  BY SizesAssumption
<1>2. Bad = {}
  <2> SUFFICES ASSUME Bad # {} PROVE FALSE
    OBVIOUS
  <2>1. PICK n \in Bad : \A k \in Bad : n <= k
    <3>1. Bad \in SUBSET Nat
      OBVIOUS
    <3> HIDE DEF Bad
    <3> QED
      BY <3>1, LeastNat
  <2>2. CASE n = 0
    <3>1. Upto([k \in 0 .. 0 |-> start], 0)
      OBVIOUS
    <3> QED
      BY ZenonT(30), <2>2, <3>1
  <2>3. CASE n # 0
    <3>1. n - 1 \in Nat /\ n - 1 \notin Bad
      BY <2>1, <2>3
    <3>2. PICK at : Upto(at, n - 1)
      BY <3>1
    <3> DEFINE step == Round(loop, w, n, at[n - 1])
    <3> HIDE DEF step
    <3> DEFINE h == [k \in 0 .. n |-> IF k < n THEN at[k] ELSE step]
    <3>3. \A k \in 0 .. n : h[k] = IF k = 0 THEN start ELSE Round(loop, w, k, h[k - 1])
      <4> SUFFICES ASSUME NEW k \in 0 .. n
                   PROVE h[k] = IF k = 0 THEN start ELSE Round(loop, w, k, h[k - 1])
        BY ZenonT(30)
      <4>0. n \in Nat /\ k \in Nat
        BY <2>1
      <4>1. k # 0 => h[k - 1] = at[k - 1]
        BY <4>0
      <4>2. k < n => h[k] = at[k] /\ k \in 0 .. n - 1
        BY <4>0
      <4>3. h[n] = step
        BY <4>0
      <4>4. k < n => at[k] = IF k = 0 THEN start ELSE Round(loop, w, k, at[k - 1])
        BY ZenonT(30), <3>2, <4>2
      <4> HIDE DEF h
      <4>5. CASE k < n
        BY <4>0, <4>1, <4>2, <4>4, <4>5
      <4>6. CASE k = n
        BY <2>3, <4>0, <4>1, <4>3, <4>6 DEF step
      <4> QED
        BY <4>0, <4>5, <4>6
    <3>4. h = [k \in 0 .. n |-> h[k]]
      OBVIOUS
    <3> HIDE DEF h
    <3>5. Upto(h, n)
      BY ZenonT(30), <3>3, <3>4
    <3> QED
      BY ZenonT(30), <3>5, <2>1
  <2> QED
    BY <2>2, <2>3
<1> QED
  BY <1>1, <1>2 DEF IsLoop, Entries

LEMMA UnqueueBy ==
  ASSUME NEW w
  PROVE  \E q : IsLoop("unqueue", w, w.tld.spans, q) /\ Unqueue(w) = SetSpans(w, q[SLICES])
<1> DEFINE q == CHOOSE q : q = [k \in Entries |->
                   IF k = 0 THEN w.tld.spans
                   ELSE IF k - 1 \in FreeSpans(w.g)
                     THEN [q[k - 1] EXCEPT ![SliceBin(w.g.slices[k - 1].slice_count)] = Without(@, <<w.s, k - 1>>)]
                     ELSE q[k - 1]]
<1>1. PICK a : IsLoop("unqueue", w, w.tld.spans, a)
  BY LoopExists
<1>2. a = [k \in Entries |->
                   IF k = 0 THEN w.tld.spans
                   ELSE IF k - 1 \in FreeSpans(w.g)
                     THEN [a[k - 1] EXCEPT ![SliceBin(w.g.slices[k - 1].slice_count)] = Without(@, <<w.s, k - 1>>)]
                     ELSE a[k - 1]]
  BY <1>1 DEF IsLoop, Round
<1>3. q = [k \in Entries |->
                   IF k = 0 THEN w.tld.spans
                   ELSE IF k - 1 \in FreeSpans(w.g)
                     THEN [q[k - 1] EXCEPT ![SliceBin(w.g.slices[k - 1].slice_count)] = Without(@, <<w.s, k - 1>>)]
                     ELSE q[k - 1]]
  BY ZenonT(30), <1>2
<1>4. Unqueue(w) = SetSpans(w, q[SLICES])
  BY DEF Unqueue, SetSpans
<1> HIDE DEF q
<1>5. IsLoop("unqueue", w, w.tld.spans, q)
  <2>1. \A k \in Entries : q[k] = IF k = 0 THEN w.tld.spans ELSE Round("unqueue", w, k, q[k - 1])
    BY ZenonT(30), <1>3 DEF Round
  <2>2. q = [k \in Entries |-> q[k]]
    BY <1>3
  <2> QED
    BY <2>1, <2>2 DEF IsLoop
<1> QED
  BY <1>4, <1>5

LEMMA CheckFreeBy ==
  ASSUME NEW w
  PROVE  \E l : IsLoop("check", w, Start(w), l) /\ CheckFree(w) = l[SLICES]
<1> DEFINE l == CHOOSE l : l = [k \in Entries |->
                   IF k = 0 THEN Start(w) ELSE IF l[k - 1].at = k - 1 THEN CheckSpan(l[k - 1]) ELSE l[k - 1]]
<1>1. PICK a : IsLoop("check", w, Start(w), a)
  BY LoopExists
<1>2. a = [k \in Entries |->
             IF k = 0 THEN Start(w) ELSE IF a[k - 1].at = k - 1 THEN CheckSpan(a[k - 1]) ELSE a[k - 1]]
  BY <1>1 DEF IsLoop, Round
<1>3. l = [k \in Entries |->
             IF k = 0 THEN Start(w) ELSE IF l[k - 1].at = k - 1 THEN CheckSpan(l[k - 1]) ELSE l[k - 1]]
  BY ZenonT(30), <1>2
<1>4. CheckFree(w) = l[SLICES]
  BY DEF CheckFree
<1> HIDE DEF l
<1>5. IsLoop("check", w, Start(w), l)
  <2>1. \A k \in Entries : l[k] = IF k = 0 THEN Start(w) ELSE Round("check", w, k, l[k - 1])
    BY ZenonT(30), <1>3 DEF Round
  <2>2. l = [k \in Entries |-> l[k]]
    BY <1>3
  <2> QED
    BY <2>1, <2>2 DEF IsLoop
<1> QED
  BY <1>4, <1>5

\* pa_segment_reclaim before its loop and after it.
Reclaimed(w, t) ==
  TrackSize([w EXCEPT !.g.thread_id = t, !.g.abandoned_visits = 0, !.g.was_reclaimed = TRUE,
                      !.tld.reclaim_count = @ + 1, !.at = 0], 1)

LEMMA ReclaimBy ==
  ASSUME NEW w, NEW t
  PROVE  \E l : /\ IsLoop("reclaim", w, Start(Reclaimed(w, t)), l)
                /\ SegmentReclaim(w, t) = IF l[SLICES].g.used = 0 THEN SegmentFree(l[SLICES]) ELSE l[SLICES]
<1> DEFINE w1 == Reclaimed(w, t)
           l == CHOOSE l : l = [k \in Entries |->
                   IF k = 0 THEN Start(w1) ELSE IF l[k - 1].at = k - 1 THEN ReclaimSpan(l[k - 1]) ELSE l[k - 1]]
<1>4. SegmentReclaim(w, t) = IF l[SLICES].g.used = 0 THEN SegmentFree(l[SLICES]) ELSE l[SLICES]
  BY DEF SegmentReclaim, Reclaimed
<1> HIDE DEF w1
<1>1. PICK a : IsLoop("reclaim", w, Start(w1), a)
  BY LoopExists
<1>2. a = [k \in Entries |->
             IF k = 0 THEN Start(w1) ELSE IF a[k - 1].at = k - 1 THEN ReclaimSpan(a[k - 1]) ELSE a[k - 1]]
  BY <1>1 DEF IsLoop, Round
<1>3. l = [k \in Entries |->
             IF k = 0 THEN Start(w1) ELSE IF l[k - 1].at = k - 1 THEN ReclaimSpan(l[k - 1]) ELSE l[k - 1]]
  BY ZenonT(30), <1>2
<1> HIDE DEF l
<1>5. IsLoop("reclaim", w, Start(w1), l)
  <2>1. \A k \in Entries : l[k] = IF k = 0 THEN Start(w1) ELSE Round("reclaim", w, k, l[k - 1])
    BY ZenonT(30), <1>3 DEF Round
  <2>2. l = [k \in Entries |-> l[k]]
    BY <1>3
  <2> QED
    BY <2>1, <2>2 DEF IsLoop
<1> QED
  BY <1>4, <1>5 DEF w1

\* The spans of a sound segment, as its loops find them.
LEMMA SpansOf ==
  ASSUME NEW g, NEW kind, NEW T, NEW P, TilesOK(g.slices, kind, T, P), Clean(g.slices, T, P)
  PROVE  /\ Spans(g) = T /\ FreeSpans(g) = T \ P /\ Pages(g) = P \ {0} /\ Spans(g) \ FreeSpans(g) = P
         /\ \A k \in T : IsUsed(g, k) <=> k \in P
<1>1. Spans(g) = T
  BY ZenonT(30), SpansAre DEF TilesOK
<1>2. P \subseteq T /\ \A k \in T : /\ g.slices[k].block_size \in Nat
                                    /\ k \in P => g.slices[k].block_size # 0
                                    /\ k \notin P => g.slices[k].block_size = 0
  BY DEF TilesOK, SpanOK, Clean
<1>3. \A k \in T : IsUsed(g, k) <=> k \in P
  BY <1>2 DEF IsUsed
<1> QED
  BY <1>1, <1>2, <1>3 DEF FreeSpans, Pages

LEMMA SoundSpans ==
  ASSUME NEW w, NEW q0, NEW T, NEW P, NEW m, Sound(w, q0, T, P, m)
  PROVE  /\ Spans(w.g) = T /\ FreeSpans(w.g) = T \ P /\ Pages(w.g) = P \ {0} /\ Spans(w.g) \ FreeSpans(w.g) = P
         /\ \A k \in T : IsUsed(w.g, k) <=> k \in P
<1>1. TilesOK(w.g.slices, w.g.kind, T, P) /\ Clean(w.g.slices, T, P)
  BY DEF Sound, WorldOK, Clean
<1> QED
  BY ZenonT(30), <1>1, SpansOf

\* A segment that leaves its thread takes its spans out of the queues (segment.c:1121).
Unqueued(w, v, q0) ==
  /\ v \in Worlds /\ v.s = w.s /\ v.at = w.at /\ v.g = w.g
  /\ QueueOK(v.tld.spans, q0, w.s, {})

LEMMA UnqueueOK ==
  ASSUME NEW w, NEW q0, NEW T, NEW P, Sound(w, q0, T, P, SLICES), w.g.kind = "NORMAL" \/ T \subseteq P
  PROVE  Unqueued(w, Unqueue(w), q0)
<1> DEFINE f == w.g.slices
           R == Before(w.g, T, P, SLICES)
           Rest(k) == {i \in R : i >= k}
<1>1. PICK q : IsLoop("unqueue", w, w.tld.spans, q) /\ Unqueue(w) = SetSpans(w, q[SLICES])
  BY UnqueueBy
<1>2. WorldOK(w, q0, T, P, R)
  BY DEF Sound
<1>3. /\ w \in Worlds /\ QueueOK(w.tld.spans, q0, w.s, Queued(f, R)) /\ TilesOK(f, w.g.kind, T, P)
  BY <1>2 DEF WorldOK
<1>4. /\ w.s \in Addresses /\ SLICES \in Nat
      /\ \A k \in T : k \in Nat /\ k < SLICES /\ k \in Slices /\ f[k].slice_count \in Nat \ {0}
  BY <1>2, WorldTypes
<1>5. R \subseteq T \ P
  BY DEF Before
<1>6. FreeSpans(w.g) = T \ P
  BY SoundSpans
<1>7. \A k \in T \ P : SliceBin(f[k].slice_count) \in Bins
  <2> SUFFICES ASSUME NEW k \in T \ P PROVE SliceBin(f[k].slice_count) \in Bins
    OBVIOUS
  <2>1. w.g.kind = "NORMAL"
    OBVIOUS
  <2>2. k + f[k].slice_count <= SLICES
    BY <1>3, <2>1 DEF TilesOK, SpanOK
  <2>3. f[k].slice_count \in 0 .. SLICES
    BY <1>4, <2>2
  <2> QED
    BY <2>3, BinOf
<1> DEFINE Fine(k) == QueueOK(q[k], q0, w.s, Queued(f, Rest(k)))
           Bad == {k \in Entries : ~Fine(k)}
<1> HIDE DEF f, R
<1>8. Bad = {}
  <2> SUFFICES ASSUME Bad # {} PROVE FALSE
    OBVIOUS
  <2>1. PICK k \in Bad : \A j \in Bad : k <= j
    <3>1. Bad \in SUBSET Nat
      BY <1>4 DEF Entries
    <3> HIDE DEF Bad
    <3> QED
      BY <3>1, LeastNat
  <2>2. k \in Entries /\ k \in Nat /\ k <= SLICES
    BY <1>4, <2>1 DEF Entries
  <2>3. CASE k = 0
    <3>1. q[0] = w.tld.spans
      BY <1>1, <2>2, <2>3 DEF IsLoop
    <3>2. Rest(0) = R
      BY <1>4, <1>5
    <3>3. Fine(0)
      BY <1>3, <3>1, <3>2
    <3> QED
      BY <2>1, <2>3, <3>3
  <2>4. CASE k # 0
    <3>1. k - 1 \in Entries /\ k - 1 \in Nat
      BY <1>4, <2>2, <2>4 DEF Entries
    <3>2. Fine(k - 1)
      BY <2>1, <2>2, <2>4, <3>1
    <3>3. q[k] = Round("unqueue", w, k, q[k - 1])
      BY ZenonT(30), <1>1, <2>2, <2>4 DEF IsLoop
    <3>4. CASE k - 1 \in T \ P
      <4> DEFINE b == SliceBin(f[k - 1].slice_count)
                 j == k - 1
                 p == q[k - 1]
      <4>1. q[k] = [p EXCEPT ![b] = Without(@, <<w.s, j>>)]
        BY <1>6, <3>3, <3>4 DEF Round, f
      <4>2. b \in Bins /\ j \in Slices
        BY <1>4, <1>7, <3>4
      <4>3. Queued(f, Rest(k - 1)) \ {<<b, j>>} = Queued(f, Rest(k))
        <5>1. Rest(k) = Rest(k - 1) \ {j}
          <6>1. \A i \in R : i \in Nat
            BY <1>4, <1>5
          <6>2. \A i \in R : i >= k <=> i >= k - 1 /\ i # k - 1
            BY <2>2, <6>1
          <6> QED
            BY <6>2
        <5> HIDE DEF Rest
        <5>2. Queued(f, Rest(k - 1) \ {j}) = Queued(f, Rest(k - 1)) \ {<<b, j>>}
          BY DEF Queued
        <5> QED
          BY ZenonT(30), <5>1, <5>2
      <4>4. QueueOK(p, q0, w.s, Queued(f, Rest(k - 1)))
        BY <3>2
      <4> HIDE DEF b, j, p, Rest
      <4>5. QueueOK([p EXCEPT ![b] = Without(@, <<w.s, j>>)], q0, w.s, Queued(f, Rest(k - 1)) \ {<<b, j>>})
        BY ZenonT(30), <1>4, <4>2, <4>4, QueueDeletes
      <4>6. Fine(k)
        BY <4>1, <4>3, <4>5
      <4> QED
        BY <2>1, <4>6
    <3>5. CASE k - 1 \notin T \ P
      <4>1. q[k] = q[k - 1]
        BY <1>6, <3>3, <3>5 DEF Round
      <4>2. Rest(k) = Rest(k - 1)
        <5>1. \A i \in R : i \in Nat /\ i # k - 1
          BY <1>4, <1>5, <3>5
        <5>2. \A i \in R : i >= k <=> i >= k - 1
          BY <2>2, <5>1
        <5> QED
          BY <5>2
      <4>3. Fine(k)
        BY <3>2, <4>1, <4>2
      <4> QED
        BY <2>1, <4>3
    <3> QED
      BY <3>4, <3>5
  <2> QED
    BY <2>3, <2>4
<1>9. SLICES \in Entries
  BY <1>4 DEF Entries
<1>10. Rest(SLICES) = {}
  <2>1. \A i \in R : i \in Nat /\ i < SLICES
    BY <1>4, <1>5
  <2>2. \A i \in R : ~(i >= SLICES)
    BY <1>4, <2>1
  <2> QED
    BY <2>2
<1>11. QueueOK(q[SLICES], q0, w.s, {})
  <2>1. Fine(SLICES)
    BY <1>8, <1>9
  <2>2. Queued(f, {}) = {}
    BY DEF Queued
  <2> QED
    BY <1>10, <2>1, <2>2
<1>12. q[SLICES] \in [Bins -> Seq(Span)]
  BY <1>11 DEF QueueOK
<1> DEFINE r == q[SLICES]
<1> HIDE DEF r
<1>13. LET v == SetSpans(w, r) IN v \in Worlds /\ v.s = w.s /\ v.at = w.at /\ v.g = w.g /\ v.tld.spans = r
  BY <1>3, <1>12, SetSpansIs DEF r
<1> QED
  BY <1>1, <1>11, <1>13 DEF Unqueued, r

-----------------------------------------------------------------------------
(* Freeing and abandoning a segment.                                        *)

\* v has the entries of w, and its pages.
LEMMA SoundParts ==
  ASSUME NEW w, NEW v, NEW q0, NEW T, NEW P, NEW m, NEW m2, Sound(w, q0, T, P, m),
         v \in Worlds, v.s = w.s, v.g.slices = w.g.slices, MaskOK(v.g, InUse(w.g.slices, P)),
         v.g.kind = w.g.kind, v.g.used = w.g.used, v.g.orphans \subseteq P \ {0}, v.g.dirty = {},
         QueueOK(v.tld.spans, q0, w.s, Queued(w.g.slices, Before(v.g, T, P, m2)))
  PROVE  Sound(v, q0, T, P, m2)
<1>1. /\ w.g.kind \in {"NORMAL", "HUGE"}
      /\ TilesOK(w.g.slices, w.g.kind, T, P)
      /\ \A k \in T \ P : w.g.slices[k].block_size = 0
      /\ BlocksOK(w.g.slices, P, w.s) /\ w.g.used = Cardinality(P \ {0})
  BY DEF Sound, WorldOK
<1>2. Before(v.g, T, P, m2) \subseteq T \ P /\ (~InQueues(v.g) => Before(v.g, T, P, m2) = {})
  BY DEF Before
<1>3. WorldOK(v, q0, T, P, Before(v.g, T, P, m2))
  BY <1>1, <1>2 DEF WorldOK
<1> QED
  BY <1>1, <1>3 DEF Sound

\* The same segment with other counters.
SameSegment(w, v) ==
  /\ v \in Worlds /\ v.s = w.s /\ v.at = w.at /\ v.tld.spans = w.tld.spans
  /\ Same(w.g, v.g) /\ MasksEqual(w.g, v.g) /\ v.g.slices = w.g.slices

LEMMA SoundSame ==
  ASSUME NEW w, NEW v, NEW q0, NEW T, NEW P, NEW m, Sound(w, q0, T, P, m), SameSegment(w, v)
  PROVE  Sound(v, q0, T, P, m)
<1>1. /\ WorldOK(w, q0, T, P, Before(w.g, T, P, m)) /\ w.g.orphans \subseteq P \ {0}
  BY DEF Sound
<1>2. /\ QueueOK(w.tld.spans, q0, w.s, Queued(w.g.slices, Before(w.g, T, P, m)))
      /\ MaskOK(w.g, InUse(w.g.slices, P)) /\ w.g.dirty = {}
  BY <1>1 DEF WorldOK
<1>3. /\ v \in Worlds /\ v.s = w.s /\ v.tld.spans = w.tld.spans
      /\ Same(w.g, v.g) /\ MasksEqual(w.g, v.g) /\ v.g.slices = w.g.slices
  BY DEF SameSegment
<1>4. Before(v.g, T, P, m) = Before(w.g, T, P, m)
  BY <1>3 DEF Before, InQueues, Same
<1>5. MaskOK(v.g, InUse(w.g.slices, P))
  BY <1>2, <1>3, MasksEqualOK
<1>6. v.g.kind = w.g.kind /\ v.g.used = w.g.used /\ v.g.orphans \subseteq P \ {0} /\ v.g.dirty = {}
  BY <1>1, <1>2, <1>3 DEF Same
<1>7. QueueOK(v.tld.spans, q0, w.s, Queued(w.g.slices, Before(v.g, T, P, m)))
  BY <1>2, <1>3, <1>4
<1> QED
  BY <1>3, <1>5, <1>6, <1>7, SoundParts

LEMMA TrackSizeIs ==
  ASSUME NEW w \in Worlds, NEW n \in Int
  PROVE  SameSegment(w, TrackSize(w, n)) /\ TrackSize(w, n).g = w.g
<1> DEFINE t == w.tld
           c == t.count + n
           r == [t EXCEPT !.count = c]
           v == TrackSize(w, n)
<1>1. t \in TldRec /\ c \in Int /\ w.g \in SegRec
  BY WorldParts DEF TldRec
<1>2. v = [w EXCEPT !.tld = r]
  BY DEF TrackSize
<1> HIDE DEF t, c, v
<1>3. r \in TldRec /\ r.spans = t.spans
  BY <1>1 DEF TldRec
<1> HIDE DEF r
<1>4. v \in Worlds /\ v.s = w.s /\ v.at = w.at /\ v.tld = r /\ v.g = w.g
  BY <1>2, <1>3 DEF Worlds
<1> QED
  BY <1>1, <1>3, <1>4 DEF SameSegment, Same, MasksEqual, v, t

LEMMA UnreclaimIs ==
  ASSUME NEW w \in Worlds
  PROVE  SameSegment(w, Unreclaim(w))
<1>1. CASE ~w.g.was_reclaimed
  BY <1>1, WorldParts DEF Unreclaim, SameSegment, Same, MasksEqual
<1>2. CASE w.g.was_reclaimed
  <2> DEFINE t == w.tld
             c == t.reclaim_count - 1
             r == [t EXCEPT !.reclaim_count = c]
             h == [w.g EXCEPT !.was_reclaimed = FALSE]
             v == Unreclaim(w)
  <2>1. t \in TldRec /\ c \in Int /\ w.g \in SegRec
    BY WorldParts DEF TldRec
  <2>2. v = [w EXCEPT !.tld = r, !.g = h]
    BY <1>2 DEF Unreclaim
  <2> HIDE DEF t, c, v
  <2>3. r \in TldRec /\ r.spans = t.spans
    BY <2>1 DEF TldRec
  <2>4. h \in SegRec
    BY ZenonT(30), <2>1 DEF SegRec
  <2>5. Same(w.g, h) /\ MasksEqual(w.g, h) /\ h.slices = w.g.slices
    BY ZenonT(30), <2>1, <2>4 DEF SegRec, Same, MasksEqual
  <2> HIDE DEF r, h
  <2>6. v \in Worlds /\ v.s = w.s /\ v.at = w.at /\ v.tld = r /\ v.g = h
    BY ZenonT(30), <2>2, <2>3, <2>4 DEF Worlds
  <2> QED
    BY <2>3, <2>5, <2>6 DEF SameSegment, v, t
<1> QED
  BY <1>1, <1>2

LEMMA NoSegmentIs == NoSegment \in SegRec
<1> DEFINE f == [i \in Entries |-> Zeroed]
<1>1. f \in [Entries -> SliceRecord]
  <2>1. Zeroed \in SliceRecord
    BY DEF Zeroed, SliceRecord
  <2> QED
    BY <2>1
<1>2. NoSegment =
        [kind |-> "none", thread_id |-> NoThread, slices |-> f,
         used |-> 0, abandoned |-> 0, abandoned_visits |-> 0, was_reclaimed |-> FALSE,
         dont_free |-> FALSE, free_is_zero |-> FALSE, commit_mask |-> {}, purge_mask |-> {},
         purge_expire |-> UNSET, os |-> {}, orphans |-> {}, zero_init |-> {}, dirty |-> {}]
  BY DEF NoSegment
<1> HIDE DEF f
<1>3. UNSET \in UNSET .. LONGPASSED
  BY DEF UNSET, LONGPASSED
<1> QED
  BY <1>1, <1>2, <1>3 DEF SegRec

\* What a call of thread t leaves of the segment at s.
Ended(v, s, t, q0) ==
  /\ v \in Worlds /\ v.s = s
  /\ \/ /\ v.g = NoSegment /\ QueueOK(v.tld.spans, q0, s, {})
        /\ \A b \in blocks : b.seg # s
     \/ \E T, P :
          /\ Sound(v, q0, T, P, SLICES)
          /\ v.g.abandoned = Cardinality(v.g.orphans) /\ v.g.dont_free = FALSE
          /\ v.g.thread_id \in {t, NoThread}
          /\ v.g.thread_id = NoThread => v.g.used = v.g.abandoned
          /\ v.g.used = v.g.abandoned /\ v.g.used > 0 => v.g.thread_id = NoThread

LEMMA NoPages ==
  ASSUME NEW w, NEW q0, NEW T, NEW P, NEW m, Sound(w, q0, T, P, m)
  PROVE  /\ w.g.used = 0 => P = {0} /\ \A b \in blocks : b.seg # w.s
         /\ w.g.used # 0 /\ w.g.kind = "HUGE" => T \subseteq P
         /\ w.g.used \in Nat /\ w.g.orphans \subseteq P \ {0} /\ P \ {0} \subseteq Slices /\ IsFiniteSet(P \ {0})
<1>1. /\ WorldOK(w, q0, T, P, Before(w.g, T, P, m)) /\ BlocksOK(w.g.slices, P, w.s)
      /\ w.g.used = Cardinality(P \ {0}) /\ w.g.orphans \subseteq P \ {0}
  BY DEF Sound
<1>2. P \subseteq T /\ 0 \in P /\ T \subseteq Slices
  BY <1>1, WorldTypes
<1>3. IsFiniteSet(P \ {0}) /\ P \ {0} \subseteq Slices /\ w.g.used \in Nat
  BY <1>1, <1>2, PagesFinite
<1>4. w.g.used = 0 => P \ {0} = {}
  BY <1>1, <1>3, FS_EmptySet
<1>5. w.g.used # 0 => P \ {0} # {}
  BY <1>1, FS_EmptySet
<1>6. ASSUME w.g.used = 0 PROVE P = {0} /\ \A b \in blocks : b.seg # w.s
  <2>1. P = {0}
    BY <1>2, <1>4, <1>6
  <2>2. \A b \in blocks : b.seg = w.s => b.page \in P \ {0}
    BY <1>1, BlocksPages
  <2> QED
    BY <2>1, <2>2
<1>7. ASSUME w.g.used # 0, w.g.kind = "HUGE" PROVE T \subseteq P
  <2>1. \A k \in T : k \in {0, INFO}
    BY <1>1, <1>7 DEF WorldOK, TilesOK, SpanOK
  <2>2. INFO \in P
    BY <1>2, <1>5, <1>7, <2>1
  <2> QED
    BY <1>2, <2>1, <2>2
<1> QED
  BY <1>1, <1>3, <1>6, <1>7

Purged(w, force) == [w EXCEPT !.g = TryPurge(@, force)]

PurgedFrom(w, v, q0, T, P, m) ==
  Sound(v, q0, T, P, m) /\ Same(w.g, v.g) /\ v.at = w.at /\ v.s = w.s /\ v.g.slices = w.g.slices

LEMMA TryPurgeSound ==
  ASSUME NEW w, NEW q0, NEW T, NEW P, NEW m, Sound(w, q0, T, P, m), NEW force
  PROVE  PurgedFrom(w, Purged(w, force), q0, T, P, m)
<1> DEFINE h == TryPurge(w.g, force)
           v == Purged(w, force)
<1>1. WorldOK(w, q0, T, P, Before(w.g, T, P, m)) /\ w.g.orphans \subseteq P \ {0}
  BY DEF Sound
<1>2. /\ w \in Worlds /\ QueueOK(w.tld.spans, q0, w.s, Queued(w.g.slices, Before(w.g, T, P, m)))
      /\ MaskOK(w.g, InUse(w.g.slices, P)) /\ w.g.dirty = {}
  BY <1>1 DEF WorldOK
<1>3. w.g \in SegRec
  BY <1>2, WorldParts
<1>4. Same(w.g, h) /\ h.slices = w.g.slices /\ MaskOK(h, InUse(w.g.slices, P))
  BY <1>2, <1>3, TryPurgeOK
<1>5. v = SetSegment(w, h)
  BY DEF SetSegment, Purged
<1> HIDE DEF h, v
<1>6. v \in Worlds /\ v.s = w.s /\ v.at = w.at /\ v.tld = w.tld /\ v.g = h
  <2>1. h \in SegRec
    BY <1>4 DEF Same
  <2> QED
    BY <1>2, <1>5, <2>1, SetSegmentIs
<1>7. Before(v.g, T, P, m) = Before(w.g, T, P, m)
  BY <1>4, <1>6 DEF Before, InQueues, Same
<1>8. v.g.kind = w.g.kind /\ v.g.used = w.g.used /\ v.g.orphans \subseteq P \ {0} /\ v.g.dirty = {}
  BY <1>1, <1>2, <1>4, <1>6 DEF Same
<1>9. QueueOK(v.tld.spans, q0, w.s, Queued(w.g.slices, Before(v.g, T, P, m)))
  BY <1>2, <1>6, <1>7
<1>10. Sound(v, q0, T, P, m)
  <2>1. v.g.slices = w.g.slices /\ MaskOK(v.g, InUse(w.g.slices, P))
    BY <1>4, <1>6
  <2> QED
    BY <1>6, <1>8, <1>9, <2>1, SoundParts
<1> QED
  BY <1>4, <1>6, <1>10 DEF PurgedFrom, v

\* A segment without pages is given back (segment.c:1103).
LEMMA SegmentFreeOK ==
  ASSUME NEW w, NEW q0, NEW T, NEW P, Sound(w, q0, T, P, SLICES), w.g.used = 0, w.g.dont_free = FALSE, NEW t
  PROVE  Ended(SegmentFree(w), w.s, t, q0)
<1> DEFINE w1 == IF w.g.kind = "HUGE" THEN w ELSE Unqueue(w)
           w2 == Unreclaim(w1)
           w3 == TrackSize(w2, -1)
           v == SetSegment(w3, NoSegment)
<1>1. WorldOK(w, q0, T, P, Before(w.g, T, P, SLICES))
  BY DEF Sound
<1>2. w \in Worlds /\ w.g.kind \in {"NORMAL", "HUGE"} /\ w.g.dont_free = FALSE
  BY <1>1 DEF WorldOK
<1>3. w1 \in Worlds /\ w1.s = w.s /\ QueueOK(w1.tld.spans, q0, w.s, {})
  <2>1. CASE w.g.kind = "HUGE"
    <3>1. Queued(w.g.slices, Before(w.g, T, P, SLICES)) = {}
      BY <2>1 DEF Queued, Before, InQueues
    <3> QED
      BY <1>1, <2>1, <3>1 DEF WorldOK
  <2>2. CASE w.g.kind = "NORMAL"
    <3>1. Unqueued(w, Unqueue(w), q0)
      BY <2>2, UnqueueOK
    <3> QED
      BY <2>2, <3>1 DEF Unqueued
  <2> QED
    BY <1>2, <2>1, <2>2
<1>4. SegmentFree(w) = v
  BY <1>2 DEF SegmentFree, SetSegment
<1> HIDE DEF w1
<1>5. SameSegment(w1, w2)
  BY <1>3, UnreclaimIs
<1>6. w2 \in Worlds
  BY <1>5 DEF SameSegment
<1> HIDE DEF w2
<1>7. SameSegment(w2, w3)
  BY <1>6, TrackSizeIs
<1>8. w3 \in Worlds /\ w3.s = w.s /\ w3.tld.spans = w1.tld.spans
  BY <1>3, <1>5, <1>7 DEF SameSegment
<1> HIDE DEF w3
<1>9. v \in Worlds /\ v.s = w3.s /\ v.tld = w3.tld /\ v.g = NoSegment
  BY <1>8, NoSegmentIs, SetSegmentIs
<1> HIDE DEF v
<1>10. \A b \in blocks : b.seg # w.s
  BY ZenonT(30), NoPages
<1> QED
  BY <1>3, <1>4, <1>8, <1>9, <1>10 DEF Ended

\* The segment with thread_id 0 (segment.c:1147).
Disowned(w) == [w EXCEPT !.g.thread_id = NoThread, !.g.abandoned_visits = 1]

LEMMA DisownedIs ==
  ASSUME NEW w \in Worlds
  PROVE  LET v == Disowned(w)
         IN /\ v \in Worlds /\ v.s = w.s /\ v.at = w.at /\ v.tld = w.tld
            /\ MasksEqual(w.g, v.g) /\ v.g.slices = w.g.slices
            /\ v.g.kind = w.g.kind /\ v.g.thread_id = NoThread /\ v.g.used = w.g.used
            /\ v.g.abandoned = w.g.abandoned /\ v.g.dont_free = w.g.dont_free
            /\ v.g.orphans = w.g.orphans /\ v.g.dirty = w.g.dirty
<1> DEFINE g == w.g
           h1 == [g EXCEPT !.thread_id = NoThread]
           h == [h1 EXCEPT !.abandoned_visits = 1]
           v == Disowned(w)
<1>1. v = SetSegment(w, h)
  BY ZenonT(30) DEF Disowned, SetSegment
<1>2. g \in SegRec
  BY WorldParts
<1> HIDE DEF v, g
<1>3. /\ h1 \in SegRec /\ MasksEqual(g, h1) /\ h1.slices = g.slices
      /\ h1.kind = g.kind /\ h1.thread_id = NoThread /\ h1.used = g.used
      /\ h1.abandoned = g.abandoned /\ h1.dont_free = g.dont_free
      /\ h1.orphans = g.orphans /\ h1.dirty = g.dirty
  BY <1>2 DEF SegRec, MasksEqual
<1> HIDE DEF h1
<1>4. /\ h \in SegRec /\ MasksEqual(h1, h) /\ h.slices = h1.slices
      /\ h.kind = h1.kind /\ h.thread_id = h1.thread_id /\ h.used = h1.used
      /\ h.abandoned = h1.abandoned /\ h.dont_free = h1.dont_free
      /\ h.orphans = h1.orphans /\ h.dirty = h1.dirty
  BY <1>3 DEF SegRec, MasksEqual
<1> HIDE DEF h
<1>5. v \in Worlds /\ v.s = w.s /\ v.at = w.at /\ v.tld = w.tld /\ v.g = h
  BY <1>1, <1>4, SetSegmentIs
<1> QED
  BY <1>3, <1>4, <1>5 DEF MasksEqual, v, g

\* A segment with nothing but abandoned pages is left by its thread (segment.c:1121).
LEMMA SegmentAbandonOK ==
  ASSUME NEW w, NEW q0, NEW T, NEW P, Sound(w, q0, T, P, SLICES), w.g.abandoned = Cardinality(w.g.orphans),
         w.g.used = w.g.abandoned, w.g.used # 0, w.g.dont_free = FALSE, NEW t
  PROVE  Ended(SegmentAbandon(w), w.s, t, q0)
<1> DEFINE w0 == Unqueue(w)
           w1 == [w0 EXCEPT !.g = TryPurge(@, w.s \notin FromArena)]
           w2 == Disowned(w1)
           w3 == TrackSize(w2, -1)
           v == Unreclaim(w3)
<1>1. SegmentAbandon(w) = v
  BY DEF SegmentAbandon, Disowned
<1>2. WorldOK(w, q0, T, P, Before(w.g, T, P, SLICES)) /\ w.g.orphans \subseteq P \ {0}
  BY DEF Sound
<1>3. w.g.kind \in {"NORMAL", "HUGE"} /\ MaskOK(w.g, InUse(w.g.slices, P)) /\ w.g.dirty = {} /\ w \in Worlds
  BY <1>2 DEF WorldOK
<1>4. Unqueued(w, w0, q0)
  <2>1. w.g.kind = "NORMAL" \/ T \subseteq P
    BY ZenonT(40), <1>3, NoPages
  <2> QED
    BY <2>1, UnqueueOK
<1>5. w0 \in Worlds /\ w0.s = w.s /\ w0.g = w.g /\ QueueOK(w0.tld.spans, q0, w.s, {})
  BY <1>4 DEF Unqueued
<1> HIDE DEF w0
<1> DEFINE h == TryPurge(w0.g, w.s \notin FromArena)
<1>6. w1 = SetSegment(w0, h)
  BY DEF SetSegment
<1>7. w.g \in SegRec
  BY <1>3, WorldParts
<1>8. Same(w.g, h) /\ h.slices = w.g.slices /\ MaskOK(h, InUse(w.g.slices, P))
  BY <1>3, <1>5, <1>7, TryPurgeOK
<1> HIDE DEF h, w1
<1>9. w1 \in Worlds /\ w1.s = w.s /\ w1.tld = w0.tld /\ w1.g = h
  <2>1. h \in SegRec
    BY <1>8 DEF Same
  <2> QED
    BY <1>5, <1>6, <2>1, SetSegmentIs
<1>10. /\ w2 \in Worlds /\ w2.s = w1.s /\ w2.tld = w1.tld
       /\ MasksEqual(w1.g, w2.g) /\ w2.g.slices = w1.g.slices
       /\ w2.g.kind = w1.g.kind /\ w2.g.thread_id = NoThread /\ w2.g.used = w1.g.used
       /\ w2.g.abandoned = w1.g.abandoned /\ w2.g.dont_free = w1.g.dont_free
       /\ w2.g.orphans = w1.g.orphans /\ w2.g.dirty = w1.g.dirty
  BY <1>9, DisownedIs
<1> HIDE DEF w2
<1>11. SameSegment(w2, w3)
  BY <1>10, TrackSizeIs
<1>12. w3 \in Worlds
  BY <1>11 DEF SameSegment
<1> HIDE DEF w3
<1>13. SameSegment(w3, v)
  BY <1>12, UnreclaimIs
<1> HIDE DEF v
<1>14. /\ v \in Worlds /\ v.s = w.s /\ v.tld.spans = w0.tld.spans
       /\ v.g.slices = w.g.slices /\ v.g.kind = w.g.kind /\ v.g.thread_id = NoThread /\ v.g.used = w.g.used
       /\ v.g.abandoned = w.g.abandoned /\ v.g.dont_free = w.g.dont_free
       /\ v.g.orphans = w.g.orphans /\ v.g.dirty = w.g.dirty
  BY <1>8, <1>9, <1>10, <1>11, <1>13 DEF SameSegment, Same
<1>15. MasksEqual(h, v.g)
  BY <1>9, <1>10, <1>11, <1>13 DEF SameSegment, MasksEqual
<1>16. MaskOK(v.g, InUse(w.g.slices, P))
  BY <1>8, <1>15, MasksEqualOK
<1>17. Queued(w.g.slices, Before(v.g, T, P, SLICES)) = {}
  BY <1>14 DEF Queued, Before, InQueues
<1>18. v.g.orphans \subseteq P \ {0} /\ v.g.dirty = {} /\ QueueOK(v.tld.spans, q0, w.s, Queued(w.g.slices, Before(v.g, T, P, SLICES)))
  BY <1>2, <1>3, <1>5, <1>14, <1>17
<1>19. Sound(v, q0, T, P, SLICES)
  BY <1>14, <1>16, <1>18, SoundParts
<1> QED
  BY <1>1, <1>14, <1>19 DEF Ended

\* What a thread has when the call is done with a page.
Owns(w, q0, T, P, t) ==
  /\ Sound(w, q0, T, P, SLICES) /\ w.g.abandoned = Cardinality(w.g.orphans)
  /\ w.g.dont_free = FALSE /\ w.g.thread_id = t /\ t \in Threads

LEMMA StillOwns ==
  ASSUME NEW w, NEW q0, NEW T, NEW P, NEW t, Owns(w, q0, T, P, t), w.g.used = w.g.abandoned => w.g.used = 0
  PROVE  Ended(w, w.s, t, q0)
<1>1. w \in Worlds
  BY DEF Owns, Sound, WorldOK
<1>2. w.g.used \in Nat
  BY ZenonT(30), NoPages DEF Owns
<1>3. NoThread \notin Threads
  BY OptionsAssumption
<1> QED
  BY <1>1, <1>2, <1>3 DEF Ended, Owns

\* When a page is freed the segment is freed, abandoned, or kept (segment.c:1086).
LEMMA PageFreedOK ==
  ASSUME NEW w, NEW q0, NEW T, NEW P, NEW t, Owns(w, q0, T, P, t)
  PROVE  Ended(PageFreed(w), w.s, t, q0)
<1>1. CASE w.g.used = 0
  BY ZenonT(30), <1>1, SegmentFreeOK DEF Owns, PageFreed
<1>2. CASE w.g.used # 0 /\ w.g.used = w.g.abandoned
  BY ZenonT(30), <1>2, SegmentAbandonOK DEF Owns, PageFreed
<1>3. CASE w.g.used # 0 /\ w.g.used # w.g.abandoned
  <2> DEFINE v == Purged(w, FALSE)
  <2>1. PageFreed(w) = v
    BY <1>3 DEF PageFreed, Purged
  <2>2. PurgedFrom(w, v, q0, T, P, SLICES)
    BY ZenonT(30), TryPurgeSound DEF Owns
  <2> HIDE DEF v
  <2>3. Owns(v, q0, T, P, t) /\ v.s = w.s /\ v.g.used = w.g.used /\ v.g.abandoned = w.g.abandoned
    BY <2>2 DEF Owns, PurgedFrom, Same
  <2>4. Ended(v, v.s, t, q0)
    BY <1>3, <2>3, StillOwns
  <2> QED
    BY <2>1, <2>3, <2>4
<1> QED
  BY <1>1, <1>2, <1>3

\* The page at i is abandoned.
Orphaned(w, i) == [w EXCEPT !.g.abandoned = @ + 1, !.g.orphans = @ \cup {i}]

LEMMA OrphanedIs ==
  ASSUME NEW w \in Worlds, NEW i \in Slices
  PROVE  LET v == Orphaned(w, i)
         IN /\ v \in Worlds /\ v.s = w.s /\ v.at = w.at /\ v.tld = w.tld
            /\ MasksEqual(w.g, v.g) /\ v.g.slices = w.g.slices
            /\ v.g.kind = w.g.kind /\ v.g.thread_id = w.g.thread_id /\ v.g.used = w.g.used
            /\ v.g.abandoned = w.g.abandoned + 1 /\ v.g.dont_free = w.g.dont_free
            /\ v.g.orphans = w.g.orphans \cup {i} /\ v.g.dirty = w.g.dirty
<1> DEFINE g == w.g
           a == g.abandoned + 1
           o == g.orphans \cup {i}
           h1 == [g EXCEPT !.abandoned = a]
           h == [h1 EXCEPT !.orphans = o]
           v == Orphaned(w, i)
<1>1. v = SetSegment(w, h)
  BY ZenonT(30) DEF Orphaned, SetSegment
<1>2. g \in SegRec
  BY WorldParts
<1>3. a \in Int /\ o \in SUBSET Slices
  BY <1>2 DEF SegRec
<1> HIDE DEF v, g, a, o
<1>4. /\ h1 \in SegRec /\ MasksEqual(g, h1) /\ h1.slices = g.slices
      /\ h1.kind = g.kind /\ h1.thread_id = g.thread_id /\ h1.used = g.used
      /\ h1.abandoned = a /\ h1.dont_free = g.dont_free
      /\ h1.orphans = g.orphans /\ h1.dirty = g.dirty
  BY <1>2, <1>3 DEF SegRec, MasksEqual
<1> HIDE DEF h1
<1>5. /\ h \in SegRec /\ MasksEqual(h1, h) /\ h.slices = h1.slices
      /\ h.kind = h1.kind /\ h.thread_id = h1.thread_id /\ h.used = h1.used
      /\ h.abandoned = h1.abandoned /\ h.dont_free = h1.dont_free
      /\ h.orphans = o /\ h.dirty = h1.dirty
  BY <1>3, <1>4 DEF SegRec, MasksEqual
<1> HIDE DEF h
<1>6. v \in Worlds /\ v.s = w.s /\ v.at = w.at /\ v.tld = w.tld /\ v.g = h
  BY <1>1, <1>5, SetSegmentIs
<1> QED
  BY <1>4, <1>5, <1>6 DEF MasksEqual, v, g, a, o

OrphanedFrom(w, v, q0, T, P, m, i) ==
  /\ Sound(v, q0, T, P, m) /\ v.s = w.s /\ v.at = w.at /\ v.g.slices = w.g.slices
  /\ v.g.kind = w.g.kind /\ v.g.thread_id = w.g.thread_id /\ v.g.used = w.g.used
  /\ v.g.abandoned = w.g.abandoned + 1 /\ v.g.dont_free = w.g.dont_free
  /\ v.g.orphans = w.g.orphans \cup {i}

LEMMA OrphanedSound ==
  ASSUME NEW w, NEW q0, NEW T, NEW P, NEW m, Sound(w, q0, T, P, m), NEW i \in P, i # 0
  PROVE  OrphanedFrom(w, Orphaned(w, i), q0, T, P, m, i)
<1> DEFINE v == Orphaned(w, i)
<1>1. WorldOK(w, q0, T, P, Before(w.g, T, P, m)) /\ w.g.orphans \subseteq P \ {0}
  BY DEF Sound
<1>2. /\ w \in Worlds /\ QueueOK(w.tld.spans, q0, w.s, Queued(w.g.slices, Before(w.g, T, P, m)))
      /\ MaskOK(w.g, InUse(w.g.slices, P)) /\ w.g.dirty = {} /\ w.g.kind \in {"NORMAL", "HUGE"}
  BY <1>1 DEF WorldOK
<1>3. i \in Slices
  BY <1>1, WorldTypes
<1>4. /\ v \in Worlds /\ v.s = w.s /\ v.at = w.at /\ v.tld = w.tld
      /\ MasksEqual(w.g, v.g) /\ v.g.slices = w.g.slices
      /\ v.g.kind = w.g.kind /\ v.g.thread_id = w.g.thread_id /\ v.g.used = w.g.used
      /\ v.g.abandoned = w.g.abandoned + 1 /\ v.g.dont_free = w.g.dont_free
      /\ v.g.orphans = w.g.orphans \cup {i} /\ v.g.dirty = w.g.dirty
  BY <1>2, <1>3, OrphanedIs
<1> HIDE DEF v
<1>5. Before(v.g, T, P, m) = Before(w.g, T, P, m)
  BY <1>4 DEF Before, InQueues
<1>6. MaskOK(v.g, InUse(w.g.slices, P))
  BY <1>2, <1>4, MasksEqualOK
<1>7. v.g.orphans \subseteq P \ {0} /\ v.g.dirty = {}
  BY <1>1, <1>2, <1>4
<1>8. QueueOK(v.tld.spans, q0, w.s, Queued(w.g.slices, Before(v.g, T, P, m)))
  BY <1>2, <1>4, <1>5
<1>9. Sound(v, q0, T, P, m)
  BY <1>4, <1>6, <1>7, <1>8, SoundParts
<1> QED
  BY <1>4, <1>9 DEF OrphanedFrom, v

\* The last page of a thread takes its segment with it (segment.c:1162).
LEMMA AbandonPageOK ==
  ASSUME NEW w, NEW q0, NEW T, NEW P, NEW t, Owns(w, q0, T, P, t), NEW i \in P, i # 0, i \notin w.g.orphans
  PROVE  Ended(AbandonPage(w, i), w.s, t, q0)
<1> DEFINE v == Orphaned(w, i)
<1>1. AbandonPage(w, i) = IF v.g.used = v.g.abandoned THEN SegmentAbandon(v) ELSE v
  BY DEF AbandonPage, Orphaned
<1>2. OrphanedFrom(w, v, q0, T, P, SLICES, i)
  BY OrphanedSound DEF Owns
<1> HIDE DEF v
<1>3. w.g.orphans \subseteq Slices /\ i \in Slices
  <2>1. WorldOK(w, q0, T, P, Before(w.g, T, P, SLICES)) /\ w.g.orphans \subseteq P
    BY DEF Owns, Sound
  <2> QED
    BY <2>1, WorldTypes
<1>4. Cardinality(w.g.orphans \cup {i}) = Cardinality(w.g.orphans) + 1 /\ Cardinality(w.g.orphans) \in Nat
  BY <1>3, OneMore, PagesFinite
<1>5. Owns(v, q0, T, P, t) /\ v.s = w.s /\ v.g.abandoned # 0
  BY <1>2, <1>4 DEF Owns, OrphanedFrom
<1>6. CASE v.g.used = v.g.abandoned
  <2>1. Ended(SegmentAbandon(v), v.s, t, q0)
    BY ZenonT(30), <1>5, <1>6, SegmentAbandonOK DEF Owns
  <2> QED
    BY <1>1, <1>5, <1>6, <2>1
<1>7. CASE v.g.used # v.g.abandoned
  <2>1. Ended(v, v.s, t, q0)
    BY <1>5, <1>7, StillOwns
  <2> QED
    BY <1>1, <1>5, <1>7, <2>1
<1> QED
  BY <1>6, <1>7

-----------------------------------------------------------------------------
(* Pages of abandoned segments.                                             *)

\* What holds in J before a loop and is kept by its rounds holds after it.
LEMMA LoopKeeps ==
  ASSUME NEW loop, NEW w, NEW start, NEW l, IsLoop(loop, w, start, l), NEW J, <<0, start>> \in J,
         \A k \in 1 .. SLICES : \A p : <<k - 1, p>> \in J => <<k, Round(loop, w, k, p)>> \in J
  PROVE  <<SLICES, l[SLICES]>> \in J
<1> DEFINE Bad == {k \in Entries : <<k, l[k]>> \notin J}
<1>1. SLICES \in Nat
  BY SizesAssumption
<1>2. Bad = {}
  <2> SUFFICES ASSUME Bad # {} PROVE FALSE
    OBVIOUS
  <2>1. PICK k \in Bad : \A j \in Bad : k <= j
    <3>1. Bad \in SUBSET Nat
      BY <1>1 DEF Entries
    <3> HIDE DEF Bad
    <3> QED
      BY <3>1, LeastNat
  <2>2. k \in Entries /\ k \in Nat /\ k <= SLICES /\ <<k, l[k]>> \notin J
    BY <1>1, <2>1 DEF Entries
  <2>3. CASE k = 0
    <3>1. l[0] = start
      BY <2>2, <2>3 DEF IsLoop
    <3> QED
      BY <2>2, <2>3, <3>1
  <2>4. CASE k # 0
    <3>1. k - 1 \in Entries /\ k \in 1 .. SLICES
      BY <1>1, <2>2, <2>4 DEF Entries
    <3>2. <<k - 1, l[k - 1]>> \in J
      BY <2>1, <2>2, <2>4, <3>1
    <3>3. l[k] = Round(loop, w, k, l[k - 1])
      BY <2>2, <2>4 DEF IsLoop
    <3>4. <<k, Round(loop, w, k, l[k - 1])>> \in J
      BY <3>1, <3>2
    <3> QED
      BY <2>2, <3>3, <3>4
  <2> QED
    BY <2>3, <2>4
<1> QED
  BY <1>1, <1>2 DEF Entries

\* The world w, at another slice.
MovedTo(w, v, q0, T, P, m, i) ==
  Sound(v, q0, T, P, m) /\ v.g = w.g /\ v.s = w.s /\ v.tld = w.tld /\ v.at = i

LEMMA SetAtSound ==
  ASSUME NEW w, NEW q0, NEW T, NEW P, NEW m, Sound(w, q0, T, P, m), NEW i \in Nat
  PROVE  MovedTo(w, SetAt(w, i), q0, T, P, m, i)
<1> DEFINE v == SetAt(w, i)
<1>1. WorldOK(w, q0, T, P, Before(w.g, T, P, m)) /\ w.g.orphans \subseteq P \ {0}
  BY DEF Sound
<1>2. /\ w \in Worlds /\ QueueOK(w.tld.spans, q0, w.s, Queued(w.g.slices, Before(w.g, T, P, m)))
      /\ MaskOK(w.g, InUse(w.g.slices, P)) /\ w.g.dirty = {}
  BY <1>1 DEF WorldOK
<1>3. v \in Worlds /\ v.s = w.s /\ v.at = i /\ v.tld = w.tld /\ v.g = w.g
  BY <1>2, SetAtIs
<1> HIDE DEF v
<1>4. /\ QueueOK(v.tld.spans, q0, w.s, Queued(w.g.slices, Before(v.g, T, P, m)))
      /\ MaskOK(v.g, InUse(w.g.slices, P)) /\ v.g.dirty = {} /\ v.g.orphans \subseteq P \ {0}
  BY <1>1, <1>2, <1>3
<1>5. Sound(v, q0, T, P, m)
  BY <1>3, <1>4, SoundParts
<1> QED
  BY <1>3, <1>5 DEF MovedTo, v

\* A loop at a span goes on with the one behind it.
NextFrom(w, v, q0, T, P, m) ==
  /\ MovedTo(w, v, q0, T, P, m, w.at + w.g.slices[w.at].slice_count)
  /\ v.at \in Nat /\ w.at < v.at /\ (v.at \in T \/ v.at >= SLICES)

LEMMA NextOK ==
  ASSUME NEW w, NEW q0, NEW T, NEW P, NEW m, Sound(w, q0, T, P, m), w.at \in T
  PROVE  NextFrom(w, NextSpan(w), q0, T, P, m)
<1> DEFINE i == w.at + w.g.slices[w.at].slice_count
           v == SetAt(w, i)
<1>1. NextSpan(w) = v
  BY DEF NextSpan, SetAt
<1>2. WorldOK(w, q0, T, P, Before(w.g, T, P, m))
  BY DEF Sound
<1>3. w.at \in Nat /\ w.g.slices[w.at].slice_count \in Nat \ {0} /\ (i \in T \/ i >= SLICES)
  BY <1>2, WorldTypes
<1>4. i \in Nat /\ w.at < i
  BY <1>3
<1>5. MovedTo(w, v, q0, T, P, m, i)
  BY <1>4, SetAtSound
<1> HIDE DEF v
<1>6. v.at = i
  BY <1>5 DEF MovedTo
<1> QED
  BY <1>1, <1>3, <1>4, <1>5, <1>6 DEF NextFrom

StartsFrom(w, v, q0, T, P, m) ==
  Sound(v, q0, T, P, m) /\ v.g = w.g /\ v.s = w.s /\ v.tld = w.tld /\ v.at \in Nat
  /\ (v.at \in T \/ v.at >= SLICES) /\ v.at > 0 /\ \A k \in T : k < v.at => k = 0

LEMMA StartOK ==
  ASSUME NEW w, NEW q0, NEW T, NEW P, NEW m, Sound(w, q0, T, P, m), w.at = 0
  PROVE  StartsFrom(w, Start(w), q0, T, P, m)
<1> DEFINE i == w.g.slices[0].slice_count
           v == SetAt(w, i)
<1>2. WorldOK(w, q0, T, P, Before(w.g, T, P, m))
  BY DEF Sound
<1>3. 0 \in T /\ Tiled(w.g.slices, T) /\ T \subseteq Nat
  BY <1>2, WorldTypes
<1>4. i \in Nat \ {0} /\ (0 + i \in T \/ 0 + i >= SLICES)
  BY <1>2, <1>3, WorldTypes
<1>5. Start(w) = v
  BY <1>4 DEF Start, SetAt
<1>6. MovedTo(w, v, q0, T, P, m, i)
  BY <1>4, SetAtSound
<1>7. \A k \in T : k < i => k = 0
  <2> SUFFICES ASSUME NEW k \in T, k # 0 PROVE ~(k < i)
    OBVIOUS
  <2>1. 0 + i <= k
    BY <1>3, TiledApart
  <2> QED
    BY <1>3, <1>4, <2>1
<1> HIDE DEF v, i
<1> QED
  BY <1>4, <1>5, <1>6, <1>7 DEF MovedTo, StartsFrom

\* A segment that no thread owns: its pages are the abandoned ones.
Orphanage(x, q0, T, P) ==
  /\ Sound(x, q0, T, P, SLICES) /\ x.g.orphans = P \ {0} /\ x.g.abandoned = Cardinality(x.g.orphans)
  /\ x.g.dont_free = FALSE /\ x.g.thread_id = NoThread

OrphanageAt(k, x, s, q0) ==
  /\ x.s = s /\ x.at \in Nat \ {0} /\ k <= x.at
  /\ \E T, P : Orphanage(x, q0, T, P) /\ (x.at \in T \/ x.at >= SLICES)

\* One abandoned page less.
Unabandoned(w) == [w EXCEPT !.g.abandoned = @ - 1]

UnabandonedFrom(w, v, q0, T, P, m) ==
  /\ Sound(v, q0, T, P, m) /\ v.s = w.s /\ v.at = w.at
  /\ v.g.thread_id = w.g.thread_id /\ v.g.dont_free = w.g.dont_free /\ v.g.slices = w.g.slices
  /\ v.g.kind = w.g.kind /\ v.g.used = w.g.used
  /\ v.g.abandoned = w.g.abandoned - 1 /\ v.g.orphans = w.g.orphans

LEMMA UnabandonedSound ==
  ASSUME NEW w, NEW q0, NEW T, NEW P, NEW m, Sound(w, q0, T, P, m)
  PROVE  UnabandonedFrom(w, Unabandoned(w), q0, T, P, m)
<1> DEFINE g == w.g
           a == g.abandoned - 1
           h == [g EXCEPT !.abandoned = a]
           v == Unabandoned(w)
<1>1. v = SetSegment(w, h)
  BY DEF Unabandoned, SetSegment
<1>2. WorldOK(w, q0, T, P, Before(w.g, T, P, m)) /\ w.g.orphans \subseteq P \ {0}
  BY DEF Sound
<1>3. /\ w \in Worlds /\ QueueOK(w.tld.spans, q0, w.s, Queued(w.g.slices, Before(w.g, T, P, m)))
      /\ MaskOK(w.g, InUse(w.g.slices, P)) /\ w.g.dirty = {}
  BY <1>2 DEF WorldOK
<1>4. g \in SegRec
  BY <1>3, WorldParts
<1>5. a \in Int
  BY <1>4 DEF SegRec
<1> HIDE DEF v, g, a
<1>6. /\ h \in SegRec /\ MasksEqual(g, h) /\ h.slices = g.slices
      /\ h.kind = g.kind /\ h.thread_id = g.thread_id /\ h.used = g.used
      /\ h.abandoned = a /\ h.dont_free = g.dont_free
      /\ h.orphans = g.orphans /\ h.dirty = g.dirty
  BY <1>4, <1>5 DEF SegRec, MasksEqual
<1> HIDE DEF h
<1>7. v \in Worlds /\ v.s = w.s /\ v.at = w.at /\ v.tld = w.tld /\ v.g = h
  BY <1>1, <1>3, <1>6, SetSegmentIs
<1>8. Before(v.g, T, P, m) = Before(w.g, T, P, m)
  BY <1>6, <1>7 DEF Before, InQueues, g
<1>9. MaskOK(v.g, InUse(w.g.slices, P))
  BY <1>3, <1>6, <1>7, MasksEqualOK DEF g
<1>10. v.g.slices = w.g.slices /\ v.g.kind = w.g.kind /\ v.g.used = w.g.used /\ v.g.orphans \subseteq P \ {0} /\ v.g.dirty = {}
  BY <1>2, <1>3, <1>6, <1>7 DEF g
<1>11. QueueOK(v.tld.spans, q0, w.s, Queued(w.g.slices, Before(v.g, T, P, m)))
  BY <1>3, <1>7, <1>8
<1>12. Sound(v, q0, T, P, m)
  BY <1>7, <1>9, <1>10, <1>11, SoundParts
<1> QED
  BY <1>6, <1>7, <1>12 DEF UnabandonedFrom, v, g, a

\* One round of pa_segment_check_free.
LEMMA CheckSpanOK ==
  ASSUME NEW x, NEW s, NEW q0, NEW T, NEW P, Orphanage(x, q0, T, P), x.at \in T, x.at # 0, x.s = s
  PROVE  OrphanageAt(x.at + 1, CheckSpan(x), s, q0)
<1>0. SLICES \in Nat /\ x.at \in Nat
  <2>1. WorldOK(x, q0, T, P, Before(x.g, T, P, SLICES))
    BY DEF Orphanage, Sound
  <2> QED
    BY <2>1, WorldTypes
<1>1. CASE ~(IsUsed(x.g, x.at) /\ AllFree(x.s, x.at))
  <2> DEFINE v == NextSpan(x)
  <2>1. CheckSpan(x) = v
    BY <1>1 DEF CheckSpan
  <2>2. NextFrom(x, v, q0, T, P, SLICES)
    BY NextOK DEF Orphanage
  <2> HIDE DEF v
  <2>3. Orphanage(v, q0, T, P) /\ v.s = s /\ v.at \in Nat /\ x.at < v.at /\ (v.at \in T \/ v.at >= SLICES)
    BY ZenonT(30), <2>2 DEF NextFrom, MovedTo, Orphanage
  <2>4. x.at + 1 <= v.at /\ v.at \in Nat \ {0}
    BY <1>0, <2>3
  <2> QED
    BY <2>1, <2>3, <2>4 DEF OrphanageAt
<1>2. CASE IsUsed(x.g, x.at) /\ AllFree(x.s, x.at)
  <2> DEFINE i == x.at
             y == Unabandoned(x)
             z == PageClear(y, i)
             v == NextSpan(z)
  <2>1. CheckSpan(x) = v
    BY <1>2 DEF CheckSpan, Unabandoned
  <2>2. UnabandonedFrom(x, y, q0, T, P, SLICES)
    BY UnabandonedSound DEF Orphanage
  <2>3. i \in P
    BY <1>2, SoundSpans DEF Orphanage
  <2> HIDE DEF y
  <2>4. Sound(y, q0, T, P, SLICES) /\ AllFree(y.s, i)
    BY <1>2, <2>2 DEF UnabandonedFrom
  <2> HIDE DEF v
  <2>5. PICK lo, n : /\ Cleared(y, z, i, T, P, Before(y.g, T, P, SLICES), q0, lo, n)
                     /\ Follows(z, q0, T, P \ {i}, lo, n, SLICES)
    BY <1>0, <2>3, <2>4, ClearSound
  <2> HIDE DEF z
  <2> DEFINE U == NewT(T, lo, n)
             Q == P \ {i}
  <2>6. Sound(z, q0, U, Q, SLICES)
    BY <1>0, <2>5 DEF Follows
  <2>7. /\ z.at = lo /\ lo \in T /\ lo \in Nat /\ i \in Nat /\ i < lo + n /\ z.s = y.s
        /\ Fewer(y.g, z.g, i, y.g.used - 1) /\ z.g.slices[lo].slice_count = n /\ n \in Nat
    BY <1>0, <2>5 DEF Cleared
  <2>8. z.at \in U
    BY <2>7 DEF NewT
  <2> HIDE DEF U
  <2>9. NextFrom(z, v, q0, U, Q, SLICES)
    BY <2>6, <2>8, NextOK DEF v
  <2>10. /\ z.g.orphans = Q \ {0} /\ z.g.abandoned = Cardinality(z.g.orphans)
         /\ z.g.dont_free = FALSE /\ z.g.thread_id = NoThread
    <3>1. y.g.orphans = P \ {0} /\ y.g.abandoned = Cardinality(P \ {0}) - 1 /\ y.g.dont_free = FALSE /\ y.g.thread_id = NoThread
      BY <2>2 DEF UnabandonedFrom, Orphanage
    <3>2. (P \ {0}) \ {i} = Q \ {0}
      OBVIOUS
    <3>3. P \ {0} \subseteq Slices /\ i \in P \ {0}
      BY ZenonT(30), <2>3, <2>4, NoPages
    <3>4. Cardinality((P \ {0}) \ {i}) = Cardinality(P \ {0}) - 1
      BY <3>3, OneLess
    <3> QED
      BY <2>7, <3>1, <3>2, <3>4 DEF Fewer
  <2> HIDE DEF Q
  <2>11. Orphanage(v, q0, U, Q) /\ v.s = s /\ v.at \in Nat /\ v.at = lo + n /\ (v.at \in U \/ v.at >= SLICES)
    BY <2>2, <2>7, <2>9, <2>10 DEF NextFrom, MovedTo, Orphanage, UnabandonedFrom
  <2>12. x.at + 1 <= v.at /\ v.at \in Nat \ {0}
    BY <1>0, <2>7, <2>11
  <2> QED
    BY <2>1, <2>11, <2>12 DEF OrphanageAt
<1> QED
  BY <1>1, <1>2

\* The pages of an abandoned segment whose blocks were all freed are freed, and the
\* others left alone (segment.c:1197).
LEMMA CheckFreeOK ==
  ASSUME NEW w, NEW q0, NEW T, NEW P, Orphanage(w, q0, T, P), w.at = 0
  PROVE  \E U, Q : Orphanage(CheckFree(w), q0, U, Q) /\ CheckFree(w).s = w.s
<1> DEFINE s == w.s
           J == {e \in Entries \X Worlds : OrphanageAt(e[1], e[2], s, q0)}
<1>1. PICK l : IsLoop("check", w, Start(w), l) /\ CheckFree(w) = l[SLICES]
  BY CheckFreeBy
<1>2. SLICES \in Nat
  BY SizesAssumption
<1>3. \A k \in Entries : \A x : OrphanageAt(k, x, s, q0) => <<k, x>> \in J
  <2> SUFFICES ASSUME NEW k \in Entries, NEW x, OrphanageAt(k, x, s, q0) PROVE <<k, x>> \in J
    OBVIOUS
  <2>1. x \in Worlds
    BY DEF OrphanageAt, Orphanage, Sound, WorldOK
  <2> QED
    BY <2>1
<1>4. \A k, x : <<k, x>> \in J => OrphanageAt(k, x, s, q0)
  OBVIOUS
<1> HIDE DEF J, s
<1>5. <<0, Start(w)>> \in J
  <2>1. StartsFrom(w, Start(w), q0, T, P, SLICES)
    BY StartOK DEF Orphanage
  <2>2. OrphanageAt(0, Start(w), s, q0)
    BY <2>1 DEF StartsFrom, OrphanageAt, Orphanage, s
  <2>3. 0 \in Entries
    BY <1>2 DEF Entries
  <2> QED
    BY <1>3, <2>2, <2>3
<1>6. \A k \in 1 .. SLICES : \A p : <<k - 1, p>> \in J => <<k, Round("check", w, k, p)>> \in J
  <2> SUFFICES ASSUME NEW k \in 1 .. SLICES, NEW p, <<k - 1, p>> \in J
               PROVE  <<k, Round("check", w, k, p)>> \in J
    OBVIOUS
  <2>1. OrphanageAt(k - 1, p, s, q0)
    BY <1>4
  <2>2. k \in Entries /\ k \in Nat /\ k - 1 \in Nat /\ k - 1 < SLICES
    BY <1>2 DEF Entries
  <2>3. CASE p.at = k - 1
    <3>1. PICK U, Q : Orphanage(p, q0, U, Q) /\ (p.at \in U \/ p.at >= SLICES)
      BY <2>1 DEF OrphanageAt
    <3>2. p.at \in U
      BY <1>2, <2>2, <2>3, <3>1
    <3>3. p.at # 0 /\ p.s = s
      BY <2>1 DEF OrphanageAt
    <3>4. OrphanageAt(p.at + 1, CheckSpan(p), s, q0)
      BY <3>1, <3>2, <3>3, CheckSpanOK
    <3>5. OrphanageAt(k, CheckSpan(p), s, q0)
      BY <2>2, <2>3, <3>4
    <3> QED
      BY <1>3, <2>2, <2>3, <3>5 DEF Round
  <2>4. CASE p.at # k - 1
    <3>1. OrphanageAt(k, p, s, q0)
      BY <2>1, <2>2, <2>4 DEF OrphanageAt
    <3> QED
      BY <1>3, <2>2, <2>4, <3>1 DEF Round
  <2> QED
    BY <2>3, <2>4
<1>7. <<SLICES, l[SLICES]>> \in J
  BY <1>1, <1>5, <1>6, LoopKeeps
<1>8. OrphanageAt(SLICES, CheckFree(w), s, q0)
  BY <1>1, <1>4, <1>7
<1> QED
  BY <1>8 DEF OrphanageAt, s

-----------------------------------------------------------------------------
(* Reclaiming a segment.                                                    *)

LEMMA SoundMore ==
  ASSUME NEW w, NEW q0, NEW T, NEW P, NEW m, NEW m2, Sound(w, q0, T, P, m),
         \A k \in T \ P : k < m <=> k < m2
  PROVE  Sound(w, q0, T, P, m2)
<1>1. Before(w.g, T, P, m2) = Before(w.g, T, P, m)
  BY DEF Before
<1> QED
  BY <1>1 DEF Sound

\* A page is in a heap again: it is not abandoned any more.
Disorphaned(w, i) == [w EXCEPT !.g.abandoned = @ - 1, !.g.orphans = @ \ {i}]

DisorphanedFrom(w, v, q0, T, P, m, i) ==
  /\ Sound(v, q0, T, P, m) /\ v.s = w.s /\ v.at = w.at
  /\ v.g.thread_id = w.g.thread_id /\ v.g.dont_free = w.g.dont_free /\ v.g.slices = w.g.slices
  /\ v.g.kind = w.g.kind /\ v.g.used = w.g.used
  /\ v.g.abandoned = w.g.abandoned - 1 /\ v.g.orphans = w.g.orphans \ {i}

LEMMA DisorphanedSound ==
  ASSUME NEW w, NEW q0, NEW T, NEW P, NEW m, Sound(w, q0, T, P, m), NEW i
  PROVE  DisorphanedFrom(w, Disorphaned(w, i), q0, T, P, m, i)
<1> DEFINE g == w.g
           a == g.abandoned - 1
           o == g.orphans \ {i}
           h1 == [g EXCEPT !.abandoned = a]
           h == [h1 EXCEPT !.orphans = o]
           v == Disorphaned(w, i)
<1>1. v = SetSegment(w, h)
  BY ZenonT(30) DEF Disorphaned, SetSegment
<1>2. WorldOK(w, q0, T, P, Before(w.g, T, P, m)) /\ w.g.orphans \subseteq P \ {0}
  BY DEF Sound
<1>3. /\ w \in Worlds /\ QueueOK(w.tld.spans, q0, w.s, Queued(w.g.slices, Before(w.g, T, P, m)))
      /\ MaskOK(w.g, InUse(w.g.slices, P)) /\ w.g.dirty = {}
  BY <1>2 DEF WorldOK
<1>4. g \in SegRec
  BY <1>3, WorldParts
<1>5. a \in Int /\ o \in SUBSET Slices /\ o \subseteq P \ {0}
  BY <1>2, <1>4 DEF SegRec
<1> HIDE DEF v, g, a, o
<1>6. /\ h1 \in SegRec /\ MasksEqual(g, h1) /\ h1.slices = g.slices
      /\ h1.kind = g.kind /\ h1.thread_id = g.thread_id /\ h1.used = g.used
      /\ h1.abandoned = a /\ h1.dont_free = g.dont_free
      /\ h1.orphans = g.orphans /\ h1.dirty = g.dirty
  BY <1>4, <1>5 DEF SegRec, MasksEqual
<1> HIDE DEF h1
<1>7. /\ h \in SegRec /\ MasksEqual(h1, h) /\ h.slices = h1.slices
      /\ h.kind = h1.kind /\ h.thread_id = h1.thread_id /\ h.used = h1.used
      /\ h.abandoned = h1.abandoned /\ h.dont_free = h1.dont_free
      /\ h.orphans = o /\ h.dirty = h1.dirty
  BY <1>5, <1>6 DEF SegRec, MasksEqual
<1> HIDE DEF h
<1>8. v \in Worlds /\ v.s = w.s /\ v.at = w.at /\ v.tld = w.tld /\ v.g = h
  BY <1>1, <1>3, <1>7, SetSegmentIs
<1>9. Before(v.g, T, P, m) = Before(w.g, T, P, m)
  BY <1>6, <1>7, <1>8 DEF Before, InQueues, g
<1>10. MasksEqual(w.g, v.g)
  BY <1>6, <1>7, <1>8 DEF MasksEqual, g
<1>11. MaskOK(v.g, InUse(w.g.slices, P))
  BY <1>3, <1>10, MasksEqualOK
<1>12. v.g.slices = w.g.slices /\ v.g.kind = w.g.kind /\ v.g.used = w.g.used /\ v.g.orphans \subseteq P \ {0} /\ v.g.dirty = {}
  BY <1>3, <1>5, <1>6, <1>7, <1>8 DEF g
<1>13. QueueOK(v.tld.spans, q0, w.s, Queued(w.g.slices, Before(v.g, T, P, m)))
  BY <1>3, <1>8, <1>9
<1>14. Sound(v, q0, T, P, m)
  BY <1>8, <1>11, <1>12, <1>13, SoundParts
<1> QED
  BY <1>6, <1>7, <1>8, <1>14 DEF DisorphanedFrom, v, g, a, o

\* Thread t owns the segment and has taken the spans before x.at.
Taking(x, q0, T, P, t) ==
  /\ Sound(x, q0, T, P, x.at) /\ x.g.orphans = {k \in P \ {0} : k >= x.at}
  /\ x.g.abandoned = Cardinality(x.g.orphans)
  /\ x.g.dont_free = FALSE /\ x.g.thread_id = t

TakingAt(k, x, s, t, q0) ==
  /\ x.s = s /\ x.at \in Nat \ {0} /\ k <= x.at
  /\ \E T, P : Taking(x, q0, T, P, t) /\ (x.at \in T \/ x.at >= SLICES)

ReclaimedFrom(w, v, q0, T, P, t) ==
  /\ Sound(v, q0, T, P, 0) /\ v.s = w.s /\ v.at = 0 /\ v.g.orphans = w.g.orphans
  /\ v.g.abandoned = w.g.abandoned /\ v.g.dont_free = FALSE /\ v.g.thread_id = t

LEMMA ReclaimedSound ==
  ASSUME NEW w, NEW q0, NEW T, NEW P, Orphanage(w, q0, T, P), NEW t \in Threads
  PROVE  ReclaimedFrom(w, Reclaimed(w, t), q0, T, P, t)
<1> DEFINE g == w.g
           h1 == [g EXCEPT !.thread_id = t]
           h2 == [h1 EXCEPT !.abandoned_visits = 0]
           h == [h2 EXCEPT !.was_reclaimed = TRUE]
           r == [w.tld EXCEPT !.reclaim_count = @ + 1]
           w1 == SetSegment(w, h)
           w2 == [w1 EXCEPT !.tld = r]
           w3 == SetAt(w2, 0)
           v == Reclaimed(w, t)
<1>1. v = TrackSize(w3, 1)
  BY ZenonT(30) DEF Reclaimed, SetAt, SetSegment
<1>2. /\ WorldOK(w, q0, T, P, Before(w.g, T, P, SLICES)) /\ w.g.orphans \subseteq P \ {0}
      /\ Sound(w, q0, T, P, SLICES) /\ w.g.thread_id = NoThread /\ w.g.dont_free = FALSE
  BY DEF Orphanage, Sound
<1>3. /\ w \in Worlds /\ QueueOK(w.tld.spans, q0, w.s, Queued(w.g.slices, Before(w.g, T, P, SLICES)))
      /\ MaskOK(w.g, InUse(w.g.slices, P)) /\ w.g.dirty = {}
  BY <1>2 DEF WorldOK
<1>4. g \in SegRec /\ w.tld \in TldRec
  BY <1>3, WorldParts
<1>5. r \in TldRec /\ r.spans = w.tld.spans
  BY <1>4 DEF TldRec
<1> HIDE DEF v, g, r
<1>6. /\ h1 \in SegRec /\ MasksEqual(g, h1) /\ h1.slices = g.slices
      /\ h1.kind = g.kind /\ h1.thread_id = t /\ h1.used = g.used
      /\ h1.abandoned = g.abandoned /\ h1.dont_free = g.dont_free
      /\ h1.orphans = g.orphans /\ h1.dirty = g.dirty
  BY <1>4 DEF SegRec, MasksEqual
<1> HIDE DEF h1
<1>7. /\ h2 \in SegRec /\ MasksEqual(h1, h2) /\ h2.slices = h1.slices
      /\ h2.kind = h1.kind /\ h2.thread_id = h1.thread_id /\ h2.used = h1.used
      /\ h2.abandoned = h1.abandoned /\ h2.dont_free = h1.dont_free
      /\ h2.orphans = h1.orphans /\ h2.dirty = h1.dirty
  BY <1>6 DEF SegRec, MasksEqual
<1> HIDE DEF h2
<1>8. /\ h \in SegRec /\ MasksEqual(h2, h) /\ h.slices = h2.slices
      /\ h.kind = h2.kind /\ h.thread_id = h2.thread_id /\ h.used = h2.used
      /\ h.abandoned = h2.abandoned /\ h.dont_free = h2.dont_free
      /\ h.orphans = h2.orphans /\ h.dirty = h2.dirty
  BY ZenonT(30), <1>7 DEF SegRec, MasksEqual
<1> HIDE DEF h
<1>9. w1 \in Worlds /\ w1.s = w.s /\ w1.at = w.at /\ w1.tld = w.tld /\ w1.g = h
  BY <1>3, <1>8, SetSegmentIs
<1> HIDE DEF w1
<1>10. w2 \in Worlds /\ w2.s = w.s /\ w2.tld = r /\ w2.g = h
  BY <1>5, <1>9 DEF Worlds
<1> HIDE DEF w2
<1>11. w3 \in Worlds /\ w3.s = w.s /\ w3.at = 0 /\ w3.tld = r /\ w3.g = h
  BY <1>10, SetAtIs
<1> HIDE DEF w3
<1>12. SameSegment(w3, v) /\ v.g = w3.g
  BY <1>1, <1>11, TrackSizeIs
<1>13. /\ v \in Worlds /\ v.s = w.s /\ v.at = 0 /\ v.tld.spans = w.tld.spans /\ v.g = h
  BY <1>5, <1>11, <1>12 DEF SameSegment
<1>14. /\ v.g.slices = w.g.slices /\ v.g.kind = w.g.kind /\ v.g.used = w.g.used /\ v.g.orphans = w.g.orphans
       /\ v.g.abandoned = w.g.abandoned /\ v.g.dont_free = FALSE /\ v.g.thread_id = t /\ v.g.dirty = {}
  BY <1>2, <1>3, <1>6, <1>7, <1>8, <1>13 DEF g
<1>15. MasksEqual(w.g, v.g)
  BY <1>6, <1>7, <1>8, <1>13 DEF MasksEqual, g
<1>16. MaskOK(v.g, InUse(w.g.slices, P))
  BY <1>3, <1>15, MasksEqualOK
<1>17. Before(w.g, T, P, SLICES) = {} /\ Before(v.g, T, P, 0) = {}
  <2>1. T \subseteq Nat
    BY <1>2, WorldTypes
  <2> QED
    BY <1>2, <2>1 DEF Before, InQueues
<1>18. QueueOK(v.tld.spans, q0, w.s, Queued(w.g.slices, Before(v.g, T, P, 0))) /\ v.g.orphans \subseteq P \ {0}
  BY ZenonT(30), <1>2, <1>3, <1>13, <1>14, <1>17
<1>19. Sound(v, q0, T, P, 0)
  BY <1>2, <1>13, <1>14, <1>16, <1>18, SoundParts
<1> QED
  BY <1>13, <1>14, <1>19 DEF ReclaimedFrom, v

\* The pages from i on, without the one at i or when there is none.
CutAt(P, Q, i, lo, n) ==
  /\ P \subseteq Nat /\ i \in Nat /\ lo \in Nat /\ n \in Nat /\ lo <= i /\ i < lo + n
  /\ \A k \in Q : k < lo \/ k >= lo + n
  /\ Q = P \ {i}

Behind(P, i) == {k \in P \ {0} : k >= i}

LEMMA PagesBehind ==
  ASSUME NEW P, NEW Q, NEW i, NEW lo, NEW n, CutAt(P, Q, i, lo, n)
  PROVE  Behind(P, i) \ {i} = Behind(Q, lo + n)
<1> USE DEF CutAt
<1>1. \A k \in Q : k \in Nat /\ (k >= i <=> k >= lo + n)
  OBVIOUS
<1> QED
  BY ZenonT(30), <1>1 DEF Behind

\* The free span at x.at is merged and queued.
LEMMA ReclaimFree ==
  ASSUME NEW x, NEW s, NEW q0, NEW T, NEW P, NEW t, Taking(x, q0, T, P, t), x.at \in T, x.at # 0, x.s = s,
         ~IsUsed(x.g, x.at)
  PROVE  TakingAt(x.at + 1, ReclaimSpan(x), s, t, q0)
<1> DEFINE i == x.at
           z == SpanFreeCoalesce(x, i)
           v == NextSpan(z)
<1>1. ReclaimSpan(x) = v
  BY DEF ReclaimSpan
<1>2. Sound(x, q0, T, P, i)
  BY DEF Taking
<1>3. WorldOK(x, q0, T, P, Before(x.g, T, P, i))
  BY <1>2 DEF Sound
<1>4. SLICES \in Nat /\ i \in Nat /\ P \subseteq T /\ T \subseteq Nat
  BY <1>3, WorldTypes
<1>5. i \notin P
  BY <1>2, SoundSpans
<1>6. SoundBut(x, q0, T, P, i, i)
  <2>1. Before(x.g, T, P, i) \ {i} = Before(x.g, T, P, i)
    BY <1>4 DEF Before
  <2> QED
    BY <1>2, <2>1 DEF Sound, SoundBut
<1> HIDE DEF v, z
<1>7. PICK lo, n : /\ Coalesced(x, z, i, T, P, Before(x.g, T, P, i) \ {i}, q0, lo, n)
                   /\ Follows(z, q0, T, P, lo, n, i)
  BY ZenonT(30), <1>4, <1>5, <1>6, CoalesceSound DEF z
<1>8. /\ z.at = lo /\ lo \in T /\ lo \in Nat /\ lo <= i /\ i < lo + n /\ n \in Nat \ {0} /\ z.s = x.s
      /\ Same(x.g, z.g) /\ z.g.slices[lo].slice_count = n
      /\ \A k \in P : k < lo \/ k >= lo + n
  BY <1>7 DEF Coalesced
<1> DEFINE U == NewT(T, lo, n)
<1>9. Sound(z, q0, U, P, lo + n)
  BY <1>7, <1>8 DEF Follows
<1>10. z.at \in U
  BY <1>8 DEF NewT
<1> HIDE DEF U
<1>11. NextFrom(z, v, q0, U, P, lo + n)
  BY <1>9, <1>10, NextOK DEF v
<1>12. /\ Sound(v, q0, U, P, lo + n) /\ v.g = z.g /\ v.s = s /\ v.at = lo + n
       /\ v.at \in Nat /\ (v.at \in U \/ v.at >= SLICES)
  BY <1>8, <1>11 DEF NextFrom, MovedTo
<1>13. {k \in P \ {0} : k >= i} = {k \in P \ {0} : k >= lo + n}
  <2>1. CutAt(P, P, i, lo, n)
    BY <1>4, <1>5, <1>8 DEF CutAt
  <2>2. Behind(P, i) \ {i} = Behind(P, lo + n)
    BY <2>1, PagesBehind
  <2> QED
    BY <1>5, <2>2 DEF Behind
<1>14. Taking(v, q0, U, P, t)
  BY ZenonT(30), <1>8, <1>12, <1>13 DEF Taking, Same
<1>15. x.at + 1 <= v.at /\ v.at # 0
  BY <1>4, <1>8, <1>12
<1> QED
  BY <1>1, <1>12, <1>14, <1>15 DEF TakingAt

\* An abandoned page whose blocks were all freed is freed.
LEMMA ReclaimEmpty ==
  ASSUME NEW x, NEW s, NEW q0, NEW T, NEW P, NEW t, Taking(x, q0, T, P, t), x.at \in T, x.at # 0, x.s = s,
         IsUsed(x.g, x.at), AllFree(x.s, x.at)
  PROVE  TakingAt(x.at + 1, ReclaimSpan(x), s, t, q0)
<1> DEFINE i == x.at
           y == Disorphaned(x, i)
           z == PageClear(y, i)
           v == NextSpan(z)
           Q == P \ {i}
<1>1. ReclaimSpan(x) = v
  BY DEF ReclaimSpan, Disorphaned
<1>2. Sound(x, q0, T, P, i)
  BY DEF Taking
<1>3. WorldOK(x, q0, T, P, Before(x.g, T, P, i))
  BY <1>2 DEF Sound
<1>4. SLICES \in Nat /\ i \in Nat /\ P \subseteq T /\ T \subseteq Nat /\ P \subseteq Slices
  BY <1>3, WorldTypes
<1>5. i \in P
  BY <1>2, SoundSpans
<1> HIDE DEF v, z, y
<1>6. DisorphanedFrom(x, y, q0, T, P, i, i)
  BY <1>2, DisorphanedSound DEF y
<1>7. Sound(y, q0, T, P, i) /\ AllFree(y.s, i) /\ y.s = x.s
  BY <1>6 DEF DisorphanedFrom
<1>8. PICK lo, n : /\ Cleared(y, z, i, T, P, Before(y.g, T, P, i), q0, lo, n)
                   /\ Follows(z, q0, T, P \ {i}, lo, n, i)
  BY ZenonT(30), <1>4, <1>5, <1>7, ClearSound DEF z
<1>9. /\ z.at = lo /\ lo \in T /\ lo \in Nat /\ lo <= i /\ i < lo + n /\ n \in Nat \ {0} /\ z.s = y.s
      /\ Fewer(y.g, z.g, i, y.g.used - 1) /\ z.g.slices[lo].slice_count = n
      /\ \A k \in Q : k < lo \/ k >= lo + n
  BY <1>8 DEF Cleared
<1> DEFINE U == NewT(T, lo, n)
<1>10. Sound(z, q0, U, Q, lo + n)
  BY <1>8, <1>9 DEF Follows
<1>11. z.at \in U
  BY <1>9 DEF NewT
<1> HIDE DEF U
<1>12. NextFrom(z, v, q0, U, Q, lo + n)
  BY <1>10, <1>11, NextOK DEF v
<1>13. /\ Sound(v, q0, U, Q, lo + n) /\ v.g = z.g /\ v.s = s /\ v.at = lo + n
       /\ v.at \in Nat /\ (v.at \in U \/ v.at >= SLICES)
  BY <1>7, <1>9, <1>12 DEF NextFrom, MovedTo
<1>14. {k \in P \ {0} : k >= i} \ {i} = {k \in Q \ {0} : k >= lo + n}
  <2>1. CutAt(P, Q, i, lo, n)
    BY <1>4, <1>9 DEF CutAt
  <2> HIDE DEF Q
  <2> QED
    BY <2>1, PagesBehind DEF Behind
<1>15. /\ x.g.orphans = {k \in P \ {0} : k >= i} /\ x.g.abandoned = Cardinality(x.g.orphans)
       /\ x.g.dont_free = FALSE /\ x.g.thread_id = t
  BY DEF Taking
<1>16. i \in x.g.orphans /\ x.g.orphans \subseteq Slices
  <2>1. x.g.orphans \subseteq P
    BY <1>15
  <2>2. i >= i
    BY <1>4
  <2>3. i \in x.g.orphans
    BY <1>5, <1>15, <2>2
  <2> QED
    BY ZenonT(30), <1>4, <2>1, <2>3
<1>17. Cardinality(x.g.orphans \ {i}) = x.g.abandoned - 1
  BY <1>15, <1>16, OneLess
<1>18. /\ z.g.orphans = (x.g.orphans \ {i}) \ {i} /\ z.g.abandoned = x.g.abandoned - 1
       /\ z.g.dont_free = FALSE /\ z.g.thread_id = t
  BY <1>6, <1>9, <1>15 DEF DisorphanedFrom, Fewer
<1>19. z.g.orphans = x.g.orphans \ {i}
  BY <1>18
<1>20. Taking(v, q0, U, Q, t)
  BY ZenonT(40), <1>13, <1>14, <1>15, <1>17, <1>18, <1>19 DEF Taking
<1>21. x.at + 1 <= v.at /\ v.at # 0
  BY <1>4, <1>9, <1>13
<1> QED
  BY <1>1, <1>13, <1>20, <1>21 DEF TakingAt

\* The other pages are put in the heap of the thread.
LEMMA ReclaimPage ==
  ASSUME NEW x, NEW s, NEW q0, NEW T, NEW P, NEW t, Taking(x, q0, T, P, t), x.at \in T, x.at # 0, x.s = s,
         IsUsed(x.g, x.at), ~AllFree(x.s, x.at)
  PROVE  TakingAt(x.at + 1, ReclaimSpan(x), s, t, q0)
<1> DEFINE i == x.at
           y == Disorphaned(x, i)
           v == NextSpan(y)
           n == x.g.slices[i].slice_count
<1>1. ReclaimSpan(x) = v
  BY DEF ReclaimSpan, Disorphaned
<1>2. Sound(x, q0, T, P, i)
  BY DEF Taking
<1>3. WorldOK(x, q0, T, P, Before(x.g, T, P, i))
  BY <1>2 DEF Sound
<1>4. /\ SLICES \in Nat /\ i \in Nat /\ P \subseteq T /\ T \subseteq Nat /\ P \subseteq Slices
      /\ n \in Nat \ {0} /\ Tiled(x.g.slices, T)
  BY <1>3, WorldTypes
<1>5. i \in P
  BY <1>2, SoundSpans
<1> HIDE DEF v, y
<1>6. DisorphanedFrom(x, y, q0, T, P, i, i)
  BY <1>2, DisorphanedSound DEF y
<1>7. Sound(y, q0, T, P, i) /\ y.at = i /\ y.s = s /\ y.g.slices = x.g.slices
  BY <1>6 DEF DisorphanedFrom
<1>8. NextFrom(y, v, q0, T, P, i)
  BY <1>7, NextOK DEF v
<1>9. /\ Sound(v, q0, T, P, i) /\ v.g = y.g /\ v.s = s /\ v.at = i + n
      /\ v.at \in Nat /\ (v.at \in T \/ v.at >= SLICES)
  BY <1>7, <1>8 DEF NextFrom, MovedTo
<1>10. \A k \in T : k # i => (k < i <=> k < i + n)
  <2> SUFFICES ASSUME NEW k \in T, k # i PROVE k < i <=> k < i + n
    OBVIOUS
  <2>1. k \in Nat
    BY <1>4
  <2>2. i < k => i + n <= k
    BY <1>4, TiledApart
  <2> HIDE DEF i, n
  <2> QED
    BY <1>4, <2>1, <2>2
<1>11. Sound(v, q0, T, P, v.at)
  <2>1. \A k \in T \ P : k < i <=> k < v.at
    BY <1>5, <1>9, <1>10
  <2> QED
    BY <1>9, <2>1, SoundMore
<1>12. {k \in P \ {0} : k >= i} \ {i} = {k \in P \ {0} : k >= v.at}
  <2> DEFINE j == i + n
  <2>1. \A k \in P : (k \in Nat /\ (k < i <=> k < j)) \/ k = i
    BY <1>4, <1>10
  <2>2. j \in Nat /\ i < j /\ v.at = j
    BY <1>4, <1>9
  <2> HIDE DEF j, i
  <2>3. \A k \in P : (k >= i /\ k # i) <=> k >= j
    BY <1>4, <2>1, <2>2
  <2> QED
    BY <2>2, <2>3
<1>15. /\ x.g.orphans = {k \in P \ {0} : k >= i} /\ x.g.abandoned = Cardinality(x.g.orphans)
       /\ x.g.dont_free = FALSE /\ x.g.thread_id = t
  BY DEF Taking
<1>16. i \in x.g.orphans /\ x.g.orphans \subseteq Slices
  <2>1. x.g.orphans \subseteq P
    BY <1>15
  <2>2. i >= i
    BY <1>4
  <2>3. i \in x.g.orphans
    BY <1>5, <1>15, <2>2
  <2> QED
    BY ZenonT(30), <1>4, <2>1, <2>3
<1>17. Cardinality(x.g.orphans \ {i}) = x.g.abandoned - 1
  BY <1>15, <1>16, OneLess
<1>18. /\ v.g.orphans = x.g.orphans \ {i} /\ v.g.abandoned = x.g.abandoned - 1
       /\ v.g.dont_free = FALSE /\ v.g.thread_id = t
  BY <1>6, <1>9, <1>15 DEF DisorphanedFrom
<1>20. Taking(v, q0, T, P, t)
  BY <1>11, <1>12, <1>15, <1>17, <1>18 DEF Taking
<1>21. x.at + 1 <= v.at /\ v.at # 0
  BY <1>4, <1>9
<1> QED
  BY <1>1, <1>9, <1>20, <1>21 DEF TakingAt

\* One round of pa_segment_reclaim.
LEMMA ReclaimSpanOK ==
  ASSUME NEW x, NEW s, NEW q0, NEW T, NEW P, NEW t, Taking(x, q0, T, P, t), x.at \in T, x.at # 0, x.s = s
  PROVE  TakingAt(x.at + 1, ReclaimSpan(x), s, t, q0)
BY ReclaimFree, ReclaimEmpty, ReclaimPage

\* A segment that is reclaimed has its free spans in the queues of the thread, and
\* its pages in the thread's heaps (segment.c:1218).
LEMMA SegmentReclaimOK ==
  ASSUME NEW w, NEW q0, NEW T, NEW P, Orphanage(w, q0, T, P), NEW t \in Threads
  PROVE  Ended(SegmentReclaim(w, t), w.s, t, q0)
<1> DEFINE s == w.s
           w0 == Reclaimed(w, t)
           J == {e \in Entries \X Worlds : TakingAt(e[1], e[2], s, t, q0)}
<1>1. PICK l : /\ IsLoop("reclaim", w, Start(w0), l)
               /\ SegmentReclaim(w, t) = IF l[SLICES].g.used = 0 THEN SegmentFree(l[SLICES]) ELSE l[SLICES]
  BY ReclaimBy
<1>2. SLICES \in Nat
  BY SizesAssumption
<1>3. \A k \in Entries : \A x : TakingAt(k, x, s, t, q0) => <<k, x>> \in J
  <2> SUFFICES ASSUME NEW k \in Entries, NEW x, TakingAt(k, x, s, t, q0) PROVE <<k, x>> \in J
    OBVIOUS
  <2>1. x \in Worlds
    BY DEF TakingAt, Taking, Sound, WorldOK
  <2> QED
    BY <2>1
<1>4. \A k, x : <<k, x>> \in J => TakingAt(k, x, s, t, q0)
  OBVIOUS
<1> HIDE DEF J, w0
<1>5. <<0, Start(w0)>> \in J
  <2> DEFINE v == Start(w0)
  <2>1. ReclaimedFrom(w, w0, q0, T, P, t)
    BY ReclaimedSound DEF w0
  <2>2. Sound(w0, q0, T, P, 0) /\ w0.at = 0
    BY <2>1 DEF ReclaimedFrom
  <2> HIDE DEF v
  <2>3. StartsFrom(w0, v, q0, T, P, 0)
    BY <2>2, StartOK DEF v
  <2>4. WorldOK(w0, q0, T, P, Before(w0.g, T, P, 0))
    BY <2>2 DEF Sound
  <2>5. 0 \in P /\ P \subseteq T /\ T \subseteq Nat
    BY <2>4, WorldTypes
  <2>6. Sound(v, q0, T, P, v.at)
    <3>1. \A k \in T \ P : k < 0 <=> k < v.at
      BY <2>3, <2>5 DEF StartsFrom
    <3> QED
      BY <2>3, <3>1, SoundMore DEF StartsFrom
  <2>7. v.g.orphans = P \ {0} /\ v.g.abandoned = Cardinality(P \ {0}) /\ v.g.dont_free = FALSE /\ v.g.thread_id = t /\ v.s = s
    BY <2>1, <2>3 DEF StartsFrom, ReclaimedFrom, Orphanage
  <2>8. P \ {0} = {k \in P \ {0} : k >= v.at}
    <3>1. v.at \in Nat /\ \A k \in T : k < v.at => k = 0
      BY <2>3 DEF StartsFrom
    <3>2. \A k \in P \ {0} : k >= v.at
      BY <2>5, <3>1
    <3> QED
      BY <3>2
  <2>9. Taking(v, q0, T, P, t)
    BY <2>6, <2>7, <2>8 DEF Taking
  <2>10. TakingAt(0, v, s, t, q0)
    BY <2>3, <2>7, <2>9 DEF StartsFrom, TakingAt
  <2>11. 0 \in Entries
    BY <1>2 DEF Entries
  <2> QED
    BY <1>3, <2>10, <2>11 DEF v
<1>6. \A k \in 1 .. SLICES : \A p : <<k - 1, p>> \in J => <<k, Round("reclaim", w, k, p)>> \in J
  <2> SUFFICES ASSUME NEW k \in 1 .. SLICES, NEW p, <<k - 1, p>> \in J
               PROVE  <<k, Round("reclaim", w, k, p)>> \in J
    OBVIOUS
  <2>1. TakingAt(k - 1, p, s, t, q0)
    BY <1>4
  <2>2. k \in Entries /\ k \in Nat /\ k - 1 \in Nat /\ k - 1 < SLICES
    BY <1>2 DEF Entries
  <2>3. CASE p.at = k - 1
    <3>1. PICK U, Q : Taking(p, q0, U, Q, t) /\ (p.at \in U \/ p.at >= SLICES)
      BY <2>1 DEF TakingAt
    <3>2. p.at \in U
      BY <1>2, <2>2, <2>3, <3>1
    <3>3. p.at # 0 /\ p.s = s
      BY <2>1 DEF TakingAt
    <3>4. TakingAt(p.at + 1, ReclaimSpan(p), s, t, q0)
      BY <3>1, <3>2, <3>3, ReclaimSpanOK
    <3>5. TakingAt(k, ReclaimSpan(p), s, t, q0)
      BY <2>2, <2>3, <3>4
    <3> QED
      BY <1>3, <2>2, <2>3, <3>5 DEF Round
  <2>4. CASE p.at # k - 1
    <3>1. TakingAt(k, p, s, t, q0)
      BY <2>1, <2>2, <2>4 DEF TakingAt
    <3> QED
      BY <1>3, <2>2, <2>4, <3>1 DEF Round
  <2> QED
    BY <2>3, <2>4
<1>7. <<SLICES, l[SLICES]>> \in J
  BY <1>1, <1>5, <1>6, LoopKeeps
<1> DEFINE x == l[SLICES]
<1>8. TakingAt(SLICES, x, s, t, q0)
  BY <1>4, <1>7
<1> HIDE DEF x
<1>9. PICK U, Q : Taking(x, q0, U, Q, t)
  BY <1>8 DEF TakingAt
<1>10. x.at \in Nat /\ x.at >= SLICES /\ x.s = s
  BY <1>2, <1>8 DEF TakingAt
<1>11. Sound(x, q0, U, Q, x.at)
  BY <1>9 DEF Taking
<1>12. Q \subseteq U /\ U \subseteq Nat /\ \A k \in U : k < SLICES
  <2>1. WorldOK(x, q0, U, Q, Before(x.g, U, Q, x.at))
    BY <1>11 DEF Sound
  <2> QED
    BY <2>1, WorldTypes
<1>13. Sound(x, q0, U, Q, SLICES)
  <2>1. \A k \in U \ Q : k < x.at <=> k < SLICES
    BY <1>2, <1>10, <1>12
  <2> QED
    BY <1>11, <2>1, SoundMore
<1>14. x.g.orphans = {}
  <2>1. \A k \in Q : ~(k >= x.at)
    BY <1>2, <1>10, <1>12
  <2> QED
    BY <1>9, <2>1 DEF Taking
<1>15. Owns(x, q0, U, Q, t) /\ x.g.abandoned = 0
  BY <1>9, <1>13, <1>14, FS_EmptySet DEF Taking, Owns
<1>16. CASE x.g.used = 0
  <2>1. Ended(SegmentFree(x), x.s, t, q0)
    BY ZenonT(30), <1>15, <1>16, SegmentFreeOK DEF Owns
  <2> QED
    BY <1>1, <1>10, <1>16, <2>1 DEF x
<1>17. CASE x.g.used # 0
  <2>1. Ended(x, x.s, t, q0)
    BY <1>15, <1>17, StillOwns
  <2> QED
    BY <1>1, <1>10, <1>17, <2>1 DEF x
<1> QED
  BY <1>16, <1>17

-----------------------------------------------------------------------------
(* Abandoning every page of a segment.                                      *)

\* With dont_free set a segment is not freed by the loop over its spans.
Marked(w, b) == [w EXCEPT !.g.dont_free = b]

MarkedFrom(w, v, q0, T, P, m, b) ==
  /\ Sound(v, q0, T, P, m) /\ v.s = w.s /\ v.at = w.at
  /\ v.g.thread_id = w.g.thread_id /\ v.g.dont_free = b /\ v.g.slices = w.g.slices
  /\ v.g.kind = w.g.kind /\ v.g.used = w.g.used
  /\ v.g.abandoned = w.g.abandoned /\ v.g.orphans = w.g.orphans

LEMMA MarkedSound ==
  ASSUME NEW w, NEW q0, NEW T, NEW P, NEW m, Sound(w, q0, T, P, m), NEW b \in BOOLEAN
  PROVE  MarkedFrom(w, Marked(w, b), q0, T, P, m, b)
<1> DEFINE g == w.g
           h == [g EXCEPT !.dont_free = b]
           v == Marked(w, b)
<1>1. v = SetSegment(w, h)
  BY DEF Marked, SetSegment
<1>2. WorldOK(w, q0, T, P, Before(w.g, T, P, m)) /\ w.g.orphans \subseteq P \ {0}
  BY DEF Sound
<1>3. /\ w \in Worlds /\ QueueOK(w.tld.spans, q0, w.s, Queued(w.g.slices, Before(w.g, T, P, m)))
      /\ MaskOK(w.g, InUse(w.g.slices, P)) /\ w.g.dirty = {}
  BY <1>2 DEF WorldOK
<1>4. g \in SegRec
  BY <1>3, WorldParts
<1> HIDE DEF v, g
<1>6. /\ h \in SegRec /\ MasksEqual(g, h) /\ h.slices = g.slices
      /\ h.kind = g.kind /\ h.thread_id = g.thread_id /\ h.used = g.used
      /\ h.abandoned = g.abandoned /\ h.dont_free = b
      /\ h.orphans = g.orphans /\ h.dirty = g.dirty
  BY <1>4 DEF SegRec, MasksEqual
<1> HIDE DEF h
<1>7. v \in Worlds /\ v.s = w.s /\ v.at = w.at /\ v.tld = w.tld /\ v.g = h
  BY <1>1, <1>3, <1>6, SetSegmentIs
<1>8. Before(v.g, T, P, m) = Before(w.g, T, P, m)
  BY <1>6, <1>7 DEF Before, InQueues, g
<1>9. MaskOK(v.g, InUse(w.g.slices, P))
  BY <1>3, <1>6, <1>7, MasksEqualOK DEF g
<1>10. v.g.slices = w.g.slices /\ v.g.kind = w.g.kind /\ v.g.used = w.g.used /\ v.g.orphans \subseteq P \ {0} /\ v.g.dirty = {}
  BY <1>2, <1>3, <1>6, <1>7 DEF g
<1>11. QueueOK(v.tld.spans, q0, w.s, Queued(w.g.slices, Before(v.g, T, P, m)))
  BY <1>3, <1>7, <1>8
<1>12. Sound(v, q0, T, P, m)
  BY <1>7, <1>9, <1>10, <1>11, SoundParts
<1> QED
  BY <1>6, <1>7, <1>12 DEF MarkedFrom, v, g

LEMMA ForceAbandonBy ==
  ASSUME NEW w
  PROVE  \E l : /\ IsLoop("force", w, Start(w), l)
                /\ l = [k \in Entries |->
                          IF k = 0 THEN Start(w)
                          ELSE IF l[k - 1].at = k - 1 THEN ForceAbandonSpan(l[k - 1]) ELSE l[k - 1]]
<1>1. PICK a : IsLoop("force", w, Start(w), a)
  BY LoopExists
<1>2. a = [k \in Entries |->
             IF k = 0 THEN Start(w) ELSE IF a[k - 1].at = k - 1 THEN ForceAbandonSpan(a[k - 1]) ELSE a[k - 1]]
  BY <1>1 DEF IsLoop, Round
<1> QED
  BY <1>1, <1>2

\* The pages before i.
Ahead(P, i) == {k \in P \ {0} : k < i}

\* Thread t has abandoned the pages before x.at, and there are others.
Forcing(x, q0, T, P, t) ==
  /\ Sound(x, q0, T, P, SLICES) /\ x.g.thread_id = t /\ x.g.dont_free = TRUE
  /\ x.g.orphans = Ahead(P, x.at) /\ x.g.abandoned = Cardinality(x.g.orphans)
  /\ x.g.used # x.g.abandoned

ForcingAt(k, x, s, t, q0) ==
  /\ x.s = s /\ x.at \in Nat \ {0} /\ k <= x.at
  /\ \/ \E T, P : Forcing(x, q0, T, P, t) /\ (x.at \in T \/ x.at >= SLICES)
     \/ x.at = SLICES /\ Ended(x, s, t, q0)

LEMMA PagesAhead ==
  ASSUME NEW P, NEW Q, NEW i, NEW lo, NEW n, CutAt(P, Q, i, lo, n)
  PROVE  Ahead(P, i) = Ahead(Q, lo + n) /\ Ahead(P, i) \ {i} = Ahead(P, i)
<1> USE DEF CutAt
<1>1. \A k \in Q : k \in Nat /\ (k < i <=> k < lo + n)
  OBVIOUS
<1>2. ~(i < i)
  OBVIOUS
<1> QED
  BY ZenonT(30), <1>1, <1>2 DEF Ahead

\* How the loop goes on from the span at i, which is not merged.
LEMMA PastSpan ==
  ASSUME NEW f, NEW T, Tiled(f, T), NEW P, P \subseteq T, NEW i \in T
  PROVE  /\ i \notin P => Ahead(P, i + f[i].slice_count) = Ahead(P, i)
         /\ i \in P /\ i # 0 => Ahead(P, i + f[i].slice_count) = Ahead(P, i) \cup {i}
<1> DEFINE j == i + f[i].slice_count
<1>1. T \subseteq Nat /\ i \in Nat /\ f[i].slice_count \in Nat \ {0}
  BY SizesAssumption DEF Tiled, Slices
<1>2. \A k \in T : i < k => j <= k
  BY TiledApart
<1>3. j \in Nat /\ i < j
  BY <1>1
<1> HIDE DEF j
<1>4. \A k \in T : k \in Nat /\ (k < j <=> k < i \/ k = i)
  BY <1>1, <1>2, <1>3
<1>5. \A k \in P : k < j <=> k < i \/ k = i
  BY <1>4
<1> QED
  BY <1>3, <1>5 DEF Ahead, j

\* A world at an end is at an end anywhere.
LEMMA EndedAt ==
  ASSUME NEW w, NEW s, NEW t, NEW q0, Ended(w, s, t, q0), NEW i \in Nat
  PROVE  Ended(SetAt(w, i), s, t, q0) /\ SetAt(w, i).at = i /\ SetAt(w, i).s = s
<1> DEFINE v == SetAt(w, i)
<1>1. w \in Worlds /\ w.s = s
  BY DEF Ended
<1>2. v \in Worlds /\ v.s = w.s /\ v.at = i /\ v.tld = w.tld /\ v.g = w.g
  BY <1>1, SetAtIs
<1>3. \A T, P : Sound(w, q0, T, P, SLICES) => Sound(v, q0, T, P, SLICES)
  BY SetAtSound DEF MovedTo
<1> HIDE DEF v
<1>4. CASE w.g = NoSegment /\ QueueOK(w.tld.spans, q0, s, {}) /\ \A b \in blocks : b.seg # s
  BY <1>1, <1>2, <1>4 DEF Ended, v
<1>5. CASE \E T, P :
          /\ Sound(w, q0, T, P, SLICES)
          /\ w.g.abandoned = Cardinality(w.g.orphans) /\ w.g.dont_free = FALSE
          /\ w.g.thread_id \in {t, NoThread}
          /\ w.g.thread_id = NoThread => w.g.used = w.g.abandoned
          /\ w.g.used = w.g.abandoned /\ w.g.used > 0 => w.g.thread_id = NoThread
  <2>1. PICK T, P :
          /\ Sound(w, q0, T, P, SLICES)
          /\ w.g.abandoned = Cardinality(w.g.orphans) /\ w.g.dont_free = FALSE
          /\ w.g.thread_id \in {t, NoThread}
          /\ w.g.thread_id = NoThread => w.g.used = w.g.abandoned
          /\ w.g.used = w.g.abandoned /\ w.g.used > 0 => w.g.thread_id = NoThread
    BY <1>5
  <2>2. Sound(v, q0, T, P, SLICES)
    BY <1>3, <2>1
  <2> QED
    BY <1>1, <1>2, <2>1, <2>2 DEF Ended, v
<1> QED
  BY ZenonT(30), <1>1, <1>2, <1>4, <1>5 DEF Ended, v

LEMMA ForceFacts ==
  ASSUME NEW x, NEW q0, NEW T, NEW P, NEW t, Forcing(x, q0, T, P, t), x.at \in T, x.at # 0
  PROVE  /\ SLICES \in Nat /\ x.at \in Nat /\ P \subseteq T /\ T \subseteq Nat /\ P \subseteq Slices
         /\ Tiled(x.g.slices, T) /\ x.g.slices[x.at].slice_count \in Nat \ {0}
         /\ (IsUsed(x.g, x.at) <=> x.at \in P)
         /\ x.g.used \in Nat /\ x.g.abandoned \in Nat /\ x.g.abandoned < x.g.used
         /\ x.g.orphans \subseteq Slices /\ x.at \notin x.g.orphans /\ x.g.slices[x.at].slice_offset = 0
<1> USE DEF Forcing
<1>1. WorldOK(x, q0, T, P, Before(x.g, T, P, SLICES)) /\ x.g.used = Cardinality(P \ {0})
  BY DEF Sound
<1>2. /\ SLICES \in Nat /\ x.at \in Nat /\ P \subseteq T /\ T \subseteq Nat /\ P \subseteq Slices
      /\ Tiled(x.g.slices, T) /\ x.g.slices[x.at].slice_count \in Nat \ {0}
  BY <1>1, WorldTypes
<1>3. IsUsed(x.g, x.at) <=> x.at \in P
  BY SoundSpans
<1>4. x.g.used \in Nat /\ x.g.orphans \subseteq P \ {0} /\ IsFiniteSet(P \ {0})
  BY NoPages
<1>5. Cardinality(x.g.orphans) \in Nat /\ Cardinality(x.g.orphans) <= Cardinality(P \ {0})
  BY <1>4, FS_Subset, FS_CardinalityType
<1>6. x.g.abandoned \in Nat /\ x.g.abandoned < x.g.used
  BY <1>1, <1>4, <1>5
<1>7. x.at \notin x.g.orphans
  BY <1>2 DEF Ahead
<1>8. x.g.slices[x.at].slice_offset = 0
  BY <1>1 DEF WorldOK, TilesOK, SpanOK
<1> QED
  BY ZenonT(30), <1>2, <1>3, <1>4, <1>6, <1>7, <1>8

\* The last page: with it the segment is freed or abandoned, and the loop ends.
LEMMA ForceLast ==
  ASSUME NEW x, NEW s, NEW q0, NEW T, NEW P, NEW t \in Threads, Forcing(x, q0, T, P, t),
         x.at \in T, x.at # 0, x.s = s, IsUsed(x.g, x.at), x.g.used = x.g.abandoned + 1
  PROVE  ForcingAt(SLICES, ForceAbandonSpan(x), s, t, q0)
<1> DEFINE i == x.at
           y == Marked(x, FALSE)
           v == IF AllFree(x.s, i) THEN PageFreed(PageClear(y, i)) ELSE AbandonPage(y, i)
<1>1. ForceAbandonSpan(x) = SetAt(v, SLICES)
  <2>1. y = [x EXCEPT !.g.dont_free = ~(x.g.used = x.g.abandoned + 1)]
    BY ZenonT(30) DEF Marked
  <2> QED
    BY ZenonT(30), <2>1 DEF ForceAbandonSpan, SetAt
<1>2. /\ SLICES \in Nat \ {0} /\ i \in Nat /\ i \in P /\ P \subseteq Slices /\ i \notin x.g.orphans
      /\ x.g.used \in Nat
  BY ForceFacts, SizesAssumption
<1> HIDE DEF y
<1>3. MarkedFrom(x, y, q0, T, P, SLICES, FALSE)
  BY ZenonT(30), MarkedSound DEF Forcing, y
<1>4. Owns(y, q0, T, P, t) /\ y.s = s /\ y.g.orphans = x.g.orphans /\ y.g.used = x.g.used /\ y.g.abandoned = x.g.abandoned
  BY <1>3 DEF MarkedFrom, Forcing, Owns
<1>5. Ended(v, s, t, q0)
  <2>1. CASE AllFree(x.s, i)
    <3> DEFINE z == PageClear(y, i)
    <3>1. Sound(y, q0, T, P, SLICES) /\ AllFree(y.s, i)
      BY <1>4, <2>1 DEF Owns
    <3> HIDE DEF z
    <3>2. PICK lo, n : /\ Cleared(y, z, i, T, P, Before(y.g, T, P, SLICES), q0, lo, n)
                       /\ Follows(z, q0, T, P \ {i}, lo, n, SLICES)
      BY ZenonT(30), <1>2, <3>1, ClearSound DEF z
    <3> DEFINE U == NewT(T, lo, n)
               Q == P \ {i}
    <3> HIDE DEF U
    <3>3. Sound(z, q0, U, Q, SLICES)
      BY <1>2, <3>2 DEF Follows, U
    <3>4. z.s = y.s /\ Fewer(y.g, z.g, i, y.g.used - 1)
      BY <3>2 DEF Cleared
    <3>5. y.g.orphans \ {i} = y.g.orphans
      BY <1>2, <1>4
    <3>6. Owns(z, q0, U, Q, t)
      BY ZenonT(30), <1>4, <3>3, <3>4, <3>5 DEF Fewer, Owns
    <3>7. Ended(PageFreed(z), z.s, t, q0)
      BY <3>6, PageFreedOK
    <3> QED
      BY <1>4, <2>1, <3>4, <3>7 DEF z
  <2>2. CASE ~AllFree(x.s, i)
    <3>1. i \notin y.g.orphans
      BY <1>2, <1>4
    <3>2. Ended(AbandonPage(y, i), y.s, t, q0)
      BY <1>2, <1>4, <3>1, AbandonPageOK
    <3> QED
      BY <1>4, <2>2, <3>2
  <2> QED
    BY <2>1, <2>2
<1> HIDE DEF v
<1>6. Ended(SetAt(v, SLICES), s, t, q0) /\ SetAt(v, SLICES).at = SLICES /\ SetAt(v, SLICES).s = s
  BY <1>2, <1>5, EndedAt
<1> QED
  BY <1>1, <1>2, <1>6 DEF ForcingAt

\* A free span is left alone.
LEMMA ForceFree ==
  ASSUME NEW x, NEW s, NEW q0, NEW T, NEW P, NEW t \in Threads, Forcing(x, q0, T, P, t),
         x.at \in T, x.at # 0, x.s = s, ~IsUsed(x.g, x.at)
  PROVE  ForcingAt(x.at + 1, ForceAbandonSpan(x), s, t, q0)
<1> DEFINE i == x.at
           v == NextSpan(x)
<1>1. ForceAbandonSpan(x) = v
  BY DEF ForceAbandonSpan
<1>2. /\ SLICES \in Nat /\ i \in Nat /\ P \subseteq T /\ Tiled(x.g.slices, T) /\ i \notin P
  BY ForceFacts
<1>3. NextFrom(x, v, q0, T, P, SLICES)
  BY NextOK DEF Forcing
<1> HIDE DEF v
<1>4. /\ Sound(v, q0, T, P, SLICES) /\ v.g = x.g /\ v.s = s /\ v.at = i + x.g.slices[i].slice_count
      /\ v.at \in Nat /\ i < v.at /\ (v.at \in T \/ v.at >= SLICES)
  BY <1>3 DEF NextFrom, MovedTo
<1>5. Ahead(P, i + x.g.slices[i].slice_count) = Ahead(P, i)
  BY <1>2, PastSpan
<1>6. Forcing(v, q0, T, P, t)
  BY <1>4, <1>5 DEF Forcing
<1>7. x.at + 1 <= v.at /\ v.at \in Nat \ {0}
  BY <1>2, <1>4
<1> QED
  BY <1>1, <1>4, <1>6, <1>7 DEF ForcingAt

\* A page that is not the last, and has no blocks, is freed.
LEMMA ForceEmpty ==
  ASSUME NEW x, NEW s, NEW q0, NEW T, NEW P, NEW t \in Threads, Forcing(x, q0, T, P, t),
         x.at \in T, x.at # 0, x.s = s, IsUsed(x.g, x.at), x.g.used # x.g.abandoned + 1, AllFree(x.s, x.at)
  PROVE  ForcingAt(x.at + 1, ForceAbandonSpan(x), s, t, q0)
<1> DEFINE i == x.at
           y == Marked(x, TRUE)
           z == PageClear(y, i)
           u == Purged(z, FALSE)
           a == SetAt(u, SliceFirst(u.g, i))
           v == NextSpan(a)
           Q == P \ {i}
<1>2. /\ SLICES \in Nat /\ i \in Nat /\ i \in P /\ P \subseteq T /\ T \subseteq Nat
      /\ x.g.used \in Nat /\ x.g.abandoned \in Nat /\ x.g.abandoned < x.g.used
      /\ i \notin x.g.orphans
  BY ForceFacts
<1>3. ForceAbandonSpan(x) = NextSpan([PageFreed(z) EXCEPT !.at = SliceFirst(PageFreed(z).g, i)])
  <2>1. y = [x EXCEPT !.g.dont_free = ~(x.g.used = x.g.abandoned + 1)]
    BY ZenonT(30) DEF Marked
  <2> QED
    BY ZenonT(30), <2>1 DEF ForceAbandonSpan
<1> HIDE DEF y
<1>4. MarkedFrom(x, y, q0, T, P, SLICES, TRUE)
  BY ZenonT(30), MarkedSound DEF Forcing, y
<1>5. Sound(y, q0, T, P, SLICES) /\ AllFree(y.s, i) /\ y.s = s
  BY <1>4 DEF MarkedFrom
<1> HIDE DEF z
<1>6. PICK lo, n : /\ Cleared(y, z, i, T, P, Before(y.g, T, P, SLICES), q0, lo, n)
                   /\ Follows(z, q0, T, P \ {i}, lo, n, SLICES)
  BY ZenonT(30), <1>2, <1>5, ClearSound DEF z
<1> DEFINE U == NewT(T, lo, n)
<1>7. /\ lo \in T /\ lo \in Nat \ {0} /\ lo <= i /\ i < lo + n /\ n \in Nat \ {0} /\ z.s = y.s
      /\ Fewer(y.g, z.g, i, y.g.used - 1) /\ z.g.slices[lo].slice_count = n
      /\ SliceFirst(z.g, i) = lo /\ \A k \in Q : k < lo \/ k >= lo + n
  BY <1>6 DEF Cleared
<1>8. Sound(z, q0, U, Q, SLICES)
  BY <1>2, <1>6 DEF Follows
<1>9. lo \in U
  BY <1>7 DEF NewT
<1> HIDE DEF U, u
<1>10. /\ z.g.used = x.g.used - 1 /\ z.g.abandoned = x.g.abandoned /\ z.g.orphans = x.g.orphans \ {i}
       /\ z.g.dont_free = TRUE /\ z.g.thread_id = t
  BY <1>4, <1>7 DEF Fewer, MarkedFrom, Forcing
<1>11. z.g.used # 0 /\ z.g.used # z.g.abandoned
  BY <1>2, <1>10
<1>12. PageFreed(z) = u
  BY <1>11 DEF PageFreed, Purged, u
<1>13. PurgedFrom(z, u, q0, U, Q, SLICES)
  BY ZenonT(30), <1>8, TryPurgeSound DEF u
<1>14. u.g.slices = z.g.slices
  BY <1>13 DEF PurgedFrom
<1>15. SliceFirst(u.g, i) = lo
  BY <1>7, <1>14 DEF SliceFirst
<1>16. ForceAbandonSpan(x) = v
  BY <1>3, <1>12 DEF SetAt
<1> HIDE DEF a, v
<1>17. MovedTo(u, a, q0, U, Q, SLICES, lo)
  BY <1>7, <1>13, <1>15, SetAtSound DEF a, PurgedFrom
<1>18. Sound(a, q0, U, Q, SLICES) /\ a.at = lo /\ a.g = u.g /\ a.s = s
  BY <1>5, <1>7, <1>13, <1>17 DEF MovedTo, PurgedFrom
<1>19. NextFrom(a, v, q0, U, Q, SLICES)
  BY <1>9, <1>18, NextOK DEF v
<1>20. /\ Sound(v, q0, U, Q, SLICES) /\ v.g = u.g /\ v.s = s /\ v.at = lo + n
       /\ v.at \in Nat /\ (v.at \in U \/ v.at >= SLICES)
  BY <1>7, <1>14, <1>18, <1>19 DEF NextFrom, MovedTo
<1>21. /\ v.g.used = x.g.used - 1 /\ v.g.abandoned = x.g.abandoned /\ v.g.orphans = x.g.orphans \ {i}
       /\ v.g.dont_free = TRUE /\ v.g.thread_id = t
  BY <1>10, <1>13, <1>20 DEF PurgedFrom, Same
<1>22. Ahead(P, i) = Ahead(Q, lo + n) /\ x.g.orphans \ {i} = x.g.orphans
  <2>1. CutAt(P, Q, i, lo, n)
    BY <1>2, <1>7 DEF CutAt
  <2> HIDE DEF Q
  <2>2. Ahead(P, i) = Ahead(Q, lo + n)
    BY <2>1, PagesAhead
  <2> QED
    BY <1>2, <2>2
<1>23. x.g.orphans = Ahead(P, i) /\ x.g.abandoned = Cardinality(x.g.orphans)
  BY DEF Forcing
<1>24. v.g.used # v.g.abandoned
  BY <1>2, <1>21
<1>25. Forcing(v, q0, U, Q, t)
  BY ZenonT(30), <1>20, <1>21, <1>22, <1>23, <1>24 DEF Forcing
<1>26. x.at + 1 <= v.at /\ v.at \in Nat \ {0}
  BY <1>2, <1>7, <1>20
<1> QED
  BY <1>16, <1>20, <1>25, <1>26 DEF ForcingAt

\* A page with blocks is abandoned.
LEMMA ForcePage ==
  ASSUME NEW x, NEW s, NEW q0, NEW T, NEW P, NEW t \in Threads, Forcing(x, q0, T, P, t),
         x.at \in T, x.at # 0, x.s = s, IsUsed(x.g, x.at), x.g.used # x.g.abandoned + 1, ~AllFree(x.s, x.at)
  PROVE  ForcingAt(x.at + 1, ForceAbandonSpan(x), s, t, q0)
<1> DEFINE i == x.at
           y == Marked(x, TRUE)
           u == Orphaned(y, i)
           a == SetAt(u, SliceFirst(u.g, i))
           v == NextSpan(a)
<1>2. /\ SLICES \in Nat /\ i \in Nat /\ i \in P /\ P \subseteq T /\ Tiled(x.g.slices, T)
      /\ x.g.used \in Nat /\ x.g.abandoned \in Nat /\ x.g.abandoned < x.g.used
      /\ x.g.orphans \subseteq Slices /\ i \notin x.g.orphans /\ P \subseteq Slices
      /\ x.g.slices[i].slice_offset = 0 /\ x.g.slices[i].slice_count \in Nat \ {0}
  BY ForceFacts
<1>3. ForceAbandonSpan(x) = NextSpan([AbandonPage(y, i) EXCEPT !.at = SliceFirst(AbandonPage(y, i).g, i)])
  <2>1. y = [x EXCEPT !.g.dont_free = ~(x.g.used = x.g.abandoned + 1)]
    BY ZenonT(30) DEF Marked
  <2> QED
    BY ZenonT(30), <2>1 DEF ForceAbandonSpan
<1>4. AbandonPage(y, i) = IF u.g.used = u.g.abandoned THEN SegmentAbandon(u) ELSE u
  BY DEF AbandonPage, Orphaned
<1> HIDE DEF y
<1>5. MarkedFrom(x, y, q0, T, P, SLICES, TRUE)
  BY ZenonT(30), MarkedSound DEF Forcing, y
<1> HIDE DEF u
<1>6. OrphanedFrom(y, u, q0, T, P, SLICES, i)
  <2>1. Sound(y, q0, T, P, SLICES)
    BY <1>5 DEF MarkedFrom
  <2> QED
    BY <1>2, <2>1, OrphanedSound DEF u
<1>7. /\ Sound(u, q0, T, P, SLICES) /\ u.s = s /\ u.g.slices = x.g.slices
      /\ u.g.thread_id = t /\ u.g.used = x.g.used
      /\ u.g.abandoned = x.g.abandoned + 1 /\ u.g.dont_free = TRUE
      /\ u.g.orphans = x.g.orphans \cup {i}
  BY <1>5, <1>6 DEF MarkedFrom, OrphanedFrom, Forcing
<1>8. SliceFirst(u.g, i) = i
  BY <1>2, <1>7 DEF SliceFirst
<1>9. ForceAbandonSpan(x) = v
  BY <1>3, <1>4, <1>7 DEF SetAt
<1> HIDE DEF a, v
<1>10. MovedTo(u, a, q0, T, P, SLICES, i)
  BY <1>2, <1>7, <1>8, SetAtSound DEF a
<1>11. Sound(a, q0, T, P, SLICES) /\ a.at = i /\ a.g = u.g /\ a.s = s
  BY <1>7, <1>10 DEF MovedTo
<1>12. NextFrom(a, v, q0, T, P, SLICES)
  BY <1>11, NextOK DEF v
<1>13. /\ Sound(v, q0, T, P, SLICES) /\ v.g = u.g /\ v.s = s /\ v.at = i + x.g.slices[i].slice_count
       /\ v.at \in Nat /\ i < v.at /\ (v.at \in T \/ v.at >= SLICES)
  BY <1>7, <1>11, <1>12 DEF NextFrom, MovedTo
<1>14. Ahead(P, i + x.g.slices[i].slice_count) = Ahead(P, i) \cup {i}
  BY <1>2, PastSpan
<1>15. x.g.orphans = Ahead(P, i) /\ x.g.abandoned = Cardinality(x.g.orphans)
  BY DEF Forcing
<1>16. Cardinality(x.g.orphans \cup {i}) = Cardinality(x.g.orphans) + 1
  BY <1>2, OneMore
<1>17. Forcing(v, q0, T, P, t)
  BY ZenonT(40), <1>7, <1>13, <1>14, <1>15, <1>16 DEF Forcing
<1>18. x.at + 1 <= v.at /\ v.at \in Nat \ {0}
  BY <1>2, <1>13
<1> QED
  BY <1>9, <1>13, <1>17, <1>18 DEF ForcingAt

LEMMA NotMarked ==
  ASSUME NEW w, NEW s, NEW t, NEW q0, Ended(w, s, t, q0)
  PROVE  Marked(w, FALSE) = w
<1> DEFINE g == w.g
           h == [g EXCEPT !.dont_free = FALSE]
<1>1. w \in Worlds /\ g.dont_free = FALSE
  <2>1. NoSegment.dont_free = FALSE
    BY DEF NoSegment
  <2> QED
    BY <2>1 DEF Ended
<1>2. g \in SegRec
  BY <1>1, WorldParts
<1>3. Marked(w, FALSE) = [w EXCEPT !.g = h]
  BY DEF Marked
<1> HIDE DEF g
<1>4. h = g
  BY <1>1, <1>2 DEF SegRec
<1> HIDE DEF h
<1>5. [w EXCEPT !.g = g] = w
  BY <1>1 DEF Worlds, g
<1> QED
  BY ZenonT(30), <1>3, <1>4, <1>5

\* A thread that has too many segments abandons all pages of one: afterwards the
\* segment has no owner, or is gone (segment.c:1344).
LEMMA ForceAbandonOK ==
  ASSUME NEW w, NEW q0, NEW T, NEW P, NEW t, Owns(w, q0, T, P, t), w.at = 0, w.g.orphans = {}, w.g.used # 0,
         NEW l, IsLoop("force", Marked(w, TRUE), Start(Marked(w, TRUE)), l)
  PROVE  Ended(Marked(l[SLICES], FALSE), w.s, t, q0)
<1> DEFINE s == w.s
           w0 == Marked(w, TRUE)
           J == {e \in Entries \X Worlds : ForcingAt(e[1], e[2], s, t, q0)}
<1>2. SLICES \in Nat /\ t \in Threads
  BY SizesAssumption DEF Owns
<1>3. \A k \in Entries : \A x : ForcingAt(k, x, s, t, q0) => <<k, x>> \in J
  <2> SUFFICES ASSUME NEW k \in Entries, NEW x, ForcingAt(k, x, s, t, q0) PROVE <<k, x>> \in J
    OBVIOUS
  <2>1. x \in Worlds
    BY ZenonT(30) DEF ForcingAt, Forcing, Sound, WorldOK, Ended
  <2> QED
    BY <2>1
<1>4. \A k, x : <<k, x>> \in J => ForcingAt(k, x, s, t, q0)
  OBVIOUS
<1>1. IsLoop("force", w0, Start(w0), l)
  BY ZenonT(30)
<1> HIDE DEF J, w0
<1>5. <<0, Start(w0)>> \in J
  <2> DEFINE v == Start(w0)
  <2>1. MarkedFrom(w, w0, q0, T, P, SLICES, TRUE)
    BY ZenonT(30), MarkedSound DEF Owns, w0
  <2>2. Sound(w0, q0, T, P, SLICES) /\ w0.at = 0 /\ w0.g.orphans = {} /\ w0.s = s
    BY <2>1 DEF MarkedFrom
  <2> HIDE DEF v
  <2>3. StartsFrom(w0, v, q0, T, P, SLICES)
    BY <2>2, StartOK DEF v
  <2>4. WorldOK(w0, q0, T, P, Before(w0.g, T, P, SLICES))
    BY <2>2 DEF Sound
  <2>5. 0 \in P /\ P \subseteq T /\ T \subseteq Nat
    BY <2>4, WorldTypes
  <2>6. Ahead(P, v.at) = {}
    BY ZenonT(30), <2>3, <2>5 DEF StartsFrom, Ahead
  <2>7. /\ v.g.orphans = {} /\ v.g.abandoned = Cardinality({}) /\ v.g.dont_free = TRUE /\ v.g.thread_id = t /\ v.s = s
        /\ v.g.used = w.g.used
    BY <2>1, <2>2, <2>3 DEF StartsFrom, MarkedFrom, Owns
  <2>8. v.g.used # v.g.abandoned
    BY <2>7, FS_EmptySet
  <2>9. Forcing(v, q0, T, P, t)
    BY <2>3, <2>6, <2>7, <2>8 DEF Forcing, StartsFrom
  <2>10. ForcingAt(0, v, s, t, q0)
    BY <2>3, <2>7, <2>9 DEF StartsFrom, ForcingAt
  <2>11. 0 \in Entries
    BY <1>2 DEF Entries
  <2> QED
    BY <1>3, <2>10, <2>11 DEF v
<1>6. \A k \in 1 .. SLICES : \A p : <<k - 1, p>> \in J => <<k, Round("force", w0, k, p)>> \in J
  <2> SUFFICES ASSUME NEW k \in 1 .. SLICES, NEW p, <<k - 1, p>> \in J
               PROVE  <<k, Round("force", w0, k, p)>> \in J
    OBVIOUS
  <2>1. ForcingAt(k - 1, p, s, t, q0)
    BY <1>4
  <2>2. k \in Entries /\ k \in Nat /\ k - 1 \in Nat /\ k - 1 < SLICES /\ k <= SLICES
    BY <1>2 DEF Entries
  <2>3. CASE p.at = k - 1
    <3>0. p.at # SLICES
      BY <1>2, <2>2, <2>3
    <3>1. PICK U, Q : Forcing(p, q0, U, Q, t) /\ (p.at \in U \/ p.at >= SLICES)
      BY <2>1, <3>0 DEF ForcingAt
    <3>2. p.at \in U
      BY <1>2, <2>2, <2>3, <3>1
    <3>3. p.at # 0 /\ p.s = s
      BY <2>1 DEF ForcingAt
    <3> DEFINE v == ForceAbandonSpan(p)
    <3> HIDE DEF v
    <3>4. ForcingAt(k, v, s, t, q0)
      <4>1. CASE ~IsUsed(p.g, p.at)
        <5>1. ForcingAt(p.at + 1, v, s, t, q0)
          BY <1>2, <3>1, <3>2, <3>3, <4>1, ForceFree DEF v
        <5> QED
          BY <2>2, <2>3, <5>1
      <4>2. CASE IsUsed(p.g, p.at) /\ p.g.used = p.g.abandoned + 1
        <5>1. ForcingAt(SLICES, v, s, t, q0)
          BY <1>2, <3>1, <3>2, <3>3, <4>2, ForceLast DEF v
        <5>2. v.at \in Nat => k <= v.at \/ ~(SLICES <= v.at)
          BY <1>2, <2>2
        <5> QED
          BY <5>1, <5>2 DEF ForcingAt
      <4>3. CASE IsUsed(p.g, p.at) /\ p.g.used # p.g.abandoned + 1 /\ AllFree(p.s, p.at)
        <5>1. ForcingAt(p.at + 1, v, s, t, q0)
          BY <1>2, <3>1, <3>2, <3>3, <4>3, ForceEmpty DEF v
        <5> QED
          BY <2>2, <2>3, <5>1
      <4>4. CASE IsUsed(p.g, p.at) /\ p.g.used # p.g.abandoned + 1 /\ ~AllFree(p.s, p.at)
        <5>1. ForcingAt(p.at + 1, v, s, t, q0)
          BY <1>2, <3>1, <3>2, <3>3, <4>4, ForcePage DEF v
        <5> QED
          BY <2>2, <2>3, <5>1
      <4> QED
        BY <4>1, <4>2, <4>3, <4>4
    <3>5. Round("force", w0, k, p) = v
      BY <2>3 DEF Round, v
    <3> QED
      BY <1>3, <2>2, <3>4, <3>5
  <2>4. CASE p.at # k - 1
    <3>1. ForcingAt(k, p, s, t, q0)
      BY <2>1, <2>2, <2>4 DEF ForcingAt
    <3>2. Round("force", w0, k, p) = p
      BY <2>4 DEF Round
    <3> QED
      BY <1>3, <2>2, <3>1, <3>2
  <2> QED
    BY <2>3, <2>4
<1>7. <<SLICES, l[SLICES]>> \in J
  BY <1>1, <1>5, <1>6, LoopKeeps
<1> DEFINE x == l[SLICES]
<1>8. ForcingAt(SLICES, x, s, t, q0)
  BY <1>4, <1>7
<1> HIDE DEF x
<1>9. Ended(x, s, t, q0)
  <2> SUFFICES ASSUME NEW U, NEW Q, Forcing(x, q0, U, Q, t) PROVE FALSE
    BY <1>8 DEF ForcingAt
  <2>1. x.at \in Nat /\ x.at >= SLICES
    BY <1>2, <1>8 DEF ForcingAt
  <2>2. Sound(x, q0, U, Q, SLICES)
    BY DEF Forcing
  <2>3. Q \subseteq U /\ U \subseteq Nat /\ (\A k \in U : k < SLICES) /\ x.g.used = Cardinality(Q \ {0})
    <3>1. WorldOK(x, q0, U, Q, Before(x.g, U, Q, SLICES)) /\ x.g.used = Cardinality(Q \ {0})
      BY <2>2 DEF Sound
    <3> QED
      BY <3>1, WorldTypes
  <2>4. \A k \in Q : k < x.at
    BY <1>2, <2>1, <2>3
  <2>5. Ahead(Q, x.at) = Q \ {0}
    BY <2>4 DEF Ahead
  <2> QED
    BY <2>3, <2>5 DEF Forcing
<1>10. Marked(x, FALSE) = x
  BY ZenonT(30), <1>9, NotMarked
<1> QED
  BY ZenonT(30), <1>9, <1>10 DEF x

-----------------------------------------------------------------------------
(* The state between two calls.                                             *)

Blocks == [seg : Addresses, page : Slices, start : Nat, len : Nat \ {0}]

\* A segment with its pages P and its spans T between two calls.
Held(g, s, T, P, B) ==
  /\ g \in SegRec /\ g.kind \in {"NORMAL", "HUGE"}
  /\ TilesOK(g.slices, g.kind, T, P) /\ Clean(g.slices, T, P)
  /\ MaskOK(g, InUse(g.slices, P)) /\ g.dirty = {}
  /\ BlocksIn(B, g.slices, P, s)
  /\ g.used = Cardinality(P \ {0}) /\ g.orphans \subseteq P \ {0}
  /\ g.abandoned = Cardinality(g.orphans) /\ g.dont_free = FALSE
  /\ g.thread_id = NoThread => g.used = g.abandoned
  /\ g.used = g.abandoned /\ g.used > 0 => g.thread_id = NoThread

SegmentIs(g, s, B) ==
  \/ g = NoSegment /\ \A b \in B : b.seg # s
  \/ \E T, P : Held(g, s, T, P, B)

\* What thread t has of it in its queues.
QueuedOf(g, t) == IF g.kind = "NORMAL" /\ g.thread_id = t THEN Queued(g.slices, FreeSpans(g)) ELSE {}

\* A call of thread t on the segment at s is at its end.
EndsWith(v, s, t, q0, B) ==
  /\ v \in Worlds /\ v.s = s
  /\ SegmentIs(v.g, s, B) /\ v.g.thread_id \in {t, NoThread}
  /\ QueueOK(v.tld.spans, q0, s, QueuedOf(v.g, t))

LEMMA NoSegmentHas ==
  /\ NoSegment.kind = "none" /\ NoSegment.thread_id = NoThread /\ NoSegment.orphans = {} /\ NoSegment.used = 0
  /\ NoSegment.slices = [i \in Entries |-> Zeroed] /\ NoSegment.purge_mask = {} /\ NoSegment.purge_expire = UNSET
  /\ NoSegment.dirty = {}
BY DEF NoSegment

LEMMA HeldSpans ==
  ASSUME NEW g, NEW s, NEW T, NEW P, NEW B, Held(g, s, T, P, B)
  PROVE  /\ Spans(g) = T /\ FreeSpans(g) = T \ P /\ Pages(g) = P \ {0} /\ Spans(g) \ FreeSpans(g) = P
         /\ \A k \in T : IsUsed(g, k) <=> k \in P
<1>1. TilesOK(g.slices, g.kind, T, P) /\ Clean(g.slices, T, P)
  BY DEF Held
<1> QED
  BY ZenonT(30), <1>1, SpansOf

LEMMA HeldQueued ==
  ASSUME NEW g, NEW s, NEW T, NEW P, NEW B, Held(g, s, T, P, B), NEW t \in Threads, g.thread_id \in {t, NoThread}
  PROVE  QueuedOf(g, t) = Queued(g.slices, Before(g, T, P, SLICES))
<1>1. FreeSpans(g) = T \ P
  BY HeldSpans
<1>2. \A k \in T : k \in Nat /\ k < SLICES
  BY SizesAssumption DEF Held, TilesOK, Tiled, Slices
<1>3. {k \in T \ P : k < SLICES} = T \ P
  BY <1>2
<1>4. t # NoThread /\ Queued(g.slices, {}) = {}
  BY OptionsAssumption DEF Queued
<1>5. CASE g.kind = "NORMAL" /\ g.thread_id = t
  BY <1>1, <1>3, <1>4, <1>5 DEF QueuedOf, Before, InQueues
<1>6. CASE ~(g.kind = "NORMAL" /\ g.thread_id = t)
  BY <1>4, <1>6 DEF QueuedOf, Before, InQueues
<1> QED
  BY <1>5, <1>6

LEMMA EndedWith ==
  ASSUME NEW v, NEW s, NEW t \in Threads, NEW q0, Ended(v, s, t, q0)
  PROVE  EndsWith(v, s, t, q0, blocks)
<1>1. v \in Worlds /\ v.s = s /\ v.g \in SegRec
  BY WorldParts DEF Ended
<1>2. CASE v.g = NoSegment /\ QueueOK(v.tld.spans, q0, s, {}) /\ \A b \in blocks : b.seg # s
  BY <1>1, <1>2, NoSegmentHas DEF EndsWith, SegmentIs, QueuedOf
<1>3. ASSUME NEW T, NEW P, Sound(v, q0, T, P, SLICES),
             v.g.abandoned = Cardinality(v.g.orphans), v.g.dont_free = FALSE,
             v.g.thread_id \in {t, NoThread},
             v.g.thread_id = NoThread => v.g.used = v.g.abandoned,
             v.g.used = v.g.abandoned /\ v.g.used > 0 => v.g.thread_id = NoThread
      PROVE  EndsWith(v, s, t, q0, blocks)
  <2>1. /\ v.g.kind \in {"NORMAL", "HUGE"} /\ TilesOK(v.g.slices, v.g.kind, T, P) /\ Clean(v.g.slices, T, P)
        /\ MaskOK(v.g, InUse(v.g.slices, P)) /\ v.g.dirty = {}
        /\ BlocksIn(blocks, v.g.slices, P, s)
        /\ v.g.used = Cardinality(P \ {0}) /\ v.g.orphans \subseteq P \ {0}
        /\ QueueOK(v.tld.spans, q0, s, Queued(v.g.slices, Before(v.g, T, P, SLICES)))
    BY <1>1, <1>3 DEF Sound, WorldOK, BlocksOK, Clean
  <2>2. Held(v.g, s, T, P, blocks)
    BY <1>1, <1>3, <2>1 DEF Held
  <2>3. QueuedOf(v.g, t) = Queued(v.g.slices, Before(v.g, T, P, SLICES))
    BY <1>3, <2>2, HeldQueued
  <2> QED
    BY <1>1, <1>3, <2>1, <2>2, <2>3 DEF EndsWith, SegmentIs
<1> QED
  BY ZenonT(30), <1>2, <1>3 DEF Ended

\* What is forgotten at the end of a call is nobody's business.
Settled(g, h, T) ==
  /\ Same(g, h) /\ MasksEqual(g, h)
  /\ h.slices \in [Entries -> SliceRecord] /\ \A k \in T : h.slices[k] = g.slices[k]

LEMMA SettleOK ==
  ASSUME NEW g, NEW s, NEW T, NEW P, NEW B, Held(g, s, T, P, B)
  PROVE  Settled(g, Settle(g), T) /\ Held(Settle(g), s, T, P, B)
<1> DEFINE f == g.slices
           Inside(k) == \E i \in FreeSpans(g) : i < k /\ k < i + g.slices[i].slice_count - 1
           h == [k \in Entries |-> IF Inside(k) THEN Undetermined ELSE f[k]]
           v == Settle(g)
<1>1. /\ g \in SegRec /\ f \in [Entries -> SliceRecord] /\ TilesOK(f, g.kind, T, P) /\ Clean(f, T, P)
      /\ Tiled(f, T) /\ P \subseteq T /\ 0 \in P /\ g.kind \in {"NORMAL", "HUGE"}
  BY DEF Held, TilesOK
<1>2. FreeSpans(g) = T \ P
  BY ZenonT(30), <1>1, SpansOf
<1>3. v = [g EXCEPT !.slices = h]
  BY DEF Settle
<1>4. SLICES \in Nat /\ \A k \in T : k \in Nat /\ k < SLICES /\ k \in Entries /\ f[k].slice_count \in Nat \ {0}
  BY <1>1, TiledNumbers
<1>5. \A i, j \in T : j < i => j + f[j].slice_count <= i
  BY <1>1, TiledApart
<1> HIDE DEF v, f
<1>6. \A k \in Entries : h[k] = f[k] \/ Inside(k)
  OBVIOUS
<1>7. h \in [Entries -> SliceRecord]
  <2>1. Undetermined \in SliceRecord
    BY DEF Undetermined, SliceRecord
  <2> QED
    BY <1>1, <2>1
<1>8. ASSUME NEW i \in T, NEW k \in Entries, i <= k, k < i + f[i].slice_count, k = i \/ i \in P \/ k = i + f[i].slice_count - 1
      PROVE  h[k] = f[k]
  <2> SUFFICES ASSUME NEW j \in T \ P, j < k, k < j + f[j].slice_count - 1 PROVE FALSE
    BY <1>2, <1>6 DEF f
  <2>1. /\ i \in Nat /\ j \in Nat /\ f[i].slice_count \in Nat /\ f[j].slice_count \in Nat /\ k \in Nat
    BY <1>4 DEF Entries
  <2>2. (j < i => j + f[j].slice_count <= i) /\ (i < j => i + f[i].slice_count <= j)
    BY <1>5
  <2>3. i = j
    BY <1>8, <2>1, <2>2
  <2> QED
    BY <1>8, <2>1, <2>3
<1> HIDE DEF h
<1>9. \A k \in T : h[k] = f[k]
  <2> SUFFICES ASSUME NEW k \in T PROVE h[k] = f[k]
    OBVIOUS
  <2>1. k \in Entries /\ k <= k /\ k < k + f[k].slice_count
    BY <1>4
  <2> QED
    BY <1>8, <2>1
<1>10. /\ v \in SegRec /\ Same(g, v) /\ MasksEqual(g, v) /\ v.slices = h /\ v.abandoned = g.abandoned
       /\ v.used = g.used /\ v.orphans = g.orphans /\ v.kind = g.kind /\ v.thread_id = g.thread_id
       /\ v.dirty = g.dirty /\ v.dont_free = g.dont_free
  <2>1. v \in SegRec /\ v.slices = h
    BY <1>1, <1>3, <1>7 DEF SegRec
  <2> QED
    BY ZenonT(30), <1>1, <1>3, <2>1 DEF SegRec, Same, MasksEqual
<1>11. TilesOK(h, g.kind, T, P)
  <2>1. Tiled(h, T)
    BY <1>1, <1>9 DEF Tiled
  <2>2. ASSUME NEW i \in T PROVE SpanOK(h, g.kind, i, i \in P)
    <3>1. SpanOK(f, g.kind, i, i \in P) /\ h[i] = f[i]
      BY <1>1, <1>9 DEF TilesOK
    <3>2. \A k \in Slices :
            /\ i <= k /\ k < i + f[i].slice_count
            /\ \/ k = i + f[i].slice_count - 1
               \/ i \in P /\ k - i <= PA_MAX_SLICE_OFFSET_COUNT
            => h[k] = f[k]
      <4>1. \A k \in Slices : k \in Entries
        BY <1>4 DEF Slices, Entries
      <4> QED
        BY <1>8, <4>1
    <3> QED
      BY <3>1, <3>2 DEF SpanOK
  <2>3. \A i, j \in T : h[i].block_size = 0 /\ j = i + h[i].slice_count => h[j].block_size # 0
    <3>1. \A i, j \in T : f[i].block_size = 0 /\ j = i + f[i].slice_count => f[j].block_size # 0
      BY <1>1 DEF TilesOK
    <3> QED
      BY <1>9, <3>1
  <2> QED
    BY <1>1, <1>7, <2>1, <2>2, <2>3 DEF TilesOK
<1>12. InUse(h, P) = InUse(f, P) /\ Clean(h, T, P)
  <2>1. \A k \in P : h[k] = f[k]
    BY <1>1, <1>9
  <2>2. InUse(h, P) = InUse(f, P)
    BY <2>1 DEF InUse
  <2> QED
    BY <1>1, <1>9, <2>2 DEF Clean
<1>13. BlocksIn(B, h, P, s)
  <2>1. \A k \in P : h[k] = f[k]
    BY <1>1, <1>9
  <2>2. BlocksIn(B, f, P, s)
    BY DEF Held, f
  <2> QED
    BY <2>1, <2>2 DEF BlocksIn, BlockIn
<1>14. MaskOK(v, InUse(h, P))
  <2>1. MaskOK(g, InUse(f, P))
    BY DEF Held, f
  <2> QED
    BY <1>10, <1>12, <2>1, MasksEqualOK
<1>15. Held(v, s, T, P, B)
  <2>1. /\ g.used = Cardinality(P \ {0}) /\ g.orphans \subseteq P \ {0}
        /\ g.abandoned = Cardinality(g.orphans) /\ g.dont_free = FALSE /\ g.dirty = {}
        /\ g.thread_id = NoThread => g.used = g.abandoned
        /\ g.used = g.abandoned /\ g.used > 0 => g.thread_id = NoThread
    BY DEF Held
  <2> QED
    BY <1>1, <1>10, <1>11, <1>12, <1>13, <1>14, <2>1 DEF Held
<1> QED
  BY <1>7, <1>9, <1>10, <1>15 DEF Settled, v, f

LEMMA SettleNone == Settle(NoSegment) = NoSegment
<1> DEFINE f == NoSegment.slices
           h == [k \in Entries |-> IF \E i \in FreeSpans(NoSegment) : i < k /\ k < i + f[i].slice_count - 1
                                     THEN Undetermined ELSE f[k]]
<1>1. \A i \in FreeSpans(NoSegment) : i \in Nat /\ f[i].slice_count = 0
  <2>1. \A i \in FreeSpans(NoSegment) : i \in Slices
    BY DEF FreeSpans, Spans
  <2>2. \A i \in Slices : i \in Nat /\ i \in Entries
    BY SizesAssumption DEF Slices, Entries
  <2>3. \A i \in Entries : f[i].slice_count = 0
    BY NoSegmentHas DEF Zeroed
  <2> QED
    BY <2>1, <2>2, <2>3
<1>2. \A k \in Entries : h[k] = f[k]
  <2> SUFFICES ASSUME NEW k \in Entries, NEW i \in FreeSpans(NoSegment), i < k, k < i + f[i].slice_count - 1 PROVE FALSE
    OBVIOUS
  <2>1. i \in Nat /\ f[i].slice_count = 0 /\ k \in Nat
    BY <1>1, SizesAssumption DEF Entries
  <2> HIDE DEF f
  <2> QED
    BY <2>1
<1>3. h = [k \in Entries |-> f[k]]
  BY <1>2
<1>4. f = [i \in Entries |-> Zeroed]
  BY NoSegmentHas
<1>5. h = f
  BY <1>3, <1>4
<1>6. Settle(NoSegment) = [NoSegment EXCEPT !.slices = h]
  BY DEF Settle
<1> HIDE DEF h, f
<1>7. [NoSegment EXCEPT !.slices = f] = NoSegment
  BY ZenonT(30) DEF NoSegment, f
<1> QED
  BY <1>5, <1>6, <1>7

\* The segment as the others see it after the call.
AfterCall(g, s, t, H, B) ==
  /\ g \in SegRec /\ SegmentIs(g, s, B)
  /\ QueuedOf(g, t) = H
  /\ \A u \in Threads : u # t => QueuedOf(g, u) = {}

LEMMA SettledEnd ==
  ASSUME NEW v, NEW s, NEW t \in Threads, NEW q0, NEW B, EndsWith(v, s, t, q0, B)
  PROVE  AfterCall(Settle(v.g), s, t, QueuedOf(v.g, t), B)
<1> DEFINE h == Settle(v.g)
<1>1. v.g \in SegRec /\ v.g.thread_id \in {t, NoThread}
  BY WorldParts DEF EndsWith
<1>2. ASSUME NEW u \in Threads, u # t, NEW g, g.thread_id \in {t, NoThread} PROVE QueuedOf(g, u) = {}
  BY <1>2, OptionsAssumption DEF QueuedOf
<1>3. CASE v.g = NoSegment /\ \A b \in B : b.seg # s
  <2>1. h = NoSegment
    BY <1>3, SettleNone
  <2> HIDE DEF h
  <2>2. SegmentIs(h, s, B) /\ h = v.g
    BY <1>3, <2>1 DEF SegmentIs
  <2> QED
    BY <1>1, <1>2, <2>2 DEF AfterCall, h
<1>4. ASSUME NEW T, NEW P, Held(v.g, s, T, P, B) PROVE AfterCall(h, s, t, QueuedOf(v.g, t), B)
  <2>1. Settled(v.g, h, T) /\ Held(h, s, T, P, B)
    BY <1>4, SettleOK
  <2> HIDE DEF h
  <2>2. h \in SegRec /\ SegmentIs(h, s, B)
    BY ZenonT(30), <2>1 DEF Held, SegmentIs
  <2>3. h.kind = v.g.kind /\ h.thread_id = v.g.thread_id /\ \A k \in T : h.slices[k] = v.g.slices[k]
    BY <2>1 DEF Settled, Same
  <2>4. QueuedOf(h, t) = QueuedOf(v.g, t)
    <3>1. FreeSpans(h) = T \ P
      BY <2>1, HeldSpans
    <3>3. FreeSpans(v.g) = T \ P
      BY <1>4, HeldSpans
    <3>2. Queued(h.slices, T \ P) = Queued(v.g.slices, T \ P)
      BY <2>3, QueuedSame
    <3> QED
      BY <2>3, <3>1, <3>2, <3>3 DEF QueuedOf
  <2>5. \A u \in Threads : u # t => QueuedOf(h, u) = {}
    BY <1>1, <1>2, <2>3
  <2> QED
    BY <2>2, <2>4, <2>5 DEF AfterCall
<1> QED
  BY <1>3, <1>4 DEF EndsWith, SegmentIs

QueuesOK(S, q, t) ==
  /\ q \in TldRec
  /\ \A s \in Addresses : QueueOK(q.spans, q.spans, s, QueuedOf(S[s], t))

Requests == [pc : {"idle", "find", "grow"}, page : PageSizes \cup {<<0, 0>>}]

RequestsOK(R) ==
  /\ R \in [Threads -> Requests]
  /\ \A t \in Threads : R[t].pc # "idle" => R[t].page \in PageSizes

\* Segments S, queues Q and blocks B that fit.
Fits(S, Q, B) ==
  /\ S \in [Addresses -> SegRec] /\ Q \in [Threads -> TldRec] /\ B \subseteq Blocks
  /\ \A s \in Addresses : SegmentIs(S[s], s, B)
  /\ \A t \in Threads : QueuesOK(S, Q[t], t)

LEMMA OtherBlocks ==
  ASSUME NEW g, NEW s, NEW B, NEW C, SegmentIs(g, s, B), \A b \in C : b.seg = s => b \in B
  PROVE  SegmentIs(g, s, C)
<1>1. ASSUME NEW T, NEW P, Held(g, s, T, P, B) PROVE Held(g, s, T, P, C)
  <2>1. BlocksIn(C, g.slices, P, s)
    <3>1. BlocksIn(B, g.slices, P, s)
      BY <1>1 DEF Held
    <3> QED
      BY <3>1 DEF BlocksIn
  <2> QED
    BY <1>1, <2>1 DEF Held
<1> QED
  BY <1>1 DEF SegmentIs

\* A call of thread t on segment s that starts where S, Q and B fit, and ends at v.
Calls(S, Q, B, v, s, t, C) ==
  /\ Fits(S, Q, B) /\ t \in Threads /\ s \in Addresses /\ S[s].thread_id \in {t, NoThread}
  /\ EndsWith(v, s, t, Q[t].spans, C)
  /\ C \subseteq Blocks /\ \A b \in C : b.seg # s => b \in B

\* A call of a thread disturbs neither the other segments nor the queues of the
\* other threads.
LEMMA CallKeeps ==
  ASSUME NEW S, NEW Q, NEW B, NEW v, NEW s, NEW t, NEW C, Calls(S, Q, B, v, s, t, C)
  PROVE  Fits([S EXCEPT ![s] = Settle(v.g)], [Q EXCEPT ![t] = v.tld], C)
<1> DEFINE h == Settle(v.g)
           S2 == [S EXCEPT ![s] = h]
           Q2 == [Q EXCEPT ![t] = v.tld]
<1>1. /\ Fits(S, Q, B) /\ t \in Threads /\ s \in Addresses /\ S[s].thread_id \in {t, NoThread}
      /\ EndsWith(v, s, t, Q[t].spans, C)
      /\ C \subseteq Blocks /\ \A b \in C : b.seg # s => b \in B
  BY DEF Calls
<1>2. AfterCall(h, s, t, QueuedOf(v.g, t), C)
  BY <1>1, SettledEnd
<1> HIDE DEF h
<1>3. h \in SegRec /\ SegmentIs(h, s, C) /\ QueuedOf(h, t) = QueuedOf(v.g, t)
      /\ \A u \in Threads : u # t => QueuedOf(h, u) = {}
  BY <1>2 DEF AfterCall
<1>4. v.tld \in TldRec /\ QueueOK(v.tld.spans, Q[t].spans, s, QueuedOf(v.g, t))
  BY <1>1, WorldParts DEF EndsWith
<1>5. /\ S \in [Addresses -> SegRec] /\ Q \in [Threads -> TldRec]
      /\ \A a \in Addresses : SegmentIs(S[a], a, B)
      /\ \A u \in Threads : QueuesOK(S, Q[u], u)
  BY <1>1 DEF Fits
<1>6. S2 \in [Addresses -> SegRec] /\ Q2 \in [Threads -> TldRec]
      /\ S2[s] = h /\ (\A a \in Addresses : a # s => S2[a] = S[a])
      /\ Q2[t] = v.tld /\ (\A u \in Threads : u # t => Q2[u] = Q[u])
  BY <1>1, <1>3, <1>4, <1>5
<1> HIDE DEF S2, Q2
<1>7. ASSUME NEW a \in Addresses PROVE SegmentIs(S2[a], a, C)
  <2>1. CASE a = s
    BY <1>3, <1>6, <2>1
  <2>2. CASE a # s
    <3>1. SegmentIs(S[a], a, B)
      BY <1>5
    <3>2. \A b \in C : b.seg = a => b \in B
      BY <1>1, <2>2
    <3>3. SegmentIs(S[a], a, C)
      BY <3>1, <3>2, OtherBlocks
    <3> QED
      BY <1>6, <2>2, <3>3
  <2> QED
    BY <2>1, <2>2
<1>8. ASSUME NEW u \in Threads PROVE QueuesOK(S2, Q2[u], u)
  <2>1. CASE u # t
    <3>1. QueuesOK(S, Q[u], u) /\ Q2[u] = Q[u]
      BY <1>5, <1>6, <2>1
    <3>2. QueuedOf(S[s], u) = {}
      BY <1>1, <2>1, OptionsAssumption DEF QueuedOf
    <3>3. \A a \in Addresses : QueuedOf(S2[a], u) = QueuedOf(S[a], u)
      BY ZenonT(30), <1>3, <1>6, <2>1, <3>2
    <3> QED
      BY <3>1, <3>3 DEF QueuesOK
  <2>2. CASE u = t
    <3> DEFINE q == v.tld.spans
               q0 == Q[t].spans
    <3>1. QueueOK(q, q0, s, QueuedOf(h, t)) /\ v.tld \in TldRec
      BY <1>3, <1>4
    <3>2. \A a \in Addresses : QueueOK(q0, q0, a, QueuedOf(S[a], t))
      BY <1>1, <1>5 DEF QueuesOK
    <3> HIDE DEF q, q0
    <3>3. ASSUME NEW a \in Addresses PROVE QueueOK(q, q, a, QueuedOf(S2[a], t))
      <4>1. q \in [Bins -> Seq(Span)] /\ \A b \in Bins : Once(q[b])
        BY <3>1 DEF QueueOK
      <4>2. CASE a = s
        BY <1>6, <3>1, <4>1, <4>2 DEF QueueOK
      <4>3. CASE a # s
        <5>1. S2[a] = S[a]
          BY <1>6, <4>3
        <5>2. \A b \in Bins : \A e \in Span : e[1] = a => (e \in Range(q[b]) <=> e \in Range(q0[b]))
          BY ZenonT(30), <3>1, <4>3 DEF QueueOK
        <5>3. \A b \in Bins : \A e \in Span : e[1] = a => (e \in Range(q0[b]) <=> <<b, e[2]>> \in QueuedOf(S[a], t))
          BY <3>2 DEF QueueOK
        <5> QED
          BY <4>1, <5>1, <5>2, <5>3 DEF QueueOK
      <4> QED
        BY <4>2, <4>3
    <3> QED
      BY <1>6, <2>2, <3>1, <3>3 DEF QueuesOK, q
  <2> QED
    BY <2>1, <2>2
<1> QED
  BY ZenonT(30), <1>1, <1>6, <1>7, <1>8 DEF Fits, S2, Q2, h

-----------------------------------------------------------------------------
(* From the state into a call.                                              *)

LEMMA WorldIs ==
  ASSUME Fits(segment, tld, blocks), NEW t \in Threads, NEW s \in Addresses
  PROVE  LET w == World(t, s)
         IN w \in Worlds /\ w.g = segment[s] /\ w.tld = tld[t] /\ w.s = s /\ w.at = 0
<1>1. segment[s] \in SegRec /\ tld[t] \in TldRec
  BY DEF Fits
<1> QED
  BY <1>1 DEF World, Worlds

LEMMA HeldSound ==
  ASSUME NEW w \in Worlds, NEW q0, NEW T, NEW P, Held(w.g, w.s, T, P, blocks), NEW t \in Threads,
         w.g.thread_id \in {t, NoThread}, QueueOK(w.tld.spans, q0, w.s, QueuedOf(w.g, t))
  PROVE  Sound(w, q0, T, P, SLICES)
<1> DEFINE R == Before(w.g, T, P, SLICES)
<1>1. QueuedOf(w.g, t) = Queued(w.g.slices, R)
  BY HeldQueued
<1>2. R \subseteq T \ P /\ (~InQueues(w.g) => R = {})
  BY DEF Before
<1> HIDE DEF R
<1>3. WorldOK(w, q0, T, P, R)
  BY <1>1, <1>2 DEF WorldOK, Held
<1>4. /\ \A k \in T \ P : w.g.slices[k].block_size = 0
      /\ BlocksOK(w.g.slices, P, w.s)
      /\ w.g.used = Cardinality(P \ {0}) /\ w.g.orphans \subseteq P \ {0}
  BY DEF Held, Clean, BlocksOK
<1> QED
  BY <1>3, <1>4 DEF Sound, R

\* A call on a segment of the thread.
OwnStart(w, t, s, T, P) ==
  /\ Owns(w, tld[t].spans, T, P, t) /\ Held(w.g, s, T, P, blocks)
  /\ w.s = s /\ w.at = 0 /\ w.g = segment[s] /\ w.tld = tld[t]
  /\ w.g.used = w.g.abandoned => w.g.used = 0

LEMMA OwnedStart ==
  ASSUME Fits(segment, tld, blocks), NEW t \in Threads, NEW s \in Addresses, Owned(t, s)
  PROVE  \E T, P : OwnStart(World(t, s), t, s, T, P)
<1> DEFINE w == World(t, s)
<1>1. w \in Worlds /\ w.g = segment[s] /\ w.tld = tld[t] /\ w.s = s /\ w.at = 0
  BY WorldIs
<1>2. SegmentIs(segment[s], s, blocks) /\ QueuesOK(segment, tld[t], t)
  BY DEF Fits
<1>3. segment[s].kind # "none" /\ segment[s].thread_id = t
  BY DEF Owned
<1>4. PICK T, P : Held(segment[s], s, T, P, blocks)
  BY <1>2, <1>3, NoSegmentHas DEF SegmentIs
<1> HIDE DEF w
<1>5. QueueOK(w.tld.spans, tld[t].spans, s, QueuedOf(w.g, t))
  BY <1>1, <1>2 DEF QueuesOK
<1>6. Sound(w, tld[t].spans, T, P, SLICES)
  BY <1>1, <1>3, <1>4, <1>5, HeldSound
<1>7. /\ w.g.abandoned = Cardinality(w.g.orphans) /\ w.g.dont_free = FALSE
      /\ w.g.used = w.g.abandoned /\ w.g.used > 0 => w.g.thread_id = NoThread
      /\ w.g.used = Cardinality(P \ {0}) /\ P \subseteq T /\ T \subseteq Slices
  BY <1>1, <1>4 DEF Held, TilesOK, Tiled
<1>8. w.g.used \in Nat
  <2>1. P \ {0} \subseteq Slices
    BY <1>7
  <2> QED
    BY <1>7, <2>1, PagesFinite
<1>9. w.g.used = w.g.abandoned => w.g.used = 0
  BY <1>1, <1>3, <1>7, <1>8, OptionsAssumption
<1>10. Owns(w, tld[t].spans, T, P, t)
  BY <1>1, <1>3, <1>6, <1>7 DEF Owns
<1>11. OwnStart(w, t, s, T, P)
  BY <1>1, <1>4, <1>9, <1>10 DEF OwnStart
<1> QED
  BY <1>11 DEF w

\* A call on a segment without a thread.
OrphanStart(w, t, s, T, P) ==
  Orphanage(w, tld[t].spans, T, P) /\ w.s = s /\ w.at = 0 /\ w.g = segment[s] /\ w.tld = tld[t]

LEMMA AbandonedStart ==
  ASSUME Fits(segment, tld, blocks), NEW t \in Threads, NEW s \in Addresses, IsAbandoned(segment[s])
  PROVE  \E T, P : OrphanStart(World(t, s), t, s, T, P)
<1> DEFINE w == World(t, s)
<1>1. w \in Worlds /\ w.g = segment[s] /\ w.tld = tld[t] /\ w.s = s /\ w.at = 0
  BY WorldIs
<1>2. SegmentIs(segment[s], s, blocks) /\ QueuesOK(segment, tld[t], t)
  BY DEF Fits
<1>3. segment[s].kind # "none" /\ segment[s].thread_id = NoThread
  BY DEF IsAbandoned
<1>4. PICK T, P : Held(segment[s], s, T, P, blocks)
  BY <1>2, <1>3, NoSegmentHas DEF SegmentIs
<1> HIDE DEF w
<1>5. QueueOK(w.tld.spans, tld[t].spans, s, QueuedOf(w.g, t))
  BY <1>1, <1>2 DEF QueuesOK
<1>6. Sound(w, tld[t].spans, T, P, SLICES)
  BY <1>1, <1>3, <1>4, <1>5, HeldSound
<1>7. /\ w.g.abandoned = Cardinality(w.g.orphans) /\ w.g.dont_free = FALSE
      /\ w.g.used = w.g.abandoned /\ w.g.orphans \subseteq P \ {0}
      /\ w.g.used = Cardinality(P \ {0}) /\ P \subseteq T /\ T \subseteq Slices
  BY <1>1, <1>3, <1>4 DEF Held, TilesOK, Tiled
<1>8. w.g.orphans = P \ {0}
  <2>1. P \ {0} \subseteq Slices
    BY <1>7
  <2>2. IsFiniteSet(P \ {0})
    BY <2>1, PagesFinite
  <2>3. \A A : A \subseteq P \ {0} /\ Cardinality(A) = Cardinality(P \ {0}) => A = P \ {0}
    BY <2>2, FS_Subset
  <2> QED
    BY ZenonT(30), <1>7, <2>3
<1>9. Orphanage(w, tld[t].spans, T, P)
  BY <1>1, <1>3, <1>6, <1>7, <1>8 DEF Orphanage
<1>10. OrphanStart(w, t, s, T, P)
  BY <1>1, <1>9 DEF OrphanStart
<1> QED
  BY <1>10 DEF w

\* A segment that stays without a thread.
LEMMA StillOrphanage ==
  ASSUME NEW w, NEW q0, NEW T, NEW P, NEW t, Orphanage(w, q0, T, P)
  PROVE  Ended(w, w.s, t, q0)
<1>1. /\ Sound(w, q0, T, P, SLICES) /\ w.g.orphans = P \ {0} /\ w.g.abandoned = Cardinality(w.g.orphans)
      /\ w.g.dont_free = FALSE /\ w.g.thread_id = NoThread
  BY DEF Orphanage
<1>2. w.g.used = Cardinality(P \ {0}) /\ w \in Worlds
  BY <1>1 DEF Sound, WorldOK
<1> QED
  BY <1>1, <1>2 DEF Ended

LEMMA PurgedOrphanage ==
  ASSUME NEW w, NEW q0, NEW T, NEW P, Orphanage(w, q0, T, P), NEW force, NEW t
  PROVE  Ended(Purged(w, force), w.s, t, q0)
<1> DEFINE v == Purged(w, force)
<1>1. Sound(w, q0, T, P, SLICES)
  BY DEF Orphanage
<1>2. PurgedFrom(w, v, q0, T, P, SLICES)
  BY <1>1, TryPurgeSound
<1> HIDE DEF v
<1>3. Sound(v, q0, T, P, SLICES) /\ Same(w.g, v.g) /\ v.s = w.s
  BY <1>2 DEF PurgedFrom
<1>4. Orphanage(v, q0, T, P)
  BY <1>3 DEF Orphanage, Same
<1>5. Ended(v, v.s, t, q0)
  BY <1>4, StillOrphanage
<1> QED
  BY <1>3, <1>5 DEF v

-----------------------------------------------------------------------------
(* The steps.                                                               *)

\* The end of a call, which may have changed the blocks of its segment.
LEMMA DoneKeeps ==
  ASSUME Fits(segment, tld, blocks), NEW t \in Threads, NEW s \in Addresses,
         segment[s].thread_id \in {t, NoThread}, NEW v, EndsWith(v, s, t, tld[t].spans, blocks'), Done(v, t),
         blocks' \subseteq Blocks, \A b \in blocks' : b.seg # s => b \in blocks
  PROVE  Fits(segment', tld', blocks')
<1>1. v.s = s
  BY DEF EndsWith
<1>2. Calls(segment, tld, blocks, v, s, t, blocks')
  BY DEF Calls
<1>3. Fits([segment EXCEPT ![s] = Settle(v.g)], [tld EXCEPT ![t] = v.tld], blocks')
  BY <1>2, CallKeeps
<1> QED
  BY <1>1, <1>3 DEF Done

LEMMA CallDone ==
  ASSUME Fits(segment, tld, blocks), NEW t \in Threads, NEW s \in Addresses,
         segment[s].thread_id \in {t, NoThread}, NEW v, Ended(v, s, t, tld[t].spans), Done(v, t),
         UNCHANGED blocks
  PROVE  Fits(segment', tld', blocks')
<1>1. EndsWith(v, s, t, tld[t].spans, blocks)
  BY EndedWith
<1>2. EndsWith(v, s, t, tld[t].spans, blocks') /\ blocks' \subseteq Blocks /\ blocks' = blocks
  BY <1>1 DEF Fits
<1> QED
  BY <1>2, DoneKeeps

LEMMA PageFreeFits ==
  ASSUME Fits(segment, tld, blocks), NEW t \in Threads, NEW s \in Addresses, NEW i, PageFree(t, s, i)
  PROVE  Fits(segment', tld', blocks')
<1> DEFINE w == World(t, s)
           q0 == tld[t].spans
           x == PageClear(w, i)
<1>1. /\ Owned(t, s) /\ i \in Pages(segment[s]) \ segment[s].orphans /\ AllFree(s, i)
      /\ Done(PageFreed(x), t) /\ UNCHANGED blocks
  BY DEF PageFree
<1>2. PICK T, P : OwnStart(w, t, s, T, P)
  BY <1>1, OwnedStart
<1> HIDE DEF w, q0
<1>3. /\ Owns(w, q0, T, P, t) /\ Held(w.g, s, T, P, blocks) /\ w.s = s /\ w.g = segment[s]
  BY <1>2 DEF OwnStart, q0
<1>4. i \in P /\ i # 0 /\ i \notin w.g.orphans
  BY <1>1, <1>3, HeldSpans
<1>5. Sound(w, q0, T, P, SLICES) /\ w.g.abandoned = Cardinality(w.g.orphans) /\ w.g.dont_free = FALSE /\ w.g.thread_id = t
  BY <1>3 DEF Owns
<1>6. SLICES \in Nat /\ AllFree(w.s, i)
  BY <1>1, <1>3, SizesAssumption
<1> HIDE DEF x
<1>7. PICK lo, n : /\ Cleared(w, x, i, T, P, Before(w.g, T, P, SLICES), q0, lo, n)
                   /\ Follows(x, q0, T, P \ {i}, lo, n, SLICES)
  BY ZenonT(30), <1>4, <1>5, <1>6, ClearSound DEF x
<1>8. Fewer(w.g, x.g, i, w.g.used - 1) /\ x.s = s
  BY <1>3, <1>7 DEF Cleared
<1>9. Sound(x, q0, NewT(T, lo, n), P \ {i}, SLICES)
  BY <1>6, <1>7 DEF Follows
<1>10. w.g.orphans \ {i} = w.g.orphans
  BY <1>4
<1>11. Owns(x, q0, NewT(T, lo, n), P \ {i}, t)
  BY ZenonT(30), <1>5, <1>8, <1>9, <1>10 DEF Owns, Fewer
<1>12. Ended(PageFreed(x), s, t, q0)
  BY <1>8, <1>11, PageFreedOK
<1>13. PICK v : v = PageFreed(x)
  OBVIOUS
<1>14. Ended(v, s, t, tld[t].spans) /\ Done(v, t) /\ segment[s].thread_id = t
  BY <1>1, <1>12, <1>13 DEF Owned, q0
<1> QED
  BY <1>1, <1>14, CallDone

LEMMA PageAbandonFits ==
  ASSUME Fits(segment, tld, blocks), NEW t \in Threads, NEW s \in Addresses, NEW i, PageAbandon(t, s, i)
  PROVE  Fits(segment', tld', blocks')
<1> DEFINE w == World(t, s)
           q0 == tld[t].spans
<1>1. /\ Owned(t, s) /\ i \in Pages(segment[s]) \ segment[s].orphans
      /\ Done(AbandonPage(w, i), t) /\ UNCHANGED blocks
  BY DEF PageAbandon
<1>2. PICK T, P : OwnStart(w, t, s, T, P)
  BY <1>1, OwnedStart
<1> HIDE DEF w, q0
<1>3. /\ Owns(w, q0, T, P, t) /\ Held(w.g, s, T, P, blocks) /\ w.s = s /\ w.g = segment[s]
  BY <1>2 DEF OwnStart, q0
<1>4. i \in P /\ i # 0 /\ i \notin w.g.orphans
  BY <1>1, <1>3, HeldSpans
<1>5. Ended(AbandonPage(w, i), w.s, t, q0)
  BY <1>3, <1>4, AbandonPageOK
<1>6. PICK v : v = AbandonPage(w, i)
  OBVIOUS
<1>7. Ended(v, s, t, tld[t].spans) /\ Done(v, t) /\ segment[s].thread_id = t
  BY <1>1, <1>3, <1>5, <1>6 DEF Owned, q0
<1> QED
  BY <1>1, <1>7, CallDone

LEMMA SegmentCollectFits ==
  ASSUME Fits(segment, tld, blocks), NEW t \in Threads, NEW s \in Addresses, NEW force, SegmentCollect(t, s, force)
  PROVE  Fits(segment', tld', blocks')
<1> DEFINE w == World(t, s)
           q0 == tld[t].spans
           x == Purged(w, force)
<1>1. Owned(t, s) /\ Done(x, t) /\ UNCHANGED blocks
  BY DEF SegmentCollect, Purged
<1>2. PICK T, P : OwnStart(w, t, s, T, P)
  BY <1>1, OwnedStart
<1> HIDE DEF w, q0
<1>3. Owns(w, q0, T, P, t) /\ w.s = s /\ (w.g.used = w.g.abandoned => w.g.used = 0)
  BY <1>2 DEF OwnStart, q0
<1>4. Sound(w, q0, T, P, SLICES)
  BY <1>3 DEF Owns
<1> HIDE DEF x
<1>5. PurgedFrom(w, x, q0, T, P, SLICES)
  BY <1>4, TryPurgeSound DEF x
<1>6. Owns(x, q0, T, P, t) /\ x.s = s /\ (x.g.used = x.g.abandoned => x.g.used = 0)
  BY <1>3, <1>5 DEF Owns, PurgedFrom, Same
<1>7. Ended(x, s, t, q0)
  BY <1>6, StillOwns
<1>8. PICK v : v = x
  OBVIOUS
<1>9. Ended(v, s, t, tld[t].spans) /\ Done(v, t) /\ segment[s].thread_id = t
  BY <1>1, <1>7, <1>8 DEF Owned, q0
<1> QED
  BY <1>1, <1>9, CallDone

LEMMA AttemptReclaimFits ==
  ASSUME Fits(segment, tld, blocks), NEW t \in Threads, NEW s \in Addresses, AttemptReclaim(t, s)
  PROVE  Fits(segment', tld', blocks')
<1> DEFINE w == World(t, s)
           q0 == tld[t].spans
           x == SegmentReclaim(w, t)
<1>1. IsAbandoned(segment[s]) /\ Done(x, t) /\ UNCHANGED blocks
  BY DEF AttemptReclaim
<1>2. PICK T, P : OrphanStart(w, t, s, T, P)
  BY <1>1, AbandonedStart
<1> HIDE DEF w, q0
<1>3. Orphanage(w, q0, T, P) /\ w.s = s
  BY <1>2 DEF OrphanStart, q0
<1>4. Ended(x, w.s, t, q0)
  BY <1>3, SegmentReclaimOK
<1>5. PICK v : v = x
  OBVIOUS
<1>6. Ended(v, s, t, tld[t].spans) /\ Done(v, t) /\ segment[s].thread_id = NoThread
  BY <1>1, <1>3, <1>4, <1>5 DEF IsAbandoned, q0
<1> QED
  BY <1>1, <1>6, CallDone

LEMMA AbandonedCollectFits ==
  ASSUME Fits(segment, tld, blocks), NEW t \in Threads, NEW s \in Addresses, NEW force, AbandonedCollect(t, s, force)
  PROVE  Fits(segment', tld', blocks')
<1> DEFINE w == World(t, s)
           q0 == tld[t].spans
           w1 == CheckFree(w)
           x == IF w1.g.used = 0 THEN SegmentReclaim(w1, t) ELSE Purged(w1, force)
<1>1. IsAbandoned(segment[s]) /\ Done(x, t) /\ UNCHANGED blocks
  BY DEF AbandonedCollect, Purged
<1>2. PICK T, P : OrphanStart(w, t, s, T, P)
  BY <1>1, AbandonedStart
<1> HIDE DEF w, q0
<1>3. Orphanage(w, q0, T, P) /\ w.s = s /\ w.at = 0
  BY <1>2 DEF OrphanStart, q0
<1>4. PICK U, Q : Orphanage(w1, q0, U, Q) /\ w1.s = s
  BY <1>3, CheckFreeOK
<1> HIDE DEF w1
<1>5. Ended(SegmentReclaim(w1, t), w1.s, t, q0)
  BY <1>4, SegmentReclaimOK
<1>6. Ended(Purged(w1, force), w1.s, t, q0)
  BY <1>4, PurgedOrphanage
<1>7. Ended(x, s, t, q0)
  BY <1>4, <1>5, <1>6
<1> HIDE DEF x
<1>8. PICK v : v = x
  OBVIOUS
<1>9. Ended(v, s, t, tld[t].spans) /\ Done(v, t) /\ segment[s].thread_id = NoThread
  BY <1>1, <1>7, <1>8 DEF IsAbandoned, q0
<1> QED
  BY <1>1, <1>9, CallDone

\* The segment has been visited once more.
Visited(w) == [w EXCEPT !.g.abandoned_visits = @ + 1]

LEMMA VisitedOK ==
  ASSUME NEW w, NEW q0, NEW T, NEW P, Orphanage(w, q0, T, P)
  PROVE  Orphanage(Visited(w), q0, T, P) /\ Visited(w).s = w.s /\ Visited(w).at = w.at
<1> DEFINE g == w.g
           n == g.abandoned_visits + 1
           h == [g EXCEPT !.abandoned_visits = n]
           v == Visited(w)
<1>1. Sound(w, q0, T, P, SLICES) /\ w.g.orphans = P \ {0} /\ w.g.abandoned = Cardinality(w.g.orphans)
      /\ w.g.dont_free = FALSE /\ w.g.thread_id = NoThread
  BY DEF Orphanage
<1>2. w \in Worlds
  BY <1>1 DEF Sound, WorldOK
<1>3. g \in SegRec /\ n \in Int
  BY <1>2, WorldParts DEF SegRec
<1>4. v = SetSegment(w, h)
  BY DEF Visited, SetSegment
<1> HIDE DEF g, n, v
<1>5. h \in SegRec
  BY <1>3 DEF SegRec
<1>6. Same(g, h) /\ MasksEqual(g, h) /\ h.slices = g.slices
  BY <1>3, <1>5 DEF SegRec, Same, MasksEqual
<1> HIDE DEF h
<1>7. v \in Worlds /\ v.s = w.s /\ v.at = w.at /\ v.tld = w.tld /\ v.g = h
  BY <1>2, <1>4, <1>5, SetSegmentIs
<1>8. SameSegment(w, v)
  BY <1>6, <1>7 DEF SameSegment, g
<1>9. Sound(v, q0, T, P, SLICES)
  BY <1>1, <1>8, SoundSame
<1> QED
  BY ZenonT(30), <1>1, <1>6, <1>7, <1>9 DEF Orphanage, Same, v, g

LEMMA TryReclaimFits ==
  ASSUME Fits(segment, tld, blocks), NEW t \in Threads, NEW s \in Addresses, NEW page, TryReclaim(t, s, page)
  PROVE  Fits(segment', tld', blocks')
<1> DEFINE w == World(t, s)
           q0 == tld[t].spans
           w0 == Visited(w)
           w1 == CheckFree(w0)
<1>1. /\ IsAbandoned(segment[s]) /\ UNCHANGED blocks
      /\ Done(SegmentReclaim(w1, t), t) \/ Done(Purged(w1, FALSE), t)
  BY DEF TryReclaim, Purged, Visited
<1>2. PICK T, P : OrphanStart(w, t, s, T, P)
  BY <1>1, AbandonedStart
<1> HIDE DEF w, q0
<1>3. Orphanage(w, q0, T, P) /\ w.s = s /\ w.at = 0
  BY <1>2 DEF OrphanStart, q0
<1> HIDE DEF w0
<1>4. Orphanage(w0, q0, T, P) /\ w0.s = s /\ w0.at = 0
  BY <1>3, VisitedOK DEF w0
<1>5. PICK U, Q : Orphanage(w1, q0, U, Q) /\ w1.s = s
  BY <1>4, CheckFreeOK
<1> HIDE DEF w1
<1>6. Ended(SegmentReclaim(w1, t), w1.s, t, q0)
  BY <1>5, SegmentReclaimOK
<1>7. Ended(Purged(w1, FALSE), w1.s, t, q0)
  BY ZenonT(30), <1>5, PurgedOrphanage
<1>8. PICK v : Ended(v, s, t, q0) /\ Done(v, t)
  BY ZenonT(30), <1>1, <1>5, <1>6, <1>7
<1>9. Ended(v, s, t, tld[t].spans) /\ segment[s].thread_id = NoThread
  BY <1>1, <1>8 DEF IsAbandoned, q0
<1> QED
  BY <1>1, <1>8, <1>9, CallDone

LEMMA ForceAbandonFits ==
  ASSUME Fits(segment, tld, blocks), NEW t \in Threads, NEW s \in Addresses, ForceAbandon(t, s)
  PROVE  Fits(segment', tld', blocks')
<1> DEFINE w == World(t, s)
           q0 == tld[t].spans
           w1 == Marked(w, TRUE)
<1>1. /\ Owned(t, s) /\ segment[s].orphans = {} /\ segment[s].used > 0 /\ UNCHANGED blocks
  BY DEF ForceAbandon
<1>2. PICK l : IsLoop("force", w1, Start(w1), l) /\ Done(Marked(l[SLICES], FALSE), t)
  <2> DEFINE Value(l, k) == IF k = 0 THEN Start(w1)
                            ELSE IF l[k - 1].at = k - 1 THEN ForceAbandonSpan(l[k - 1]) ELSE l[k - 1]
             l == CHOOSE l : l = [k \in Entries |-> Value(l, k)]
  <2>1. Done(Marked(l[SLICES], FALSE), t)
    BY DEF ForceAbandon, Marked
  <2> HIDE DEF w1
  <2>2. \E f : IsLoop("force", w1, Start(w1), f) /\ f = [k \in Entries |-> Value(f, k)]
    BY ForceAbandonBy DEF w1
  <2>3. l = [k \in Entries |-> Value(l, k)]
    BY ZenonT(30), <2>2
  <2> HIDE DEF l
  <2>4. l = [k \in Entries |-> l[k]] /\ \A k \in Entries : l[k] = Value(l, k)
    BY ZenonT(30), <2>3
  <2>5. IsLoop("force", w1, Start(w1), l)
    BY <2>4 DEF IsLoop, Round
  <2> QED
    BY ZenonT(30), <2>1, <2>5
<1>3. PICK T, P : OwnStart(w, t, s, T, P)
  BY <1>1, OwnedStart
<1> HIDE DEF w, q0
<1>4. Owns(w, q0, T, P, t) /\ w.s = s /\ w.at = 0 /\ w.g = segment[s]
  BY <1>3 DEF OwnStart, q0
<1>5. w.g.orphans = {} /\ w.g.used # 0
  <2>1. w.g.used > 0
    BY <1>1, <1>4
  <2> QED
    BY <1>1, <1>4, <2>1
<1>6. Ended(Marked(l[SLICES], FALSE), w.s, t, q0)
  BY ZenonT(30), <1>2, <1>4, <1>5, ForceAbandonOK
<1>7. PICK v : v = Marked(l[SLICES], FALSE)
  BY ZenonT(30)
<1>8. Ended(v, s, t, tld[t].spans) /\ Done(v, t) /\ segment[s].thread_id = t
  BY ZenonT(30), <1>1, <1>2, <1>4, <1>6, <1>7 DEF Owned, q0
<1> QED
  BY <1>1, <1>8, CallDone

\* With other blocks the queues and the segments fit as before.
LEMMA BlocksChange ==
  ASSUME Fits(segment, tld, blocks), UNCHANGED <<segment, tld>>, blocks' \subseteq Blocks,
         \A s \in Addresses : SegmentIs(segment[s], s, blocks')
  PROVE  Fits(segment', tld', blocks')
BY DEF Fits

LEMMA BlockFreeFits ==
  ASSUME Fits(segment, tld, blocks), NEW b, BlockFree(b)
  PROVE  Fits(segment', tld', blocks')
<1>1. UNCHANGED <<segment, tld>> /\ blocks' \subseteq blocks
  BY DEF BlockFree
<1>2. blocks \subseteq Blocks /\ \A s \in Addresses : SegmentIs(segment[s], s, blocks)
  BY DEF Fits
<1>3. ASSUME NEW s \in Addresses PROVE SegmentIs(segment[s], s, blocks')
  <2>1. SegmentIs(segment[s], s, blocks)
    BY <1>2
  <2>2. \A c \in blocks' : c.seg = s => c \in blocks
    BY <1>1
  <2> QED
    BY <2>1, <2>2, OtherBlocks
<1> QED
  BY <1>1, <1>2, <1>3, BlocksChange

LEMMA TimePassesFits ==
  ASSUME Fits(segment, tld, blocks), NEW s \in Addresses, TimePasses(s)
  PROVE  Fits(segment', tld', blocks')
<1> DEFINE g == segment[s]
           x == g.purge_expire + 1
           h == [g EXCEPT !.purge_expire = x]
<1>1. /\ g.purge_expire \in {FUTURE, PASSED} /\ segment' = [segment EXCEPT ![s] = h]
      /\ UNCHANGED <<tld, blocks>>
  BY DEF TimePasses
<1>2. /\ segment \in [Addresses -> SegRec] /\ tld \in [Threads -> TldRec] /\ blocks \subseteq Blocks
      /\ \A a \in Addresses : SegmentIs(segment[a], a, blocks)
      /\ \A t \in Threads : QueuesOK(segment, tld[t], t)
  BY DEF Fits
<1>3. g \in SegRec /\ x \in UNSET .. LONGPASSED /\ x # UNSET
  BY <1>1, <1>2 DEF UNSET, FUTURE, PASSED, LONGPASSED
<1>4. SegmentIs(g, s, blocks) /\ g # NoSegment
  BY <1>1, <1>2, NoSegmentHas DEF FUTURE, PASSED, UNSET
<1> HIDE DEF g, x
<1>5. h \in SegRec /\ h.purge_expire = x
  BY <1>3 DEF SegRec
<1>6. /\ Same(g, h) /\ h.slices = g.slices /\ h.commit_mask = g.commit_mask
      /\ h.purge_mask = g.purge_mask /\ h.os = g.os
  BY <1>3, <1>5 DEF SegRec, Same
<1> HIDE DEF h
<1>7. PICK T, P : Held(g, s, T, P, blocks)
  BY <1>4 DEF SegmentIs
<1>8. MaskOK(h, InUse(h.slices, P))
  <2>1. MaskOK(g, InUse(g.slices, P))
    BY <1>7 DEF Held
  <2> QED
    BY <1>3, <1>5, <1>6, <2>1 DEF MaskOK
<1>9. Held(h, s, T, P, blocks)
  BY <1>5, <1>6, <1>7, <1>8 DEF Held, Same
<1>10. \A t : QueuedOf(h, t) = QueuedOf(g, t)
  <2>1. FreeSpans(h) = T \ P
    BY <1>9, HeldSpans
  <2>2. FreeSpans(g) = T \ P
    BY <1>7, HeldSpans
  <2> QED
    BY <1>6, <2>1, <2>2 DEF QueuedOf, Same
<1>11. /\ segment' \in [Addresses -> SegRec] /\ segment'[s] = h
       /\ \A a \in Addresses : a # s => segment'[a] = segment[a]
  BY <1>1, <1>2, <1>5
<1>12. \A a \in Addresses : SegmentIs(segment'[a], a, blocks)
  BY <1>2, <1>9, <1>11 DEF SegmentIs
<1>13. ASSUME NEW t \in Threads PROVE QueuesOK(segment', tld[t], t)
  <2>1. \A a \in Addresses : QueuedOf(segment'[a], t) = QueuedOf(segment[a], t)
    BY <1>10, <1>11 DEF g
  <2>2. QueuesOK(segment, tld[t], t)
    BY <1>2
  <2> QED
    BY <2>1, <2>2 DEF QueuesOK
<1> QED
  BY ZenonT(30), <1>1, <1>2, <1>11, <1>12, <1>13 DEF Fits

\* Blocks of a page are at multiples of its block size, which fit in the page.
LEMMA MultipleFits ==
  ASSUME NEW c \in Nat, NEW z \in Nat \ {0}, NEW k \in 0 .. c \div z - 1
  PROVE  k \in Nat /\ k * z \in Nat /\ k * z + z <= c
<1>1. c \div z \in Nat /\ (c \div z) * z <= c
  <2>1. c = z * (c \div z) + (c % z) /\ c % z \in 0 .. z - 1 /\ c \div z \in Int
    OBVIOUS
  <2> QED
    BY <2>1
<1>2. k \in Nat /\ k + 1 <= c \div z
  BY <1>1
<1>3. (k + 1) * z <= (c \div z) * z
  BY <1>1, <1>2
<1>4. (k + 1) * z = k * z + z /\ k * z \in Nat
  BY <1>2
<1> QED
  BY <1>1, <1>2, <1>3, <1>4

LEMMA BlockAllocFits ==
  ASSUME Fits(segment, tld, blocks), NEW t \in Threads, BlockAlloc(t)
  PROVE  Fits(segment', tld', blocks')
<1>0. PICK s \in Addresses : \E i \in Pages(segment[s]) :
        /\ Owned(t, s) /\ UNCHANGED <<segment, tld>>
        /\ LET sl == segment[s].slices[i]
           IN \E k \in 0 .. sl.slice_count \div sl.size - 1 :
                blocks' = blocks \cup {[seg |-> s, page |-> i, start |-> i + k * sl.size, len |-> sl.size]}
  BY DEF BlockAlloc
<1>1. PICK i \in Pages(segment[s]) :
        /\ Owned(t, s) /\ UNCHANGED <<segment, tld>>
        /\ LET sl == segment[s].slices[i]
           IN \E k \in 0 .. sl.slice_count \div sl.size - 1 :
                blocks' = blocks \cup {[seg |-> s, page |-> i, start |-> i + k * sl.size, len |-> sl.size]}
  BY <1>0
<1> DEFINE g == segment[s]
           c == g.slices[i].slice_count
           z == g.slices[i].size
<1>2. PICK k \in 0 .. c \div z - 1 :
        blocks' = blocks \cup {[seg |-> s, page |-> i, start |-> i + k * z, len |-> z]}
  BY <1>1
<1> DEFINE a == i + k * z
           b == [seg |-> s, page |-> i, start |-> a, len |-> z]
<1>3. /\ \A r \in Addresses : SegmentIs(segment[r], r, blocks)
      /\ blocks \subseteq Blocks
  BY DEF Fits
<1>4. PICK T, P : Held(g, s, T, P, blocks)
  BY <1>1, <1>3, NoSegmentHas DEF SegmentIs, Owned
<1>5. i \in P \ {0}
  BY <1>4, HeldSpans
<1>6. /\ BlocksIn(blocks, g.slices, P, s) /\ P \subseteq T /\ Tiled(g.slices, T)
  BY <1>4 DEF Held, TilesOK
<1>7. z \in Nat \ {0}
  BY <1>5, <1>6 DEF BlocksIn
<1>8. c \in Nat /\ i \in Nat /\ i \in Slices
  BY <1>5, <1>6, SizesAssumption DEF Tiled, Slices
<1> HIDE DEF g, c, z
<1>9. k \in Nat /\ k * z \in Nat /\ k * z + z <= c
  BY <1>7, <1>8, MultipleFits
<1>10. a \in Nat /\ a + z <= i + c
  <2>1. \A m \in Nat : m + z <= c => i + m \in Nat /\ i + m + z <= i + c
    BY <1>7, <1>8
  <2> QED
    BY <1>9, <2>1
<1>11. BlockIn(g.slices, P, b)
  <2>1. b.page = i /\ b.start = a /\ b.len = z
    OBVIOUS
  <2>2. \E j \in Nat : a = i + j * z
    BY <1>9
  <2> HIDE DEF b, a
  <2> QED
    BY <1>5, <1>10, <2>1, <2>2 DEF BlockIn, c, z
<1>12. b \in Blocks /\ b.seg = s
  BY <1>7, <1>8, <1>10 DEF Blocks
<1>13. blocks' = blocks \cup {b}
  BY <1>2
<1> HIDE DEF b, a
<1>14. Held(g, s, T, P, blocks')
  <2>1. BlocksIn(blocks', g.slices, P, s)
    BY <1>6, <1>11, <1>13 DEF BlocksIn
  <2> QED
    BY <1>4, <2>1 DEF Held
<1>15. ASSUME NEW r \in Addresses PROVE SegmentIs(segment[r], r, blocks')
  <2>1. CASE r = s
    BY <1>14, <2>1 DEF SegmentIs, g
  <2>2. CASE r # s
    <3>1. SegmentIs(segment[r], r, blocks)
      BY <1>3
    <3>2. \A d \in blocks' : d.seg = r => d \in blocks
      BY <1>12, <1>13, <2>2
    <3> QED
      BY <3>1, <3>2, OtherBlocks
  <2> QED
    BY <2>1, <2>2
<1>16. blocks' \subseteq Blocks
  BY <1>3, <1>12, <1>13
<1> QED
  BY ZenonT(30), <1>1, <1>15, <1>16, BlocksChange

-----------------------------------------------------------------------------
(* Allocating a span.                                                       *)

PageFits(kind, i, n) == (kind = "NORMAL" => i + n <= SLICES) /\ (kind = "HUGE" => i \in {0, INFO})

\* h is f with a page of n slices at i.
PageAt(f, kind, i, n, h) ==
  /\ h \in [Entries -> SliceRecord]
  /\ h[i].slice_count = n /\ h[i].slice_offset = 0 /\ h[i].block_size = n /\ h[i].size = 0
  /\ \A k \in Entries : k < i \/ k >= i + n => h[k] = f[k]
  /\ PageFits(kind, i, n) => SpanOK(h, kind, i, TRUE)

PageHas(kind, i, n, h) ==
  /\ SpanOK(h, kind, i, TRUE) /\ h[i].slice_count = n /\ h[i].slice_offset = 0 /\ h[i].block_size = n
  /\ h \in [Entries -> SliceRecord]

LEMMA PageIs ==
  ASSUME NEW f, NEW kind, NEW i, NEW n, NEW h, PageAt(f, kind, i, n, h), PageFits(kind, i, n)
  PROVE  PageHas(kind, i, n, h)
BY ZenonT(30) DEF PageAt, PageHas

LEMMA PageEntriesOK ==
  ASSUME NEW g, g.slices \in [Entries -> SliceRecord], NEW kind, NEW i \in Slices, NEW n \in Nat \ {0}
  PROVE  PageAt(g.slices, kind, i, n, PageEntries(g, i, n))
<1> DEFINE f == g.slices
           m == PA_MAX_SLICE_OFFSET_COUNT
           extra == IF n - 1 > m THEN m ELSE n - 1
           last == IF i + n - 1 > SLICES THEN SLICES ELSE i + n - 1
           first == [slice_count |-> n, slice_offset |-> 0, block_size |-> n, size |-> 0]
           Leads(k) == k = last \/ (i < k /\ k <= i + extra /\ k < SLICES)
           h == [k \in Entries |-> IF k = i THEN first ELSE IF Leads(k) THEN Inner(k - i) ELSE f[k]]
<1>1. PageEntries(g, i, n) = h
  BY DEF PageEntries
<1>2. SLICES \in Nat /\ m \in Int /\ i \in Nat /\ i < SLICES /\ i \in Entries
  BY SizesAssumption DEF Slices, Entries, PA_MAX_SLICE_OFFSET_COUNT
<1>3. first \in SliceRecord /\ first.slice_count = n /\ first.slice_offset = 0 /\ first.block_size = n /\ first.size = 0
  BY DEF SliceRecord
<1>4. \A d \in Int : Inner(d) \in SliceRecord /\ Inner(d).slice_offset = d
  BY DEF Inner, SliceRecord
<1>5. last \in Nat /\ extra \in Int /\ i <= last /\ last <= i + n - 1 /\ extra <= n - 1 /\ extra <= m
  BY <1>2
<1>6. \A k \in Slices : k \in Entries /\ k \in Nat /\ k < SLICES
  BY <1>2 DEF Slices, Entries
<1>7. \A k \in Nat : k < i \/ k >= i + n => k # i /\ ~Leads(k)
  BY <1>2, <1>5
<1>8. \A k \in Nat : /\ i < k /\ k < i + n /\ k < SLICES
                     /\ k = i + n - 1 \/ k - i <= m
                     => Leads(k)
  BY <1>2
<1> HIDE DEF m, extra, last, first, Leads
<1>9. \A k \in Entries : h[k] \in SliceRecord
  <2>1. \A k \in Entries : k - i \in Int /\ f[k] \in SliceRecord
    BY <1>2 DEF Entries
  <2> QED
    BY <1>3, <1>4, <2>1
<1>10. h \in [Entries -> SliceRecord]
  BY <1>9
<1>11. h[i] = first
  BY <1>2
<1>12. \A k \in Entries : k \in Nat /\ (k < i \/ k >= i + n) => h[k] = f[k]
  BY <1>7
<1>13. ASSUME NEW k \in Slices, i <= k, k < i + n, k = i + n - 1 \/ k - i <= m
       PROVE  k - h[k].slice_offset = i
  <2>1. CASE k = i
    BY <1>2, <1>3, <1>11, <2>1
  <2>2. CASE k # i
    <3>1. k \in Entries /\ k \in Nat /\ i < k /\ k < SLICES
      BY <1>2, <1>6, <1>13, <2>2
    <3>2. Leads(k)
      BY <1>8, <1>13, <3>1
    <3>3. h[k] = Inner(k - i) /\ k - i \in Int
      BY <1>2, <2>2, <3>1, <3>2
    <3>4. h[k].slice_offset = k - i
      BY <1>4, <3>3
    <3> HIDE DEF h
    <3> QED
      BY <1>2, <3>1, <3>4
  <2> QED
    BY <2>1, <2>2
<1> HIDE DEF h
<1>14. PageFits(kind, i, n) => SpanOK(h, kind, i, TRUE)
  <2>1. h[i].block_size = n /\ h[i].slice_offset = 0 /\ h[i].slice_count = n /\ n # 0 /\ n \in Nat
    BY <1>3, <1>11
  <2>2. \A k \in Slices : /\ i <= k /\ k < i + h[i].slice_count
                          /\ k = i + h[i].slice_count - 1 \/ k - i <= m
                          => k - h[k].slice_offset = i
    BY <1>13, <2>1
  <2> QED
    BY <2>1, <2>2 DEF SpanOK, PageFits, m
<1>15. \A k \in Entries : k < i \/ k >= i + n => h[k] = f[k]
  BY <1>2, <1>12 DEF Entries
<1> QED
  BY ZenonT(30), <1>1, <1>3, <1>10, <1>11, <1>14, <1>15 DEF PageAt

\* The answer r of a call for a page of n slices at i.
Allocated(g, U, i, n, ok, r) ==
  /\ r.ok \in BOOLEAN /\ (ok => r.ok) /\ (~r.ok => r.g = g)
  /\ r.ok => /\ r.g \in SegRec /\ r.g.kind = g.kind /\ r.g.thread_id = g.thread_id /\ r.g.used = g.used + 1
             /\ r.g.abandoned = g.abandoned /\ r.g.dont_free = g.dont_free
             /\ r.g.orphans = g.orphans /\ r.g.dirty = g.dirty
             /\ PageAt(g.slices, g.kind, i, n, r.g.slices)
             /\ MaskOK(r.g, U \cup Mask(i, n))

\* A page is committed before it is used (segment.c:786).
LEMMA SpanAllocateOK ==
  ASSUME NEW g \in SegRec, NEW U, MaskOK(g, U), NEW i \in Slices, NEW n \in Nat \ {0}, NEW ok \in BOOLEAN
  PROVE  Allocated(g, U, i, n, ok, SpanAllocate(g, i, n, ok))
<1> DEFINE c == EnsureCommitted(g, Mask(i, n), ok)
           h == c.g
           f == PageEntries(h, i, n)
           z == IF g.free_is_zero THEN h.zero_init \cup {i} ELSE h.zero_init \ {i}
           u == h.used + 1
           x == [h EXCEPT !.slices = f, !.used = u, !.zero_init = z]
           r == SpanAllocate(g, i, n, ok)
<1>1. Mask(i, n) \in SUBSET Slices
  BY DEF Mask
<1>2. Committed(g, U, Mask(i, n), ok, c)
  BY <1>1, EnsureCommittedOK
<1> HIDE DEF c
<1>3. /\ c.ok \in BOOLEAN /\ (ok => c.ok) /\ (~c.ok => h = g)
      /\ Same(g, h) /\ h.slices = g.slices /\ (c.ok => MaskOK(h, U \cup Mask(i, n)))
  BY <1>2 DEF Committed
<1>4. IF c.ok THEN r = [ok |-> TRUE, g |-> x] ELSE r = c
  BY DEF SpanAllocate, c
<1> HIDE DEF r
<1>5. g.slices \in [Entries -> SliceRecord] /\ h \in SegRec
  BY <1>3 DEF Same, SegRec
<1>6. PageAt(g.slices, g.kind, i, n, f)
  BY ZenonT(30), <1>3, <1>5, PageEntriesOK
<1> HIDE DEF h
<1>7. f \in [Entries -> SliceRecord] /\ u \in Int /\ z \in SUBSET Slices
  BY <1>5, <1>6 DEF PageAt, SegRec
<1> HIDE DEF f, u, z
<1>8. x \in SegRec
  BY ZenonT(30), <1>5, <1>7 DEF SegRec
<1>9. /\ x.slices = f /\ x.used = u /\ MasksEqual(h, x) /\ x.kind = h.kind /\ x.thread_id = h.thread_id
      /\ x.abandoned = h.abandoned /\ x.dont_free = h.dont_free /\ x.orphans = h.orphans /\ x.dirty = h.dirty
  BY <1>5 DEF SegRec, MasksEqual
<1> HIDE DEF x
<1>10. ASSUME ~c.ok PROVE Allocated(g, U, i, n, ok, r)
  <2>1. r = c /\ c.g = g
    BY <1>3, <1>4, <1>10 DEF h
  <2> QED
    BY <1>3, <1>10, <2>1 DEF Allocated
<1>11. ASSUME c.ok PROVE Allocated(g, U, i, n, ok, r)
  <2>1. r.ok = TRUE /\ r.g = x
    BY <1>4, <1>11
  <2>2. MaskOK(x, U \cup Mask(i, n))
    BY <1>3, <1>9, <1>11, MasksEqualOK
  <2> QED
    BY ZenonT(30), <1>3, <1>6, <1>8, <1>9, <2>1, <2>2 DEF Allocated, Same, u
<1> QED
  BY <1>3, <1>10, <1>11 DEF r

\* A segment with nothing but its structure.
Empty(h, kind, t) ==
  /\ h \in SegRec /\ h.kind = kind /\ h.thread_id = t /\ h.used = 0 /\ h.abandoned = 0
  /\ h.dont_free = FALSE /\ h.orphans = {} /\ h.dirty = {}
  /\ PageAt(NoSegment.slices, kind, 0, INFO, h.slices) /\ MaskOK(h, Mask(0, INFO))

LEMMA InfoFits ==
  SLICES \in Nat /\ INFO \in Nat \ {0} /\ INFO < SLICES /\ 0 \in Slices /\ INFO \in Slices
  /\ HUGE \in Nat /\ HUGE >= SLICES
BY SizesAssumption DEF Slices

LEMMA FreshOK ==
  ASSUME NEW t \in Threads, NEW kind \in {"NORMAL", "HUGE"}, NEW committed \in BOOLEAN, NEW zero \in BOOLEAN
  PROVE  Empty(Fresh(t, kind, committed, zero), kind, t)
<1> DEFINE mask == IF committed THEN Slices ELSE Mask(0, INFO)
           g == [NoSegment EXCEPT !.kind = kind, !.thread_id = t, !.free_is_zero = zero,
                                  !.commit_mask = mask, !.os = mask]
           r == SpanAllocate(g, 0, INFO, TRUE)
           x == r.g
           h == [x EXCEPT !.used = 0, !.zero_init = {}]
<1>1. mask \in SUBSET Slices
  BY DEF Mask
<1>2. Fresh(t, kind, committed, zero) = h
  BY DEF Fresh
<1> HIDE DEF mask
<1>3. g \in SegRec
  BY ZenonT(30), <1>1, NoSegmentIs DEF SegRec
<1>4. /\ g.kind = kind /\ g.thread_id = t /\ g.used = 0 /\ g.abandoned = 0 /\ g.dont_free = FALSE
      /\ g.orphans = {} /\ g.dirty = {} /\ g.slices = NoSegment.slices
      /\ g.purge_mask = {} /\ g.commit_mask = mask /\ g.os = mask
  BY DEF NoSegment
<1> HIDE DEF g
<1>5. MaskOK(g, {})
  BY <1>4 DEF MaskOK
<1>6. Allocated(g, {}, 0, INFO, TRUE, r)
  BY ZenonT(30), <1>3, <1>5, InfoFits, SpanAllocateOK
<1> HIDE DEF r
<1>7. /\ x \in SegRec /\ x.kind = kind /\ x.thread_id = t /\ x.used = 1 /\ x.abandoned = 0 /\ x.dont_free = FALSE
      /\ x.orphans = {} /\ x.dirty = {}
      /\ PageAt(NoSegment.slices, kind, 0, INFO, x.slices) /\ MaskOK(x, Mask(0, INFO))
  BY <1>4, <1>6 DEF Allocated
<1> HIDE DEF x
<1>8. h \in SegRec
  BY ZenonT(30), <1>7 DEF SegRec
<1>9. /\ h.kind = x.kind /\ h.thread_id = x.thread_id /\ h.used = 0 /\ h.abandoned = x.abandoned
      /\ h.dont_free = x.dont_free /\ h.orphans = x.orphans /\ h.dirty = x.dirty
      /\ MasksEqual(x, h) /\ h.slices = x.slices
  BY <1>7 DEF SegRec, MasksEqual
<1> HIDE DEF h
<1>10. MaskOK(h, Mask(0, INFO))
  BY <1>7, <1>9, MasksEqualOK
<1>11. Empty(h, kind, t)
  BY <1>7, <1>8, <1>9, <1>10 DEF Empty
<1> QED
  BY <1>2, <1>11

\* The world of a segment that has just been allocated.
FreshWorld(w, t, s, kind) ==
  /\ w \in Worlds /\ w.s = s /\ Empty(w.g, kind, t)
  /\ QueueOK(w.tld.spans, tld[t].spans, s, {})
  /\ \A b \in blocks : b.seg # s

LEMMA FreshStart ==
  ASSUME Fits(segment, tld, blocks), NEW t \in Threads, NEW s \in Addresses, segment[s].kind = "none",
         NEW kind, NEW h, Empty(h, kind, t)
  PROVE  FreshWorld([World(t, s) EXCEPT !.g = h], t, s, kind)
<1> DEFINE w == World(t, s)
           v == SetSegment(w, h)
<1>1. w \in Worlds /\ w.s = s /\ w.tld = tld[t]
  BY WorldIs
<1>2. SegmentIs(segment[s], s, blocks) /\ QueuesOK(segment, tld[t], t)
  BY DEF Fits
<1>3. segment[s] = NoSegment /\ \A b \in blocks : b.seg # s
  BY <1>2 DEF SegmentIs, Held
<1>4. QueueOK(tld[t].spans, tld[t].spans, s, {})
  BY <1>2, <1>3, NoSegmentHas DEF QueuesOK, QueuedOf
<1>5. h \in SegRec
  BY DEF Empty
<1>6. v = [w EXCEPT !.g = h]
  BY DEF SetSegment
<1> HIDE DEF w, v
<1>7. v \in Worlds /\ v.s = w.s /\ v.tld = w.tld /\ v.g = h
  BY <1>1, <1>5, SetSegmentIs DEF v
<1>8. FreshWorld(v, t, s, kind)
  BY <1>1, <1>3, <1>4, <1>7 DEF FreshWorld
<1> QED
  BY <1>6, <1>8 DEF w

LEMMA TrackedEnd ==
  ASSUME NEW v, NEW s, NEW t, NEW q0, NEW B, EndsWith(v, s, t, q0, B), NEW n \in Int
  PROVE  EndsWith(TrackSize(v, n), s, t, q0, B)
<1>1. v \in Worlds
  BY DEF EndsWith
<1>2. SameSegment(v, TrackSize(v, n)) /\ TrackSize(v, n).g = v.g
  BY <1>1, TrackSizeIs
<1> QED
  BY <1>2 DEF EndsWith, SameSegment

\* A segment for pages is one free span behind its structure.
LEMMA SegmentFresh ==
  ASSUME NEW w, NEW t \in Threads, NEW s, FreshWorld(w, t, s, "NORMAL")
  PROVE  EndsWith(SpanFree(w, INFO, SLICES - INFO, FALSE), s, t, tld[t].spans, blocks)
<1> DEFINE f == w.g.slices
           n == SLICES - INFO
           q0 == tld[t].spans
           v == SpanFree(w, INFO, n, FALSE)
           h == v.g.slices
           T == {0, INFO}
<1>1. /\ w \in Worlds /\ w.s = s /\ Empty(w.g, "NORMAL", t) /\ QueueOK(w.tld.spans, q0, s, {})
      /\ \A b \in blocks : b.seg # s
  BY DEF FreshWorld
<1>2. /\ w.g \in SegRec /\ w.g.kind = "NORMAL" /\ w.g.thread_id = t /\ w.g.used = 0 /\ w.g.abandoned = 0
      /\ w.g.dont_free = FALSE /\ w.g.orphans = {} /\ w.g.dirty = {}
      /\ PageAt(NoSegment.slices, "NORMAL", 0, INFO, f) /\ MaskOK(w.g, Mask(0, INFO))
  BY <1>1 DEF Empty
<1>3. n \in Nat \ {0} /\ INFO + n = SLICES /\ INFO \in Nat \ {0} /\ SLICES \in Nat /\ t # NoThread
  BY InfoFits, OptionsAssumption
<1> HIDE DEF n, q0, f, v
<1>4. CanFree(w, INFO, n, FALSE, Mask(0, INFO), q0, {})
  BY <1>1, <1>2, <1>3, InfoFits DEF CanFree
<1>5. SpanFreed(w, v, INFO, n, Mask(0, INFO), q0, {})
  BY ZenonT(30), <1>3, <1>4, SpanFreeWorks DEF v, n
<1>6. /\ v \in Worlds /\ v.s = s /\ Same(w.g, v.g) /\ FreedAt(f, INFO, n, h) /\ MaskOK(v.g, Mask(0, INFO))
      /\ QueueOK(v.tld.spans, q0, s, {<<SliceBin(n), INFO>>})
  BY <1>1, <1>2, <1>3, <1>5 DEF SpanFreed, f
<1> HIDE DEF h
<1>7. h \in [Entries -> SliceRecord] /\ h[INFO].slice_count = n /\ h[INFO].block_size = 0 /\ SpanOK(h, "NORMAL", INFO, FALSE)
      /\ \A k \in Entries : k # INFO /\ k # INFO + n - 1 => h[k] = f[k]
  BY ZenonT(30), <1>6 DEF FreedAt
<1>8. f[0].slice_count = INFO /\ f[0].slice_offset = 0 /\ f[0].block_size = INFO /\ SpanOK(f, "NORMAL", 0, TRUE)
  <2>1. PageFits("NORMAL", 0, INFO)
    BY InfoFits DEF PageFits
  <2>2. PageHas("NORMAL", 0, INFO, f)
    BY <1>2, <2>1, PageIs
  <2> QED
    BY ZenonT(30), <2>2 DEF PageHas
<1>9. \A k \in Nat : k < INFO => k \in Entries /\ k # INFO /\ k # INFO + n - 1
  BY <1>3, InfoFits DEF Entries
<1>10. \A k \in Nat : k < INFO => h[k] = f[k]
  BY <1>7, <1>9
<1>11. h[0] = f[0]
  BY <1>3, <1>10
<1>12. Tiled(h, T)
  BY <1>3, <1>7, <1>8, <1>11, InfoFits DEF Tiled
<1>13. SpanOK(h, "NORMAL", 0, TRUE)
  <2>1. \A k \in Slices : k < 0 + INFO => h[k] = f[k] /\ k \in Nat
    BY <1>3, <1>10 DEF Slices
  <2> QED
    BY <1>8, <1>11, <2>1 DEF SpanOK
<1>14. TilesOK(h, "NORMAL", T, {0})
  <2>1. \A i \in T : SpanOK(h, "NORMAL", i, i \in {0})
    <3>1. (0 \in {0}) = TRUE /\ (INFO \in {0}) = FALSE
      BY <1>3
    <3> QED
      BY ZenonT(30), <1>7, <1>13, <3>1
  <2>2. \A i, j \in T : h[i].block_size = 0 /\ j = i + h[i].slice_count => h[j].block_size # 0
    BY <1>3, <1>7, <1>8, <1>11, InfoFits
  <2> QED
    BY <1>7, <1>12, <2>1, <2>2 DEF TilesOK
<1>15. Clean(h, T, {0})
  BY <1>3, <1>7 DEF Clean
<1>16. InUse(h, {0}) \subseteq Mask(0, INFO)
  <2>1. \A k \in Slices : k < 0 + INFO => k \in Mask(0, INFO)
    BY <1>3 DEF Slices, Mask
  <2> QED
    BY <1>8, <1>11, <2>1 DEF InUse
<1>17. MaskOK(v.g, InUse(h, {0}))
  BY <1>6, <1>16, MaskLess
<1>18. BlocksIn(blocks, h, {0}, s)
  BY <1>1 DEF BlocksIn
<1>19. {0} \ {0} = {} /\ Cardinality({}) = 0
  BY FS_EmptySet
<1>20. Held(v.g, s, T, {0}, blocks)
  <2>1. /\ v.g \in SegRec /\ v.g.kind = "NORMAL" /\ v.g.thread_id = t /\ v.g.used = 0 /\ v.g.abandoned = 0
        /\ v.g.dont_free = FALSE /\ v.g.orphans = {} /\ v.g.dirty = {}
    BY <1>2, <1>6 DEF Same
  <2> QED
    BY <1>3, <1>14, <1>15, <1>17, <1>18, <1>19, <2>1 DEF Held, h
<1>21. QueuedOf(v.g, t) = {<<SliceBin(n), INFO>>}
  <2>1. FreeSpans(v.g) = {INFO}
    <3>1. FreeSpans(v.g) = T \ {0}
      BY <1>20, HeldSpans
    <3> QED
      BY <1>3, <3>1
  <2>2. Queued(h, {INFO}) = {<<SliceBin(n), INFO>>}
    BY <1>7 DEF Queued
  <2>3. v.g.kind = "NORMAL" /\ v.g.thread_id = t
    BY <1>2, <1>6 DEF Same
  <2> QED
    BY <2>1, <2>2, <2>3 DEF QueuedOf, h
<1>22. EndsWith(v, s, t, q0, blocks)
  <2>1. v.g.thread_id \in {t, NoThread}
    BY <1>2, <1>6 DEF Same
  <2> QED
    BY <1>6, <1>20, <1>21, <2>1 DEF EndsWith, SegmentIs
<1> QED
  BY ZenonT(30), <1>22 DEF v, n, q0

LEMMA SegmentAllocFits ==
  ASSUME Fits(segment, tld, blocks), NEW t \in Threads, NEW page, SegmentAlloc(t, page)
  PROVE  Fits(segment', tld', blocks')
<1>1. PICK s \in Addresses, m \in FreshMemory :
        /\ segment[s].kind = "none"
        /\ Done(TrackSize(SpanFree([World(t, s) EXCEPT !.g = Fresh(t, "NORMAL", m[1], m[2])],
                                   INFO, SLICES - INFO, FALSE), 1), t)
        /\ UNCHANGED blocks
  BY ZenonT(30) DEF SegmentAlloc
<1> DEFINE h == Fresh(t, "NORMAL", m[1], m[2])
           w == [World(t, s) EXCEPT !.g = h]
           x == SpanFree(w, INFO, SLICES - INFO, FALSE)
           y == TrackSize(x, 1)
<1>2. m[1] \in BOOLEAN /\ m[2] \in BOOLEAN
  BY OptionsAssumption
<1>3. Empty(h, "NORMAL", t)
  BY <1>2, FreshOK
<1>4. Done(y, t)
  BY ZenonT(30), <1>1
<1> HIDE DEF h
<1>5. FreshWorld(w, t, s, "NORMAL")
  BY <1>1, <1>3, FreshStart
<1> HIDE DEF w
<1>6. EndsWith(x, s, t, tld[t].spans, blocks)
  BY ZenonT(30), <1>5, SegmentFresh
<1> HIDE DEF x
<1>7. EndsWith(y, s, t, tld[t].spans, blocks)
  BY <1>6, TrackedEnd
<1> HIDE DEF y
<1>8. PICK v : v = y
  OBVIOUS
<1>9. segment[s].thread_id \in {t, NoThread}
  <2>1. SegmentIs(segment[s], s, blocks)
    BY DEF Fits
  <2> QED
    BY <1>1, <2>1, NoSegmentHas DEF SegmentIs, Held
<1>10. EndsWith(v, s, t, tld[t].spans, blocks') /\ Done(v, t) /\ blocks' \subseteq Blocks /\ blocks' = blocks
  BY <1>1, <1>4, <1>7, <1>8 DEF Fits
<1> QED
  BY <1>9, <1>10, DoneKeeps

\* pa_page_init sets the size of the page's blocks.
Sized(g, i, z) == [g EXCEPT !.slices[i].size = z]

SizedFrom(g, h, i, z) ==
  /\ Same(g, h) /\ MasksEqual(g, h)
  /\ h.slices[i].size = z /\ h.slices[i].slice_count = g.slices[i].slice_count
  /\ h.slices[i].slice_offset = g.slices[i].slice_offset /\ h.slices[i].block_size = g.slices[i].block_size
  /\ \A k \in Entries : k # i => h.slices[k] = g.slices[k]

LEMMA SizedIs ==
  ASSUME NEW g \in SegRec, NEW i \in Entries, NEW z \in Nat
  PROVE  SizedFrom(g, Sized(g, i, z), i, z)
<1> DEFINE f == g.slices
           e == f[i]
           x == [e EXCEPT !.size = z]
           y == [f EXCEPT ![i] = x]
           h == [g EXCEPT !.slices = y]
<1>1. f \in [Entries -> SliceRecord] /\ e \in SliceRecord
  BY DEF SegRec
<1>2. Sized(g, i, z) = h
  BY DEF Sized
<1> HIDE DEF f, e
<1>3. x \in SliceRecord /\ x.size = z /\ x.slice_count = e.slice_count /\ x.slice_offset = e.slice_offset
      /\ x.block_size = e.block_size
  BY <1>1 DEF SliceRecord
<1> HIDE DEF x
<1>4. y \in [Entries -> SliceRecord] /\ y[i] = x /\ \A k \in Entries : k # i => y[k] = f[k]
  BY <1>1, <1>3
<1> HIDE DEF y
<1>5. h \in SegRec /\ h.slices = y
  BY <1>4 DEF SegRec
<1>6. Same(g, h) /\ MasksEqual(g, h)
  BY <1>5 DEF SegRec, Same, MasksEqual
<1> HIDE DEF h
<1> QED
  BY <1>2, <1>3, <1>4, <1>5, <1>6 DEF SizedFrom, f, e

\* Changing the size of the blocks changes no span.
LEMMA SizedTiles ==
  ASSUME NEW g, NEW h, NEW i \in Entries, NEW z, SizedFrom(g, h, i, z), NEW kind, NEW T, NEW P,
         TilesOK(g.slices, kind, T, P)
  PROVE  TilesOK(h.slices, kind, T, P) /\ InUse(h.slices, P) = InUse(g.slices, P)
<1> DEFINE f == g.slices
           d == h.slices
<1>1. d \in [Entries -> SliceRecord]
  BY DEF SizedFrom, Same, SegRec
<1>2. \A k \in Entries : /\ d[k].slice_count = f[k].slice_count /\ d[k].slice_offset = f[k].slice_offset
                         /\ d[k].block_size = f[k].block_size
  BY DEF SizedFrom
<1>3. /\ Tiled(f, T) /\ P \subseteq T /\ 0 \in P /\ \A j \in T : SpanOK(f, kind, j, j \in P)
      /\ \A j, k \in T : f[j].block_size = 0 /\ k = j + f[j].slice_count => f[k].block_size # 0
  BY DEF TilesOK
<1> HIDE DEF d, f
<1>4. \A k \in Slices : k \in Entries
  BY SizesAssumption DEF Slices, Entries
<1>5. T \subseteq Slices /\ T \subseteq Entries
  BY <1>3, <1>4 DEF Tiled
<1>6. Tiled(d, T)
  <2>1. \A k \in T : d[k].slice_count = f[k].slice_count
    BY <1>2, <1>5
  <2> QED
    BY <1>3, <2>1 DEF Tiled
<1>7. ASSUME NEW j \in T PROVE SpanOK(d, kind, j, j \in P)
  <2>1. SpanOK(f, kind, j, j \in P)
    BY <1>3
  <2>2. d[j].slice_count = f[j].slice_count /\ d[j].slice_offset = f[j].slice_offset /\ d[j].block_size = f[j].block_size
    BY <1>2, <1>5
  <2>3. \A k \in Slices : d[k].slice_offset = f[k].slice_offset
    BY <1>2, <1>4
  <2> QED
    BY <2>1, <2>2, <2>3 DEF SpanOK
<1>8. \A j, k \in T : d[j].block_size = 0 /\ k = j + d[j].slice_count => d[k].block_size # 0
  BY <1>2, <1>3, <1>5
<1>9. InUse(d, P) = InUse(f, P)
  <2>1. \A k \in P : d[k].slice_count = f[k].slice_count
    BY <1>2, <1>3, <1>5
  <2> QED
    BY <2>1 DEF InUse
<1> QED
  BY <1>1, <1>3, <1>6, <1>7, <1>8, <1>9 DEF TilesOK, d, f

\* The page of a segment of its own, before its size is set.
HugeOne(h, t, n) ==
  /\ h \in SegRec /\ h.kind = "HUGE" /\ h.thread_id = t /\ h.used = 1 /\ h.abandoned = 0
  /\ h.dont_free = FALSE /\ h.orphans = {} /\ h.dirty = {}
  /\ TilesOK(h.slices, "HUGE", {0, INFO}, {0, INFO}) /\ MaskOK(h, InUse(h.slices, {0, INFO}))
  /\ h.slices[INFO].slice_count = n

LEMMA HugePageOK ==
  ASSUME NEW x, NEW t, Empty(x, "HUGE", t), NEW n, n = HUGE - INFO
  PROVE  n \in Nat \ {0} /\ HugeOne(SpanAllocate(x, INFO, n, TRUE).g, t, n)
<1> DEFINE r == SpanAllocate(x, INFO, n, TRUE)
           e == x.slices
           f == r.g.slices
           T == {0, INFO}
<1>1. n \in Nat \ {0} /\ INFO + n = HUGE /\ INFO \in Nat \ {0} /\ SLICES \in Nat /\ INFO < SLICES /\ HUGE >= SLICES
      /\ 0 \in Slices /\ INFO \in Slices
  BY InfoFits
<1>2. /\ x \in SegRec /\ x.kind = "HUGE" /\ x.thread_id = t /\ x.used = 0 /\ x.abandoned = 0
      /\ x.dont_free = FALSE /\ x.orphans = {} /\ x.dirty = {}
      /\ PageAt(NoSegment.slices, "HUGE", 0, INFO, e) /\ MaskOK(x, Mask(0, INFO))
  BY DEF Empty
<1> HIDE DEF r, e
<1>3. Allocated(x, Mask(0, INFO), INFO, n, TRUE, r)
  BY ZenonT(30), <1>1, <1>2, SpanAllocateOK DEF r
<1>4. /\ r.g \in SegRec /\ r.g.kind = "HUGE" /\ r.g.thread_id = t /\ r.g.used = 1 /\ r.g.abandoned = 0
      /\ r.g.dont_free = FALSE /\ r.g.orphans = {} /\ r.g.dirty = {}
      /\ PageAt(e, "HUGE", INFO, n, f) /\ MaskOK(r.g, Mask(0, INFO) \cup Mask(INFO, n))
  BY <1>2, <1>3 DEF Allocated, e
<1> HIDE DEF f
<1>5. PageFits("HUGE", 0, INFO) /\ PageFits("HUGE", INFO, n)
  BY DEF PageFits
<1>6. PageHas("HUGE", 0, INFO, e)
  BY <1>2, <1>5, PageIs
<1>7. PageHas("HUGE", INFO, n, f)
  BY <1>4, <1>5, PageIs
<1>8. \A k \in Entries : k < INFO => f[k] = e[k]
  BY <1>4 DEF PageAt
<1>9. /\ f \in [Entries -> SliceRecord] /\ SpanOK(f, "HUGE", INFO, TRUE) /\ f[INFO].slice_count = n
      /\ f[INFO].block_size = n
  BY ZenonT(30), <1>7 DEF PageHas
<1>10. /\ SpanOK(e, "HUGE", 0, TRUE) /\ e[0].slice_count = INFO /\ e[0].block_size = INFO
  BY ZenonT(30), <1>6 DEF PageHas
<1>11. \A k \in Slices : k \in Entries /\ k \in Nat
  BY <1>1 DEF Slices, Entries
<1>12. f[0] = e[0]
  BY <1>1, <1>8, <1>11
<1>13. Tiled(f, T)
  BY <1>1, <1>9, <1>10, <1>12 DEF Tiled
<1>14. SpanOK(f, "HUGE", 0, TRUE)
  <2>1. \A k \in Slices : k < 0 + INFO => f[k] = e[k]
    BY <1>1, <1>8, <1>11
  <2> QED
    BY <1>10, <1>12, <2>1 DEF SpanOK
<1>15. TilesOK(f, "HUGE", T, T)
  <2>1. \A i \in T : SpanOK(f, "HUGE", i, i \in T)
    <3>1. (0 \in T) = TRUE /\ (INFO \in T) = TRUE
      OBVIOUS
    <3> QED
      BY ZenonT(30), <1>9, <1>14, <3>1
  <2>2. \A i \in T : f[i].block_size # 0
    BY <1>1, <1>9, <1>10, <1>12
  <2> QED
    BY <1>9, <1>13, <2>1, <2>2 DEF TilesOK
<1>16. InUse(f, T) \subseteq Mask(0, INFO) \cup Mask(INFO, n)
  <2>1. \A k \in Slices : /\ k < 0 + INFO => k \in Mask(0, INFO)
                          /\ INFO <= k /\ k < INFO + n => k \in Mask(INFO, n)
    BY <1>1, <1>11 DEF Mask
  <2> QED
    BY <1>9, <1>10, <1>12, <2>1 DEF InUse
<1>17. MaskOK(r.g, InUse(f, T))
  BY ZenonT(30), <1>4, <1>16, MaskLess
<1> QED
  BY ZenonT(30), <1>1, <1>4, <1>9, <1>15, <1>17 DEF HugeOne, r, f

OnlyBlock(B, s, n) == \A b \in B : b.seg = s => b = [seg |-> s, page |-> INFO, start |-> INFO, len |-> n]
HeldHuge(h, s, t, B) == Held(h, s, {0, INFO}, {0, INFO}, B) /\ h.thread_id = t /\ h.kind = "HUGE"

\* A page in a segment of its own has one block.
LEMMA HugeHeld ==
  ASSUME NEW g, NEW t \in Threads, NEW n \in Nat \ {0}, HugeOne(g, t, n), NEW s, NEW B, OnlyBlock(B, s, n)
  PROVE  HeldHuge(Sized(g, INFO, n), s, t, B)
<1> DEFINE T == {0, INFO}
           h == Sized(g, INFO, n)
           f == h.slices
<1>1. INFO \in Entries /\ INFO \in Nat \ {0} /\ n \in Nat /\ t # NoThread
  BY InfoFits, OptionsAssumption DEF Entries
<1>2. /\ g \in SegRec /\ g.kind = "HUGE" /\ g.thread_id = t /\ g.used = 1 /\ g.abandoned = 0
      /\ g.dont_free = FALSE /\ g.orphans = {} /\ g.dirty = {}
      /\ TilesOK(g.slices, "HUGE", T, T) /\ MaskOK(g, InUse(g.slices, T))
      /\ g.slices[INFO].slice_count = n
  BY DEF HugeOne
<1>3. SizedFrom(g, h, INFO, n)
  BY <1>1, <1>2, SizedIs
<1> HIDE DEF h
<1>4. TilesOK(f, "HUGE", T, T) /\ InUse(f, T) = InUse(g.slices, T)
  BY <1>1, <1>2, <1>3, SizedTiles
<1>5. /\ h \in SegRec /\ h.kind = "HUGE" /\ h.thread_id = t /\ h.used = 1 /\ h.abandoned = 0
      /\ h.dont_free = FALSE /\ h.orphans = {} /\ h.dirty = {} /\ MasksEqual(g, h)
      /\ f[INFO].size = n /\ f[INFO].slice_count = n
  BY <1>2, <1>3 DEF SizedFrom, Same
<1> HIDE DEF f
<1>6. MaskOK(h, InUse(f, T))
  BY <1>2, <1>4, <1>5, MasksEqualOK
<1>7. BlocksIn(B, f, T, s)
  <2>1. \A k \in T \ {0} : k = INFO
    OBVIOUS
  <2>2. ASSUME NEW b \in B, b.seg = s PROVE BlockIn(f, T, b)
    <3>1. b = [seg |-> s, page |-> INFO, start |-> INFO, len |-> n]
      BY <2>2 DEF OnlyBlock
    <3>2. b.page = INFO /\ b.start = INFO /\ b.len = n
      BY <3>1
    <3>3. INFO = INFO + 0 * n /\ 0 \in Nat
      BY <1>1
    <3> QED
      BY <1>1, <1>5, <3>2, <3>3 DEF BlockIn
  <2> QED
    BY ZenonT(30), <1>5, <2>1, <2>2 DEF BlocksIn
<1>8. T \ {0} = {INFO} /\ Cardinality({INFO}) = 1 /\ Cardinality({}) = 0
  BY ZenonT(30), <1>1, FS_EmptySet, FS_Singleton
<1>9. Clean(f, T, T)
  BY DEF Clean
<1> QED
  <2>1. TilesOK(f, h.kind, T, T) /\ h.kind \in {"NORMAL", "HUGE"}
    BY <1>4, <1>5
  <2>2. h.used = Cardinality(T \ {0}) /\ h.orphans \subseteq T \ {0} /\ h.abandoned = Cardinality(h.orphans)
    BY <1>5, <1>8
  <2>3. h.thread_id # NoThread /\ h.used # h.abandoned
    BY <1>1, <1>5
  <2> HIDE DEF T
  <2>4. Held(h, s, T, T, B)
    BY <1>5, <1>6, <1>7, <1>9, <2>1, <2>2, <2>3 DEF Held, f
  <2> QED
    BY <1>5, <2>4 DEF HeldHuge, T, h

LEMMA HugePageAllocFits ==
  ASSUME Fits(segment, tld, blocks), NEW t \in Threads, HugePageAlloc(t)
  PROVE  Fits(segment', tld', blocks')
<1>1. PICK s \in Addresses, m \in FreshMemory :
        /\ segment[s].kind = "none"
        /\ LET g == SpanAllocate(Fresh(t, "HUGE", TRUE, m[2]), INFO, HUGE - INFO, TRUE).g
           IN Done(TrackSize([World(t, s) EXCEPT !.g = [g EXCEPT !.slices[INFO].size = HUGE - INFO]], 1), t)
        /\ blocks' = blocks \cup {[seg |-> s, page |-> INFO, start |-> INFO, len |-> HUGE - INFO]}
  BY ZenonT(30) DEF HugePageAlloc
<1> DEFINE n == HUGE - INFO
           x == Fresh(t, "HUGE", TRUE, m[2])
           g == SpanAllocate(x, INFO, n, TRUE).g
           h == Sized(g, INFO, n)
           w == World(t, s)
           v == SetSegment(w, h)
           y == TrackSize(v, 1)
           b == [seg |-> s, page |-> INFO, start |-> INFO, len |-> n]
<1>2. Done(y, t) /\ blocks' = blocks \cup {b}
  BY <1>1 DEF SetSegment, Sized
<1>3. m[2] \in BOOLEAN
  BY OptionsAssumption
<1>4. Empty(x, "HUGE", t)
  BY ZenonT(30), <1>3, FreshOK
<1> HIDE DEF x, n
<1>5. n \in Nat \ {0} /\ HugeOne(g, t, n)
  BY ZenonT(30), <1>4, HugePageOK DEF n
<1> HIDE DEF g
<1>6. w \in Worlds /\ w.s = s /\ w.tld = tld[t]
  BY WorldIs
<1>7. SegmentIs(segment[s], s, blocks) /\ QueuesOK(segment, tld[t], t) /\ blocks \subseteq Blocks
  BY DEF Fits
<1>8. segment[s] = NoSegment /\ \A c \in blocks : c.seg # s
  BY <1>1, <1>7 DEF SegmentIs, Held
<1>9. QueueOK(tld[t].spans, tld[t].spans, s, {}) /\ segment[s].thread_id = NoThread
  BY <1>7, <1>8, NoSegmentHas DEF QueuesOK, QueuedOf
<1>10. b \in Blocks /\ b.seg = s
  BY <1>5, InfoFits DEF Blocks
<1>11. blocks' \subseteq Blocks /\ (\A c \in blocks' : c.seg # s => c \in blocks) /\ OnlyBlock(blocks', s, n)
  BY <1>2, <1>7, <1>8, <1>10 DEF OnlyBlock
<1> HIDE DEF h
<1>12. Held(h, s, {0, INFO}, {0, INFO}, blocks') /\ h.thread_id = t /\ h.kind = "HUGE"
  <2>1. HeldHuge(h, s, t, blocks')
    BY <1>5, <1>11, HugeHeld DEF h
  <2> QED
    BY <2>1 DEF HeldHuge
<1> HIDE DEF b, w, v
<1>13. h \in SegRec
  BY <1>12 DEF Held
<1>14. v \in Worlds /\ v.s = s /\ v.tld = tld[t] /\ v.g = h
  BY <1>6, <1>13, SetSegmentIs DEF v
<1>15. QueuedOf(h, t) = {}
  BY <1>12 DEF QueuedOf
<1>16. EndsWith(v, s, t, tld[t].spans, blocks')
  BY <1>9, <1>12, <1>14, <1>15 DEF EndsWith, SegmentIs
<1>17. EndsWith(y, s, t, tld[t].spans, blocks')
  BY <1>16, TrackedEnd
<1> HIDE DEF y
<1>18. PICK z : z = y
  OBVIOUS
<1>19. EndsWith(z, s, t, tld[t].spans, blocks') /\ Done(z, t) /\ segment[s].thread_id \in {t, NoThread}
  BY <1>2, <1>9, <1>17, <1>18
<1> QED
  BY <1>11, <1>19, DoneKeeps

-----------------------------------------------------------------------------
(* Taking a span from the queues.                                           *)

\* A set of pairs of numbers has a least one.
Pairs(S) == S # {} /\ \A c \in S : c[1] \in Nat /\ c[2] \in Nat
LeastOf(S, c) == c \in S /\ \A d \in S : c[1] < d[1] \/ (c[1] = d[1] /\ c[2] <= d[2])

LEMMA LeastPair ==
  ASSUME NEW S, Pairs(S)
  PROVE  \E c : LeastOf(S, c)
<1> DEFINE A == {c[1] : c \in S}
<1>1. PICK a \in A : \A x \in A : a <= x
  <2>1. A \in SUBSET Nat /\ A # {}
    BY DEF Pairs
  <2> HIDE DEF A
  <2> QED
    BY <2>1, LeastNat
<1> DEFINE B == {c[2] : c \in {d \in S : d[1] = a}}
<1>2. PICK b \in B : \A x \in B : b <= x
  <2>1. B \in SUBSET Nat /\ B # {}
    BY DEF Pairs
  <2> HIDE DEF B
  <2> QED
    BY <2>1, LeastNat
<1>3. PICK c \in S : c[1] = a /\ c[2] = b
  OBVIOUS
<1>4. ASSUME NEW d \in S PROVE c[1] < d[1] \/ (c[1] = d[1] /\ c[2] <= d[2])
  <2>1. a <= d[1] /\ a \in Nat /\ d[1] \in Nat
    BY <1>1 DEF Pairs
  <2>2. d[1] = a => b <= d[2]
    BY <1>2
  <2> QED
    BY <1>3, <2>1, <2>2
<1> QED
  BY <1>4 DEF LeastOf

LEMMA BinsRange ==
  ASSUME NEW n \in 0 .. SLICES
  PROVE  \A b \in SliceBin(n) .. SliceBin(SLICES) : b \in Bins /\ b \in Nat
<1>1. SLICES \in 0 .. SLICES
  BY SizesAssumption
<1>2. SliceBin(n) \in 0 .. SliceBin(SLICES) /\ SliceBin(SLICES) \in 0 .. SliceBin(SLICES)
  BY <1>1, BinOf DEF Bins
<1> DEFINE x == SliceBin(n)
           y == SliceBin(SLICES)
<1> HIDE DEF x, y
<1>3. x \in 0 .. y /\ y \in 0 .. y
  BY <1>2 DEF x, y
<1>4. \A b \in x .. y : b \in 0 .. y /\ b \in Nat
  BY <1>3
<1> QED
  BY <1>4 DEF Bins, x, y

\* What is found: a free span of a segment of the thread that is large enough.
Found(t, e, n) ==
  /\ e \in Span /\ e[1] \in Addresses /\ Owned(t, e[1]) /\ segment[e[1]].kind = "NORMAL"
  /\ e[2] \in FreeSpans(segment[e[1]]) /\ segment[e[1]].slices[e[2]].slice_count >= n

\* The queues hold nothing else, so a thread never takes a span of a segment that
\* was freed or belongs to another thread (segment.c:1003).
LEMMA FindSpanOK ==
  ASSUME Fits(segment, tld, blocks), NEW t \in Threads, NEW n \in 0 .. SLICES, Candidates(tld[t].spans, n) # {}
  PROVE  Found(t, FindSpan(tld[t].spans, n), n)
<1> DEFINE q == tld[t].spans
           C == Candidates(q, n)
           Least(c) == \A d \in C : c[1] < d[1] \/ (c[1] = d[1] /\ c[2] <= d[2])
           c == CHOOSE c \in C : Least(c)
<1>1. QueuesOK(segment, tld[t], t) /\ q \in [Bins -> Seq(Span)]
  BY DEF Fits, QueuesOK, TldRec
<1>2. \A x \in C : /\ x[1] \in Bins /\ x[1] \in Nat /\ x[2] \in DOMAIN q[x[1]]
                   /\ segment[q[x[1]][x[2]][1]].slices[q[x[1]][x[2]][2]].slice_count >= n
  <2> DEFINE Large(b, j) == segment[q[b][j][1]].slices[q[b][j][2]].slice_count >= n
  <2>1. C = UNION {{<<b, k>> : k \in {j \in DOMAIN q[b] : Large(b, j)}} : b \in SliceBin(n) .. SliceBin(SLICES)}
    BY ZenonT(30) DEF Candidates
  <2>2. \A b \in SliceBin(n) .. SliceBin(SLICES) : b \in Bins /\ b \in Nat
    BY BinsRange
  <2> SUFFICES ASSUME NEW x \in C
               PROVE  x[1] \in Bins /\ x[1] \in Nat /\ x[2] \in DOMAIN q[x[1]] /\ Large(x[1], x[2])
    BY ZenonT(30)
  <2> HIDE DEF Large, C, q
  <2>3. PICK b \in SliceBin(n) .. SliceBin(SLICES) : x \in {<<b, k>> : k \in {j \in DOMAIN q[b] : Large(b, j)}}
    BY <2>1
  <2>4. PICK k \in DOMAIN q[b] : Large(b, k) /\ x = <<b, k>>
    BY <2>3
  <2>5. x[1] = b /\ x[2] = k
    BY <2>4
  <2> QED
    BY <2>2, <2>4, <2>5
<1> HIDE DEF q, C, c
<1>3. \A b \in Bins : DOMAIN q[b] = 1 .. Len(q[b]) /\ Len(q[b]) \in Nat
  <2>1. \A b \in Bins : q[b] \in Seq(Span)
    BY <1>1
  <2> QED
    BY <2>1
<1>4. \A x \in C : x[1] \in Nat /\ x[2] \in Nat
  <2> SUFFICES ASSUME NEW x \in C PROVE x[1] \in Nat /\ x[2] \in Nat
    OBVIOUS
  <2>1. x[1] \in Bins /\ x[1] \in Nat /\ x[2] \in DOMAIN q[x[1]]
    BY ZenonT(30), <1>2
  <2>2. DOMAIN q[x[1]] = 1 .. Len(q[x[1]]) /\ Len(q[x[1]]) \in Nat
    BY <1>3, <2>1
  <2> QED
    BY <2>1, <2>2
<1>5. FindSpan(q, n) = q[c[1]][c[2]]
  BY DEF FindSpan, c, C
<1>6. \E x \in C : Least(x)
  <2>1. Pairs(C)
    BY <1>4 DEF Pairs, C, q
  <2>2. \E x : LeastOf(C, x)
    BY <2>1, LeastPair
  <2> QED
    BY <2>2 DEF LeastOf
<1>7. c \in C
  BY <1>6 DEF c
<1> HIDE DEF c
<1> DEFINE b == c[1]
           k == c[2]
           e == q[b][k]
<1>8. b \in Bins /\ k \in DOMAIN q[b] /\ segment[e[1]].slices[e[2]].slice_count >= n
  BY ZenonT(30), <1>2, <1>7
<1>9. q[b] \in Seq(Span) /\ k \in 1 .. Len(q[b])
  BY ZenonT(30), <1>1, <1>3, <1>8
<1>10. e \in Span /\ e \in Range(q[b])
  BY <1>9, RangeIs
<1> HIDE DEF e
<1>11. e[1] \in Addresses /\ e[2] \in Slices
  BY <1>10 DEF Span
<1>12. QueueOK(q, q, e[1], QueuedOf(segment[e[1]], t))
  BY <1>1, <1>11 DEF QueuesOK, q
<1>13. <<b, e[2]>> \in QueuedOf(segment[e[1]], t)
  BY <1>8, <1>10, <1>12 DEF QueueOK
<1>14. /\ segment[e[1]].kind = "NORMAL" /\ segment[e[1]].thread_id = t
       /\ \E i \in FreeSpans(segment[e[1]]) : i = e[2]
  BY <1>13 DEF QueuedOf, Queued
<1>15. Found(t, e, n)
  BY <1>8, <1>10, <1>11, <1>14 DEF Found, Owned
<1> QED
  BY <1>5, <1>15 DEF e, q

\* The free span at i is taken: neither free nor in use.
FilledAt(f, h, kind, T, P, i) ==
  /\ TilesOK(h, kind, T, P) /\ InUse(h, P) = InUse(f, P)
  /\ h[i].block_size = 1 /\ h[i].slice_count = f[i].slice_count
  /\ \A k \in Entries : k # i => h[k] = f[k]

LEMMA FilledTiles ==
  ASSUME NEW f, NEW kind, NEW T, NEW P, TilesOK(f, kind, T, P), NEW i \in T, i \notin P, f[i].block_size = 0
  PROVE  FilledAt(f, [f EXCEPT ![i].block_size = 1], kind, T, P, i)
<1> DEFINE e == f[i]
           x == [e EXCEPT !.block_size = 1]
           h == [f EXCEPT ![i] = x]
<1>1. /\ f \in [Entries -> SliceRecord] /\ Tiled(f, T) /\ P \subseteq T /\ 0 \in P
      /\ \A k \in T : SpanOK(f, kind, k, k \in P)
      /\ \A a, b \in T : f[a].block_size = 0 /\ b = a + f[a].slice_count => f[b].block_size # 0
  BY DEF TilesOK
<1>2. \A k \in Slices : k \in Entries
  BY SizesAssumption DEF Slices, Entries
<1>3. T \subseteq Slices /\ T \subseteq Entries
  BY <1>1, <1>2 DEF Tiled
<1>4. e \in SliceRecord /\ i \in Entries
  BY <1>1, <1>3
<1> HIDE DEF e
<1>5. x \in SliceRecord /\ x.block_size = 1 /\ x.slice_count = e.slice_count /\ x.slice_offset = e.slice_offset
  BY <1>4 DEF SliceRecord
<1> HIDE DEF x
<1>6. h \in [Entries -> SliceRecord] /\ h[i] = x /\ \A k \in Entries : k # i => h[k] = f[k]
  BY <1>1, <1>4, <1>5
<1>7. h = [f EXCEPT ![i].block_size = 1]
  BY DEF x, e
<1> HIDE DEF h
<1>8. \A k \in Entries : h[k].slice_count = f[k].slice_count /\ h[k].slice_offset = f[k].slice_offset
  BY <1>5, <1>6 DEF e
<1>9. Tiled(h, T)
  BY <1>1, <1>3, <1>8 DEF Tiled
<1>10. ASSUME NEW k \in T PROVE SpanOK(h, kind, k, k \in P)
  <2>1. SpanOK(f, kind, k, k \in P)
    BY <1>1
  <2>2. h[k].slice_count = f[k].slice_count /\ h[k].slice_offset = f[k].slice_offset
    BY <1>3, <1>8
  <2>3. \A j \in Slices : h[j].slice_offset = f[j].slice_offset
    BY <1>2, <1>8
  <2>4. h[k].block_size \in Nat /\ (k \in P => h[k].block_size # 0) /\ (h[k].block_size = 0 => f[k].block_size = 0)
    BY <1>3, <1>5, <1>6, <2>1 DEF SpanOK
  <2> QED
    BY <2>1, <2>2, <2>3, <2>4 DEF SpanOK
<1>11. ASSUME NEW a \in T, NEW b \in T, h[a].block_size = 0, b = a + h[a].slice_count PROVE h[b].block_size # 0
  <2>1. f[a].block_size = 0 /\ b = a + f[a].slice_count
    BY <1>3, <1>5, <1>6, <1>11
  <2>2. f[b].block_size # 0
    BY <1>1, <2>1
  <2> QED
    BY <1>3, <1>5, <1>6, <2>2
<1>12. TilesOK(h, kind, T, P)
  BY <1>1, <1>6, <1>9, <1>10, <1>11 DEF TilesOK
<1>13. InUse(h, P) = InUse(f, P)
  <2>1. \A k \in P : h[k].slice_count = f[k].slice_count
    BY <1>1, <1>3, <1>8
  <2> QED
    BY <2>1 DEF InUse
<1>14. h[i].block_size = 1 /\ h[i].slice_count = f[i].slice_count
  BY <1>5, <1>6 DEF e
<1> QED
  BY <1>6, <1>7, <1>12, <1>13, <1>14 DEF FilledAt

\* v is w with the span at i, of n slices, taken by its thread.
Taken(w, v, q0, T, P, i, n) ==
  /\ SoundBut(v, q0, T, P, SLICES, i) /\ i \in T /\ i \notin P
  /\ v.s = w.s /\ Same(w.g, v.g)
  /\ v.g.slices[i].slice_count = n /\ v.g.slices[i].block_size = 1
\* No free span follows the one at i.
Alone(f, T, i) == \A j \in T : j = i + f[i].slice_count => f[j].block_size # 0

CanTake(w, q0, T, P, i) ==
  /\ Sound(w, q0, T, P, SLICES) /\ InQueues(w.g) /\ i \in T /\ i \notin P

\* A free span is taken from its queue (segment.c:218).
LEMMA TakeOK ==
  ASSUME NEW w, NEW q0, NEW T, NEW P, NEW i, CanTake(w, q0, T, P, i)
  PROVE  /\ Taken(w, QueueDelete(w, i), q0, T, P, i, w.g.slices[i].slice_count)
         /\ Alone(QueueDelete(w, i).g.slices, T, i)
         /\ \A k \in Entries : k # i => QueueDelete(w, i).g.slices[k] = w.g.slices[k]
<1> DEFINE f == w.g.slices
           v == QueueDelete(w, i)
           h == v.g.slices
           R == Before(w.g, T, P, SLICES)
           n == f[i].slice_count
           b == SliceBin(n)
<1>1. /\ WorldOK(w, q0, T, P, R) /\ (\A k \in T \ P : f[k].block_size = 0) /\ BlocksOK(f, P, w.s)
      /\ w.g.used = Cardinality(P \ {0}) /\ w.g.orphans \subseteq P \ {0}
      /\ InQueues(w.g) /\ i \in T /\ i \notin P
  BY DEF CanTake, Sound
<1>2. /\ w \in Worlds /\ w.g.kind = "NORMAL" /\ TilesOK(f, w.g.kind, T, P) /\ R \subseteq T \ P
      /\ QueueOK(w.tld.spans, q0, w.s, Queued(f, R)) /\ MaskOK(w.g, InUse(f, P)) /\ w.g.dirty = {}
  BY <1>1 DEF WorldOK, InQueues
<1>3. /\ SLICES \in Nat /\ P \subseteq T /\ Tiled(f, T)
      /\ \A k \in T : k \in Nat /\ k < SLICES /\ k \in Slices /\ k \in Entries /\ f[k].slice_count \in Nat \ {0}
      /\ (i + n \in T \/ i + n >= SLICES)
  BY <1>1, WorldTypes
<1>4. n \in 0 .. SLICES /\ i + n <= SLICES
  <2>1. i + f[i].slice_count <= SLICES
    BY <1>1, <1>2 DEF TilesOK, SpanOK
  <2> QED
    BY <1>1, <1>3, <2>1
<1>5. b \in Bins
  BY <1>4, BinOf
<1>6. i \in R
  BY <1>1, <1>3 DEF Before
<1>7. i \in Slices
  BY <1>1, <1>3
<1>8. FilledAt(f, [f EXCEPT ![i].block_size = 1], w.g.kind, T, P, i)
  BY <1>1, <1>2, FilledTiles
<1> HIDE DEF b, v, R
<1>9. /\ v \in Worlds /\ v.s = w.s /\ v.at = w.at
      /\ Same(w.g, v.g) /\ MasksEqual(w.g, v.g)
      /\ v.g.slices = [w.g.slices EXCEPT ![i].block_size = 1]
      /\ QueueOK(v.tld.spans, q0, w.s, Queued(f, R) \ {<<b, i>>})
  BY ZenonT(30), <1>2, <1>5, <1>7, QueueDeleteIs DEF b, v
<1>10. FilledAt(f, h, w.g.kind, T, P, i)
  BY <1>8, <1>9
<1> HIDE DEF h
<1>11. /\ TilesOK(h, w.g.kind, T, P) /\ InUse(h, P) = InUse(f, P) /\ h[i].block_size = 1 /\ h[i].slice_count = n
       /\ \A k \in Entries : k # i => h[k] = f[k]
  BY <1>10 DEF FilledAt
<1>12. Queued(f, R) \ {<<b, i>>} = Queued(h, R \ {i})
  <2>1. Queued(f, R) \ {<<b, i>>} = Queued(f, R \ {i})
    BY DEF Queued, b
  <2>2. \A k \in R \ {i} : h[k] = f[k]
    BY <1>2, <1>3, <1>11
  <2>3. Queued(h, R \ {i}) = Queued(f, R \ {i})
    BY <2>2, QueuedSame
  <2> QED
    BY <2>1, <2>3
<1>13. Before(v.g, T, P, SLICES) = R
  BY <1>9 DEF Before, InQueues, Same, R
<1>14. MaskOK(v.g, InUse(h, P))
  BY <1>2, <1>9, <1>11, MasksEqualOK
<1>15. v.g.kind = w.g.kind /\ v.g.thread_id = w.g.thread_id /\ v.g.dirty = {} /\ v.g.used = w.g.used
       /\ v.g.orphans = w.g.orphans
  BY <1>2, <1>9 DEF Same
<1>16. WorldOK(v, q0, T, P, R \ {i})
  <2>1. ~InQueues(v.g) => R \ {i} = {}
    BY <1>1, <1>15 DEF InQueues
  <2> QED
    BY ZenonT(30), <1>2, <1>9, <1>11, <1>12, <1>14, <1>15, <2>1 DEF WorldOK, h
<1>17. \A k \in T \ P : k # i => h[k].block_size = 0
  BY <1>1, <1>3, <1>11
<1>18. BlocksOK(h, P, w.s)
  <2>1. \A k \in P : h[k] = f[k]
    BY <1>1, <1>3, <1>11
  <2>2. \A c \in blocks : c.seg = w.s => c.page \in P \ {0}
    BY <1>1, BlocksPages
  <2> QED
    BY <1>1, <2>1, <2>2, BlocksMoved
<1>19. SoundBut(v, q0, T, P, SLICES, i)
  BY <1>1, <1>9, <1>13, <1>15, <1>16, <1>17, <1>18 DEF SoundBut, h
<1>20. Alone(h, T, i)
  <2>1. f[i].block_size = 0
    BY <1>1
  <2> SUFFICES ASSUME NEW j \in T, j = i + n PROVE h[j].block_size # 0
    BY <1>11 DEF Alone
  <2>2. f[j].block_size # 0
    BY <1>1, <1>2, <2>1 DEF TilesOK
  <2>3. j # i /\ j \in Entries
    BY <1>1, <1>3
  <2> QED
    BY <1>11, <2>2, <2>3
<1>21. Taken(w, v, q0, T, P, i, n)
  <2>1. v.s = w.s /\ Same(w.g, v.g) /\ i \in T /\ i \notin P
    BY <1>1, <1>9
  <2>2. v.g.slices[i].slice_count = n /\ v.g.slices[i].block_size = 1
    BY <1>11 DEF h
  <2> HIDE DEF n
  <2> QED
    BY <1>19, <2>1, <2>2 DEF Taken
<1> QED
  BY <1>11, <1>20, <1>21 DEF v, h

\* The world when the slices from i + n on are freed.
LeftOver(w, i, n) ==
  IF n < w.g.slices[i].slice_count THEN SpanFree(w, i + n, w.g.slices[i].slice_count - n, FALSE) ELSE w
\* v is w with the span at i cut to n slices; what is left of it is free and queued.
Split(w, v, q0, T, P, i, n) ==
  /\ LeftOver(w, i, n) \in Worlds
  /\ \E U : /\ Taken(w, v, q0, U, P, i, n) /\ T \subseteq U
            /\ \A k \in T : k # i => v.g.slices[k] = w.g.slices[k]
CanSplit(w, q0, T, P, i, n) ==
  /\ SoundBut(w, q0, T, P, SLICES, i) /\ Alone(w.g.slices, T, i) /\ InQueues(w.g)
  /\ i \in T /\ i \notin P /\ w.g.slices[i].block_size = 1
  /\ n \in Nat \ {0} /\ n <= w.g.slices[i].slice_count

\* The entries h are f with the span at i, of c slices, cut to n.
CutAfter(f, h, i, n, c) ==
  /\ h \in [Entries -> SliceRecord]
  /\ h[i].slice_count = n /\ h[i].slice_offset = f[i].slice_offset /\ h[i].block_size = f[i].block_size
  /\ h[i + n].slice_count = c - n /\ h[i + n].block_size = 0 /\ SpanOK(h, "NORMAL", i + n, FALSE)
  /\ \A k \in Entries : k < i \/ k >= i + c => h[k] = f[k]

LEMMA CutEntries ==
  ASSUME NEW f \in [Entries -> SliceRecord], NEW i \in Slices, NEW n \in Nat \ {0}, NEW c \in Nat, n < c,
         i + c <= SLICES, NEW d, FreedAt(f, i + n, c - n, d)
  PROVE  CutAfter(f, [d EXCEPT ![i].slice_count = n], i, n, c)
<1> DEFINE h == [d EXCEPT ![i].slice_count = n]
           j == i + n
<1>1. /\ SLICES \in Nat /\ i \in Nat /\ i \in Entries /\ j \in Entries /\ j # i /\ j \in Nat /\ i < j /\ j < i + c
      /\ j + (c - n) - 1 = i + c - 1 /\ i # i + c - 1 /\ \A k \in Slices : k \in Entries /\ k \in Nat
  BY SizesAssumption DEF Slices, Entries
<1>2. /\ d \in [Entries -> SliceRecord] /\ d[j].slice_count = c - n /\ d[j].block_size = 0 /\ SpanOK(d, "NORMAL", j, FALSE)
      /\ \A k \in Entries : k # j /\ k # j + (c - n) - 1 => d[k] = f[k]
  BY ZenonT(30) DEF FreedAt
<1>3. d[i] = f[i]
  BY <1>1, <1>2
<1>4. h \in [Entries -> SliceRecord]
  <2>1. i \in Entries /\ n \in Int /\ d \in [Entries -> SliceRecord]
    BY <1>1, <1>2
  <2> QED
    BY ZenonT(30), <2>1, EntryTypes
<1>5. /\ h[i].slice_count = n /\ h[i].slice_offset = d[i].slice_offset /\ h[i].block_size = d[i].block_size
      /\ \A k \in Entries : k # i => h[k] = d[k]
  BY <1>1, <1>2 DEF SliceRecord
<1> HIDE DEF h, j
<1>6. h[j] = d[j]
  BY <1>1, <1>5
<1>7. SpanOK(h, "NORMAL", j, FALSE)
  <2>1. \A k \in Slices : j <= k => h[k] = d[k]
    BY <1>1, <1>5
  <2> QED
    BY <1>2, <1>6, <2>1 DEF SpanOK
<1>8. \A k \in Entries : k < i \/ k >= i + c => h[k] = f[k]
  <2> SUFFICES ASSUME NEW k \in Entries, k < i \/ k >= i + c PROVE h[k] = f[k]
    OBVIOUS
  <2>1. k # i /\ k # j /\ k # j + (c - n) - 1
    BY <1>1 DEF Entries
  <2> QED
    BY <1>2, <1>5, <2>1
<1> QED
  BY ZenonT(30), <1>2, <1>3, <1>4, <1>5, <1>6, <1>7, <1>8 DEF CutAfter, h, j

\* The spans of a segment when the one at i is cut.
CutTiles(f, h, T, P, i, n, U) ==
  /\ TilesOK(h, "NORMAL", U, P) /\ U = T \cup {i + n} /\ i + n \notin T /\ InUse(h, P) \subseteq InUse(f, P)
  /\ \A k \in T : k # i => h[k] = f[k]
CanCut(f, h, T, P, i, n, c) ==
  /\ TilesOK(f, "NORMAL", T, P) /\ i \in T /\ i \notin P /\ f[i].slice_count = c /\ f[i].block_size = 1
  /\ Alone(f, T, i) /\ n \in Nat \ {0} /\ n < c /\ CutAfter(f, h, i, n, c)
LEMMA CutOK ==
  ASSUME NEW f, NEW h, NEW T, NEW P, NEW i, NEW n, NEW c, CanCut(f, h, T, P, i, n, c)
  PROVE  CutTiles(f, h, T, P, i, n, T \cup {i + n})
<1> DEFINE j == i + n
           hi == i + c
           W == {i, j}
           N == NewSpans(T, i, hi, W)
<1>1. /\ TilesOK(f, "NORMAL", T, P) /\ i \in T /\ i \notin P /\ f[i].slice_count = c /\ f[i].block_size = 1
      /\ Alone(f, T, i) /\ n \in Nat \ {0} /\ n < c /\ CutAfter(f, h, i, n, c)
  BY DEF CanCut
<1>2. /\ Tiled(f, T) /\ P \subseteq T /\ 0 \in P /\ SpanOK(f, "NORMAL", i, FALSE) /\ f \in [Entries -> SliceRecord]
  <2>1. (i \in P) = FALSE
    BY <1>1
  <2> QED
    BY ZenonT(30), <1>1, <2>1 DEF TilesOK
<1>3. /\ SLICES \in Nat /\ \A k \in T : k \in Nat /\ k < SLICES /\ k \in Entries /\ f[k].slice_count \in Nat \ {0}
  BY <1>2, SizesAssumption DEF Tiled, Slices, Entries
<1>4. i \in Nat /\ c \in Nat \ {0} /\ i + c <= SLICES /\ f[i].slice_offset = 0 /\ (hi \in T \/ hi >= SLICES)
  BY <1>1, <1>2, <1>3 DEF SpanOK, Tiled
<1>5. j \in Slices /\ j \in Nat /\ i < j /\ j < hi /\ hi \in Nat /\ j + (c - n) = hi
  BY <1>1, <1>3, <1>4 DEF Slices
<1>6. \A k \in T : k < i \/ k = i \/ k >= hi
  <2> SUFFICES ASSUME NEW k \in T, i < k PROVE i + f[i].slice_count <= k
    BY <1>1, <1>3
  <2> QED
    BY <1>1, <1>2, TiledApart
<1>7. j \notin T
  <2>1. ~(j < i) /\ j # i /\ ~(j >= hi)
    BY <1>4, <1>5
  <2> QED
    BY <1>6, <2>1
<1>8. N = T \cup {j}
  BY <1>1, <1>3, <1>5, <1>6 DEF NewSpans
<1>9. /\ h \in [Entries -> SliceRecord]
      /\ h[i].slice_count = n /\ h[i].slice_offset = 0 /\ h[i].block_size = 1
      /\ h[j].slice_count = c - n /\ h[j].block_size = 0 /\ SpanOK(h, "NORMAL", j, FALSE)
      /\ \A k \in Entries : k < i \/ k >= hi => h[k] = f[k]
  BY ZenonT(30), <1>1, <1>4 DEF CutAfter
<1> HIDE DEF j, hi
<1>10. \A k \in T : k # i => h[k] = f[k]
  BY <1>3, <1>6, <1>9
<1>11. Retiles(f, h, T, i, hi, W)
  <2>1. j = i + n /\ hi = i + c /\ c - n \in Nat \ {0}
    BY <1>1, <1>4 DEF j, hi
  <2>2. W \subseteq Slices /\ i \in W /\ \A k \in W : i <= k /\ k < hi
    BY <1>2, <1>1, <1>4, <1>5 DEF Tiled
  <2>3. \A k \in W : /\ h[k].slice_count \in Nat \ {0}
                     /\ k + h[k].slice_count \in W \/ k + h[k].slice_count = hi
                     /\ k # i => \E l \in W : l + h[l].slice_count = k
    BY <1>1, <1>5, <1>9, <2>1
  <2>4. \E l \in W : l + h[l].slice_count = hi
    BY <1>5, <1>9
  <2>5. i \in T /\ hi \in Nat /\ i < hi /\ (hi \in T \/ hi >= SLICES)
    BY <1>1, <1>4, <1>5
  <2> QED
    BY <1>9, <2>2, <2>3, <2>4, <2>5 DEF Retiles
<1>12. SpanOK(h, "NORMAL", i, FALSE)
  <2>1. i + n <= SLICES
    BY <1>1, <1>3, <1>4
  <2> QED
    BY <1>9, <2>1 DEF SpanOK
<1>13. Recut(f, h, "NORMAL", T, P, i, hi, W, P)
  <2>1. P \subseteq N
    BY <1>2, <1>8
  <2>2. \A k \in W : SpanOK(h, "NORMAL", k, k \in P)
    <3>1. (i \in P) = FALSE /\ (j \in P) = FALSE
      BY <1>1, <1>2, <1>7
    <3> QED
      BY ZenonT(30), <1>9, <1>12, <3>1
  <2>3. \A k \in W : \A l \in N : h[k].block_size = 0 /\ l = k + h[k].slice_count => h[l].block_size # 0
    <3> SUFFICES ASSUME NEW l \in N, l = j + h[j].slice_count PROVE h[l].block_size # 0
      BY <1>9
    <3>1. l = hi /\ l # j /\ l # i
      BY <1>4, <1>5, <1>9
    <3>2. l \in T
      BY <1>8, <3>1
    <3>3. f[l].block_size # 0
      BY <1>1, <3>1, <3>2 DEF Alone, hi
    <3> QED
      BY <1>10, <3>1, <3>2, <3>3
  <2>4. \A k \in T : k < i /\ f[k].block_size = 0 /\ k + f[k].slice_count = i => h[i].block_size # 0
    BY <1>9
  <2> HIDE DEF N, W
  <2> QED
    BY <1>1, <1>2, <1>9, <1>11, <2>1, <2>2, <2>3, <2>4 DEF Recut, N
<1>14. TilesOK(h, "NORMAL", N, P)
  BY <1>13, RecutOK
<1>15. InUse(h, P) \subseteq InUse(f, P)
  <2>1. P \cap W = {}
    BY <1>1, <1>2, <1>7
  <2> QED
    BY <1>13, <2>1, RecutUse
<1> QED
  BY <1>7, <1>8, <1>10, <1>14, <1>15 DEF CutTiles, j

\* A span that is too large is cut, and the rest queued (segment.c:770).
LEMMA SplitOK ==
  ASSUME NEW w, NEW q0, NEW T, NEW P, NEW i, NEW n, CanSplit(w, q0, T, P, i, n)
  PROVE  Split(w, SliceSplit(w, i, n), q0, T, P, i, n)
<1> DEFINE f == w.g.slices
           c == f[i].slice_count
           j == i + n
           m == c - n
           R == Before(w.g, T, P, SLICES) \ {i}
           y == SpanFree(w, j, m, FALSE)
           d == y.g.slices
           h == [d EXCEPT ![i].slice_count = n]
           v == SetSlices(y, h)
           U == T \cup {j}
<1>1. /\ SoundBut(w, q0, T, P, SLICES, i) /\ Alone(f, T, i) /\ InQueues(w.g)
      /\ i \in T /\ i \notin P /\ f[i].block_size = 1 /\ n \in Nat \ {0} /\ n <= c
  BY DEF CanSplit
<1>2. /\ WorldOK(w, q0, T, P, R) /\ (\A k \in T \ P : k # i => f[k].block_size = 0) /\ BlocksOK(f, P, w.s)
      /\ w.g.used = Cardinality(P \ {0}) /\ w.g.orphans \subseteq P \ {0}
  BY <1>1 DEF SoundBut
<1>3. /\ w \in Worlds /\ w.g \in SegRec /\ w.g.kind = "NORMAL" /\ w.g.thread_id # NoThread
      /\ TilesOK(f, "NORMAL", T, P) /\ R \subseteq T \ P
      /\ QueueOK(w.tld.spans, q0, w.s, Queued(f, R)) /\ MaskOK(w.g, InUse(f, P)) /\ w.g.dirty = {}
  <2>1. w.g \in SegRec
    BY <1>2, WorldTypes
  <2>2. w.g.kind = "NORMAL" /\ w.g.thread_id # NoThread
    BY <1>1 DEF InQueues
  <2> HIDE DEF R
  <2> QED
    BY <1>2, <2>1, <2>2 DEF WorldOK
<1>4. /\ SLICES \in Nat /\ P \subseteq T /\ Tiled(f, T) /\ f \in [Entries -> SliceRecord]
      /\ \A k \in T : k \in Nat /\ k < SLICES /\ k \in Slices /\ k \in Entries /\ f[k].slice_count \in Nat \ {0}
  BY <1>2, WorldTypes
<1>5. i + c <= SLICES /\ i \in Nat /\ i \in Slices /\ c \in Nat \ {0}
  BY <1>1, <1>3, <1>4 DEF TilesOK, SpanOK
<1>6. CASE n = c
  <2>1. SliceSplit(w, i, n) = w
    BY <1>1, <1>5, <1>6 DEF SliceSplit
  <2>2. Same(w.g, w.g)
    BY <1>3 DEF Same
  <2>3. Taken(w, w, q0, T, P, i, n)
    BY <1>1, <1>6, <2>2 DEF Taken
  <2>5. ~(n < w.g.slices[i].slice_count)
    BY <1>5, <1>6
  <2>4. LeftOver(w, i, n) = w
    BY <2>5 DEF LeftOver
  <2> QED
    BY <1>3, <2>1, <2>3, <2>4 DEF Split
<1>7. ASSUME n # c PROVE Split(w, SliceSplit(w, i, n), q0, T, P, i, n)
  <2>1. n < c /\ m \in Nat \ {0} /\ j + m <= SLICES /\ j \in Slices /\ j \in Nat /\ i < j /\ j < i + c
    BY <1>1, <1>4, <1>5, <1>7 DEF Slices
  <2>2. SliceSplit(w, i, n) = v
    <3>1. ~(w.g.slices[i].slice_count <= n)
      BY <1>1, <1>5, <2>1
    <3> QED
      BY <3>1 DEF SliceSplit, SetSlices
  <2>3. j \notin T
    <3>1. \A k \in T : i < k => i + f[i].slice_count <= k
      BY <1>1, <1>4, TiledApart
    <3> QED
      BY <1>5, <2>1, <3>1
  <2>4. CanFree(w, j, m, FALSE, InUse(f, P), q0, Queued(f, R))
    <3>1. <<SliceBin(m), j>> \notin Queued(f, R)
      BY <1>3, <2>3 DEF Queued
    <3> HIDE DEF f, R, j, m
    <3> QED
      BY <1>3, <2>1, <3>1 DEF CanFree
  <2>21. LeftOver(w, i, n) = y
    BY <2>1 DEF LeftOver
  <2> HIDE DEF y
  <2>5. SpanFreed(w, y, j, m, InUse(f, P), q0, Queued(f, R))
    BY ZenonT(30), <2>4, SpanFreeWorks DEF y
  <2>6. /\ y \in Worlds /\ y.s = w.s /\ Same(w.g, y.g) /\ FreedAt(f, j, m, d) /\ MaskOK(y.g, InUse(f, P))
        /\ QueueOK(y.tld.spans, q0, w.s, Queued(f, R) \cup {<<SliceBin(m), j>>})
    BY <1>3, <2>5 DEF SpanFreed
  <2> HIDE DEF d
  <2>7. CutAfter(f, h, i, n, c)
    BY ZenonT(30), <1>1, <1>4, <1>5, <2>1, <2>6, CutEntries
  <2> HIDE DEF h
  <2>8. CanCut(f, h, T, P, i, n, c)
    BY <1>1, <1>3, <2>1, <2>7 DEF CanCut
  <2>9. CutTiles(f, h, T, P, i, n, U)
    BY <2>8, CutOK
  <2>10. /\ TilesOK(h, "NORMAL", U, P) /\ InUse(h, P) \subseteq InUse(f, P)
         /\ \A k \in T : k # i => h[k] = f[k]
    BY <2>9 DEF CutTiles
  <2>11. /\ h \in [Entries -> SliceRecord] /\ h[i].slice_count = n /\ h[i].block_size = 1
         /\ h[j].slice_count = m /\ h[j].block_size = 0
    BY <1>1, <2>7 DEF CutAfter
  <2> HIDE DEF v
  <2>12. v \in Worlds /\ v.s = y.s /\ v.tld = y.tld /\ Same(y.g, v.g) /\ MasksEqual(y.g, v.g) /\ v.g.slices = h
    BY <2>6, <2>11, SetSlicesIs DEF v
  <2>13. Same(w.g, v.g) /\ v.s = w.s
    BY <2>6, <2>12 DEF Same
  <2>14. Before(v.g, U, P, SLICES) \ {i} = R \cup {j}
    <3>1. InQueues(v.g) /\ j < SLICES /\ j # i /\ j \notin P
      BY <1>1, <1>4, <2>1, <2>3, <2>13 DEF InQueues, Same, Slices
    <3> HIDE DEF j
    <3> QED
      BY <1>1, <3>1 DEF Before
  <2>15. Queued(h, R \cup {j}) = Queued(f, R) \cup {<<SliceBin(m), j>>}
    <3>1. \A k \in R : h[k] = f[k]
      BY <1>3, <2>10
    <3>2. j \notin R
      BY <1>3, <2>3
    <3>3. h[j].slice_count = m
      BY <2>11
    <3> HIDE DEF R, j, f, m
    <3>4. Queued(h, R \cup {j}) = Queued(f, R) \cup {<<SliceBin(h[j].slice_count), j>>}
      BY <3>1, <3>2, QueuedMore
    <3> QED
      BY ZenonT(30), <3>3, <3>4
  <2>16. WorldOK(v, q0, U, P, R \cup {j})
    <3>1. R \cup {j} \subseteq U \ P
      BY <1>3, <1>4, <2>3
    <3>2. MaskOK(y.g, InUse(h, P))
      BY <2>6, <2>10, MaskLess
    <3>3. MaskOK(v.g, InUse(h, P))
      BY <2>12, <3>2, MasksEqualOK
    <3>4. v.g.kind = "NORMAL" /\ InQueues(v.g) /\ v.g.dirty = {}
      BY <1>1, <1>3, <2>13 DEF Same, InQueues
    <3>5. QueueOK(v.tld.spans, q0, v.s, Queued(h, R \cup {j}))
      BY ZenonT(30), <2>6, <2>12, <2>13, <2>15
    <3> HIDE DEF U, R, j
    <3> QED
      BY <2>10, <2>12, <3>1, <3>3, <3>4, <3>5 DEF WorldOK
  <2>17. \A k \in U \ P : k # i => h[k].block_size = 0
    BY <1>2, <2>10, <2>11
  <2>18. BlocksOK(h, P, w.s)
    <3>1. \A k \in P : h[k] = f[k]
      BY <1>1, <1>4, <2>10
    <3>2. \A b \in blocks : b.seg = w.s => b.page \in P \ {0}
      BY <1>2, BlocksPages
    <3> QED
      BY <1>2, <3>1, <3>2, BlocksMoved
  <2>19. SoundBut(v, q0, U, P, SLICES, i)
    <3>1. v.g.used = Cardinality(P \ {0}) /\ v.g.orphans \subseteq P \ {0}
      BY <1>2, <2>13 DEF Same
    <3> HIDE DEF U, R, j
    <3> QED
      BY ZenonT(30), <2>12, <2>13, <2>14, <2>16, <2>17, <2>18, <3>1 DEF SoundBut
  <2>20. Taken(w, v, q0, U, P, i, n)
    BY <1>1, <2>11, <2>12, <2>13, <2>19 DEF Taken
  <2> QED
    BY <2>2, <2>6, <2>10, <2>12, <2>20, <2>21 DEF Split
<1> QED
  BY <1>6, <1>7
-----------------------------------------------------------------------------
(* Allocating a page.                                                       *)

\* The span at i, which was neither free nor in use, becomes a page of g.
Given(w, g, T, P, i, n) ==
  /\ g \in SegRec /\ g.kind = w.g.kind /\ g.thread_id = w.g.thread_id /\ g.used = Cardinality((P \cup {i}) \ {0})
  /\ g.abandoned = w.g.abandoned /\ g.dont_free = w.g.dont_free /\ g.orphans = w.g.orphans /\ g.dirty = {}
  /\ TilesOK(g.slices, "NORMAL", T, P \cup {i}) /\ MaskOK(g, InUse(g.slices, P \cup {i}))
  /\ g.slices[i].slice_count = n /\ \A k \in T : k # i => g.slices[k] = w.g.slices[k]
CanGive(w, q0, T, P, i, n, a) ==
  /\ SoundBut(w, q0, T, P, SLICES, i) /\ InQueues(w.g) /\ i \in T /\ i \notin P
  /\ w.g.slices[i].slice_count = n
  /\ Allocated(w.g, InUse(w.g.slices, P), i, n, TRUE, a)

CanPage(f, h, T, P, i, n) ==
  /\ TilesOK(f, "NORMAL", T, P) /\ i \in T /\ i \notin P
  /\ f[i].slice_count = n /\ PageAt(f, "NORMAL", i, n, h)
Paged(f, h, T, P, i, n) ==
  /\ TilesOK(h, "NORMAL", T, P \cup {i}) /\ InUse(h, P \cup {i}) \subseteq InUse(f, P) \cup Mask(i, n)
  /\ h[i].slice_count = n /\ \A k \in T : k # i => h[k] = f[k]
LEMMA PageRecut ==
  ASSUME NEW f, NEW h, NEW T, NEW P, NEW i, NEW n, CanPage(f, h, T, P, i, n)
  PROVE  Paged(f, h, T, P, i, n)
<1> DEFINE hi == i + n
           N == NewSpans(T, i, hi, {i})
           Q == P \cup {i}
<1>0. /\ TilesOK(f, "NORMAL", T, P) /\ i \in T /\ i \notin P
      /\ f[i].slice_count = n /\ PageAt(f, "NORMAL", i, n, h)
  BY DEF CanPage
<1>1. /\ Tiled(f, T) /\ P \subseteq T /\ 0 \in P /\ SpanOK(f, "NORMAL", i, FALSE) /\ f \in [Entries -> SliceRecord]
  <2>1. (i \in P) = FALSE
    BY <1>0
  <2> QED
    BY ZenonT(30), <1>0, <2>1 DEF TilesOK
<1>2. /\ SLICES \in Nat /\ \A k \in T : k \in Nat /\ k < SLICES /\ k \in Entries /\ f[k].slice_count \in Nat \ {0}
      /\ i \in Slices
  BY <1>0, <1>1, SizesAssumption DEF Tiled, Slices, Entries
<1>3. /\ n \in Nat \ {0} /\ i \in Nat /\ hi \in Nat /\ i < hi /\ i + n <= SLICES /\ i \in Slices
      /\ (hi \in T \/ hi >= SLICES)
  BY <1>0, <1>1, <1>2 DEF SpanOK, Tiled
<1>4. \A k \in T : k < i \/ k = i \/ k >= hi
  <2> SUFFICES ASSUME NEW k \in T, i < k PROVE i + f[i].slice_count <= k
    BY <1>0, <1>2
  <2> QED
    BY <1>0, <1>1, TiledApart
<1>5. N = T
  BY ZenonT(30), <1>0, <1>2, <1>3, <1>4 DEF NewSpans
<1>6. PageHas("NORMAL", i, n, h)
  <2>1. PageFits("NORMAL", i, n)
    BY <1>3 DEF PageFits
  <2> QED
    BY <1>0, <2>1, PageIs
<1>7. /\ h \in [Entries -> SliceRecord] /\ SpanOK(h, "NORMAL", i, TRUE) /\ h[i].slice_count = n /\ h[i].block_size = n
      /\ \A k \in Entries : k < i \/ k >= hi => h[k] = f[k]
  BY ZenonT(30), <1>0, <1>6 DEF PageHas, PageAt
<1>8. \A k \in T : k # i => h[k] = f[k]
  BY <1>2, <1>4, <1>7
<1>9. Retiles(f, h, T, i, hi, {i})
  <2>1. h[i].slice_count \in Nat \ {0} /\ i + h[i].slice_count = hi
    BY <1>3, <1>7
  <2> HIDE DEF hi
  <2> QED
    BY <1>0, <1>3, <1>7, <2>1 DEF Retiles
<1>10. Recut(f, h, "NORMAL", T, P, i, hi, {i}, Q)
  <2>1. Q \subseteq N /\ 0 \in Q /\ \A k \in T : (k < i \/ k >= hi) /\ k \in Q => k \in P
    BY <1>0, <1>1, <1>3, <1>5
  <2>2. \A k \in {i} : SpanOK(h, "NORMAL", k, k \in Q)
    <3>1. (i \in Q) = TRUE
      OBVIOUS
    <3> QED
      BY ZenonT(30), <1>7, <3>1
  <2>3. h[i].block_size # 0
    BY <1>3, <1>7
  <2> HIDE DEF N, Q, hi
  <2> QED
    BY ZenonT(30), <1>0, <1>7, <1>9, <2>1, <2>2, <2>3 DEF Recut, N
<1>11. TilesOK(h, "NORMAL", T, Q)
  BY <1>5, <1>10, RecutOK
<1>12. InUse(h, Q) \subseteq InUse(f, P) \cup Mask(i, n)
  <2>1. \A k \in InUse(h, Q) : k < i \/ k >= hi => k \in InUse(f, P)
    BY <1>10, RecutUse
  <2>2. \A k \in Slices : ~(k < i \/ k >= hi) => k \in Mask(i, n)
    BY <1>3 DEF Mask, Slices
  <2>3. InUse(h, Q) \subseteq Slices
    BY DEF InUse
  <2> QED
    BY <2>1, <2>2, <2>3
<1> QED
  BY <1>7, <1>8, <1>11, <1>12 DEF Paged

LEMMA GiveOK ==
  ASSUME NEW w, NEW q0, NEW T, NEW P, NEW i, NEW n, NEW a, CanGive(w, q0, T, P, i, n, a)
  PROVE  Given(w, a.g, T, P, i, n)
<1> DEFINE f == w.g.slices
           g == a.g
           h == g.slices
           Q == P \cup {i}
<1>1. /\ SoundBut(w, q0, T, P, SLICES, i) /\ w.g.kind = "NORMAL" /\ i \in T /\ i \notin P
      /\ f[i].slice_count = n /\ Allocated(w.g, InUse(f, P), i, n, TRUE, a)
  BY ZenonT(30) DEF CanGive, InQueues
<1>2. /\ WorldOK(w, q0, T, P, Before(w.g, T, P, SLICES) \ {i})
      /\ w.g.used = Cardinality(P \ {0}) /\ w.g.orphans \subseteq P \ {0}
  BY <1>1 DEF SoundBut
<1>3. TilesOK(f, "NORMAL", T, P) /\ w.g.dirty = {}
  BY <1>1, <1>2 DEF WorldOK
<1>4. /\ g \in SegRec /\ g.kind = w.g.kind /\ g.thread_id = w.g.thread_id /\ g.used = w.g.used + 1
      /\ g.abandoned = w.g.abandoned /\ g.dont_free = w.g.dont_free
      /\ g.orphans = w.g.orphans /\ g.dirty = w.g.dirty
      /\ PageAt(f, "NORMAL", i, n, h) /\ MaskOK(g, InUse(f, P) \cup Mask(i, n))
  BY <1>1 DEF Allocated
<1>5. P \subseteq Slices /\ i \in Slices /\ i # 0
  BY <1>1, <1>3 DEF TilesOK, Tiled
<1> HIDE DEF g, f, h
<1>6. /\ TilesOK(h, "NORMAL", T, Q) /\ InUse(h, Q) \subseteq InUse(f, P) \cup Mask(i, n)
      /\ h[i].slice_count = n /\ \A k \in T : k # i => h[k] = f[k]
  <2>1. CanPage(f, h, T, P, i, n)
    BY <1>1, <1>3, <1>4 DEF CanPage
  <2>2. Paged(f, h, T, P, i, n)
    BY <2>1, PageRecut
  <2> QED
    BY <2>2 DEF Paged
<1>7. MaskOK(g, InUse(h, Q))
  BY ZenonT(30), <1>4, <1>6, MaskLess
<1>8. Cardinality(Q \ {0}) = Cardinality(P \ {0}) + 1
  <2>1. Q \ {0} = (P \ {0}) \cup {i}
    BY <1>5
  <2>2. Cardinality((P \ {0}) \cup {i}) = Cardinality(P \ {0}) + 1
    BY <1>1, <1>5, OneMore
  <2> QED
    BY <2>1, <2>2
<1> QED
  BY ZenonT(30), <1>2, <1>3, <1>4, <1>6, <1>7, <1>8 DEF Given, f, g, h

\* The page with its blocks: the one handed out is the first.
NewBlock(s, i, z) == [seg |-> s, page |-> i, start |-> i, len |-> z]
OneNew(B, s, i, z) == \A b \in B : b.seg = s => b \in blocks \/ b = NewBlock(s, i, z)
CanHold(w, g, q0, T, P, i, n, z, t, B) ==
  /\ Given(w, g, T, P, i, n) /\ SoundBut(w, q0, T, P, SLICES, i) /\ InQueues(w.g) /\ i \in T /\ i \notin P
  /\ w.g.abandoned = Cardinality(w.g.orphans) /\ w.g.dont_free = FALSE /\ w.g.thread_id = t /\ t \in Threads
  /\ z \in Nat \ {0} /\ z <= n /\ OneNew(B, w.s, i, z)
HoldsPage(w, g, q0, T, P, i, t, B) ==
  /\ Held(g, w.s, T, P, B) /\ g.thread_id = t
  /\ QueueOK(w.tld.spans, q0, w.s, QueuedOf(g, t))

LEMMA FewerOrphans ==
  ASSUME NEW P, P \subseteq Slices, NEW O, O \subseteq P
  PROVE  Cardinality(O) \in Nat /\ Cardinality(P) \in Nat /\ Cardinality(O) <= Cardinality(P)
<1>1. IsFiniteSet(P)
  BY PagesFinite
<1> QED
  BY <1>1, FS_Subset, FS_CardinalityType

LEMMA HoldOK ==
  ASSUME NEW w, NEW g, NEW q0, NEW T, NEW P, NEW i, NEW n, NEW z, NEW t, NEW B,
         CanHold(w, g, q0, T, P, i, n, z, t, B)
  PROVE  HoldsPage(w, Sized(g, i, z), q0, T, P \cup {i}, i, t, B)
<1> DEFINE Q == P \cup {i}
           f == w.g.slices
           e == g.slices
           x == Sized(g, i, z)
           h == x.slices
           s == w.s
           R == Before(w.g, T, P, SLICES) \ {i}
<1>1. /\ Given(w, g, T, P, i, n) /\ SoundBut(w, q0, T, P, SLICES, i) /\ InQueues(w.g) /\ i \in T /\ i \notin P
      /\ w.g.abandoned = Cardinality(w.g.orphans) /\ w.g.dont_free = FALSE /\ w.g.thread_id = t /\ t \in Threads
      /\ z \in Nat \ {0} /\ z <= n /\ OneNew(B, s, i, z)
  BY DEF CanHold
<1>2. /\ WorldOK(w, q0, T, P, R) /\ (\A k \in T \ P : k # i => f[k].block_size = 0) /\ BlocksOK(f, P, s)
      /\ w.g.used = Cardinality(P \ {0}) /\ w.g.orphans \subseteq P \ {0}
  BY <1>1 DEF SoundBut
<1>3. /\ g \in SegRec /\ g.kind = "NORMAL" /\ g.thread_id = t /\ g.used = Cardinality(Q \ {0})
      /\ g.abandoned = Cardinality(g.orphans) /\ g.dont_free = FALSE /\ g.orphans = w.g.orphans /\ g.dirty = {}
      /\ TilesOK(e, "NORMAL", T, Q) /\ MaskOK(g, InUse(e, Q))
      /\ e[i].slice_count = n /\ \A k \in T : k # i => e[k] = f[k]
  BY <1>1 DEF Given, InQueues
<1>4. /\ T \subseteq Slices /\ T \subseteq Entries /\ P \subseteq T /\ i \in Entries /\ i \in Slices /\ i \in Nat
      /\ i # 0 /\ P \subseteq Slices /\ 0 \in P
  <2>1. /\ P \subseteq T /\ 0 \in P /\ \A k \in T : k \in Nat /\ k \in Slices /\ k \in Entries
    BY <1>2, WorldTypes
  <2> QED
    BY <1>1, <2>1
<1>5. SizedFrom(g, x, i, z)
  BY <1>1, <1>3, <1>4, SizedIs
<1> HIDE DEF x, f
<1>6. TilesOK(h, "NORMAL", T, Q) /\ InUse(h, Q) = InUse(e, Q)
  BY ZenonT(30), <1>3, <1>4, <1>5, SizedTiles
<1>7. /\ x \in SegRec /\ x.kind = "NORMAL" /\ x.thread_id = t /\ x.used = Cardinality(Q \ {0})
      /\ x.abandoned = Cardinality(x.orphans) /\ x.dont_free = FALSE /\ x.orphans = w.g.orphans /\ x.dirty = {}
      /\ MasksEqual(g, x) /\ h[i].size = z /\ h[i].slice_count = n
      /\ \A k \in Entries : k # i => h[k] = e[k]
  BY <1>3, <1>5 DEF SizedFrom, Same
<1> HIDE DEF h, e
<1>8. \A k \in T : k # i => h[k] = f[k]
  BY <1>3, <1>4, <1>7
<1>9. MaskOK(x, InUse(h, Q))
  BY <1>3, <1>6, <1>7, MasksEqualOK
<1>10. Clean(h, T, Q)
  BY <1>2, <1>8 DEF Clean
<1>11. BlocksIn(B, h, Q, s)
  <2>1. (\A k \in P \ {0} : f[k].size \in Nat \ {0}) /\ \A b \in blocks : b.seg = s => BlockIn(f, P, b)
    BY <1>2 DEF BlocksOK, BlocksIn
  <2>2. \A k \in Q \ {0} : h[k].size \in Nat \ {0}
    BY <1>1, <1>4, <1>7, <1>8, <2>1
  <2>3. ASSUME NEW b \in B, b.seg = s PROVE BlockIn(h, Q, b)
    <3>1. b \in blocks \/ b = NewBlock(s, i, z)
      BY <1>1, <2>3 DEF OneNew
    <3>2. ASSUME b \in blocks PROVE BlockIn(h, Q, b)
      <4>1. BlockIn(f, P, b)
        BY <2>1, <2>3, <3>2
      <4>2. b.page \in P \ {0}
        BY <4>1 DEF BlockIn
      <4>3. h[b.page] = f[b.page]
        BY ZenonT(30), <1>1, <1>4, <1>8, <4>2
      <4> QED
        BY <4>1, <4>3 DEF BlockIn
    <3>3. ASSUME b = NewBlock(s, i, z) PROVE BlockIn(h, Q, b)
      <4>1. b.page = i /\ b.start = i /\ b.len = z
        BY <3>3 DEF NewBlock
      <4>2. i = i + 0 * z /\ 0 \in Nat /\ i + z <= i + n /\ z \in Nat
        <5>1. n \in Nat
          BY <1>4, <1>6, <1>1, <1>7 DEF TilesOK, Tiled
        <5> QED
          BY <1>1, <1>4, <5>1
      <4>3. i \in Q \ {0}
        BY <1>4
      <4> QED
        BY <1>7, <4>1, <4>2, <4>3 DEF BlockIn
    <3> QED
      BY <3>1, <3>2, <3>3
  <2> QED
    BY ZenonT(30), <2>2, <2>3 DEF BlocksIn
<1>12. x.used # x.abandoned /\ x.thread_id # NoThread
  <2>1. x.orphans \subseteq P \ {0} /\ P \ {0} \subseteq Slices
    BY <1>2, <1>4, <1>7
  <2>2. Cardinality(x.orphans) <= Cardinality(P \ {0}) /\ Cardinality(x.orphans) \in Nat /\ Cardinality(P \ {0}) \in Nat
    BY <2>1, FewerOrphans
  <2>3. Cardinality(Q \ {0}) = Cardinality(P \ {0}) + 1
    <3>1. Q \ {0} = (P \ {0}) \cup {i}
      BY <1>4
    <3>2. Cardinality((P \ {0}) \cup {i}) = Cardinality(P \ {0}) + 1
      BY ZenonT(30), <1>1, <1>4, OneMore
    <3> QED
      BY <3>1, <3>2
  <2> QED
    BY <1>1, <1>7, <2>2, <2>3, OptionsAssumption
<1>13. Held(x, s, T, Q, B)
  <2>1. x.orphans \subseteq Q \ {0}
    BY <1>2, <1>7
  <2>2. TilesOK(h, x.kind, T, Q) /\ x.kind \in {"NORMAL", "HUGE"}
    BY <1>6, <1>7
  <2> HIDE DEF Q
  <2> QED
    BY <1>7, <1>9, <1>10, <1>11, <1>12, <2>1, <2>2 DEF Held, h
<1>14. QueueOK(w.tld.spans, q0, s, QueuedOf(x, t))
  <2>1. QueuedOf(x, t) = Queued(h, Before(x, T, Q, SLICES))
    BY <1>1, <1>7, <1>13, HeldQueued DEF h
  <2>2. Before(x, T, Q, SLICES) = R
    <3>1. InQueues(x) /\ InQueues(w.g)
      BY <1>1, <1>7, <1>12 DEF InQueues
    <3> QED
      BY <3>1 DEF Before
  <2>3. Queued(h, R) = Queued(f, R)
    <3>1. R \subseteq T /\ i \notin R
      BY <1>2 DEF WorldOK
    <3>2. \A k \in R : h[k] = f[k]
      BY <1>8, <3>1
    <3> HIDE DEF R
    <3> QED
      BY <3>2, QueuedSame
  <2>4. QueueOK(w.tld.spans, q0, s, Queued(f, R))
    BY <1>2 DEF WorldOK, f
  <2> QED
    BY <2>1, <2>2, <2>3, <2>4
<1> QED
  BY <1>7, <1>13, <1>14 DEF HoldsPage, x

\* A free span of the thread, cut to n slices and taken.
Ready(w, y, t, T, U, P, i, n) ==
  /\ SoundBut(y, tld[t].spans, U, P, SLICES, i) /\ InQueues(y.g) /\ i \in U /\ i \notin P /\ y.s = w.s
  /\ y.g.slices[i].slice_count = n /\ y.g.slices[i].block_size = 1
  /\ y.g.abandoned = Cardinality(y.g.orphans) /\ y.g.dont_free = FALSE /\ y.g.thread_id = t
  /\ y.g.used = y.g.abandoned => y.g.used = 0
  /\ QueueDelete(w, i).g.slices[i].slice_count = w.g.slices[i].slice_count
  /\ LeftOver(QueueDelete(w, i), i, n) \in Worlds
  /\ T \subseteq U /\ \A k \in T : k # i => y.g.slices[k] = w.g.slices[k]
CanReady(w, t, s, T, P, i, n) ==
  /\ OwnStart(w, t, s, T, P) /\ t \in Threads /\ w.g.kind = "NORMAL" /\ i \in T /\ i \notin P
  /\ n \in Nat \ {0} /\ n <= w.g.slices[i].slice_count

LEMMA ReadyOK ==
  ASSUME NEW w, NEW t, NEW s, NEW T, NEW P, NEW i, NEW n, CanReady(w, t, s, T, P, i, n)
  PROVE  \E U : Ready(w, SliceSplit(QueueDelete(w, i), i, n), t, T, U, P, i, n)
<1> DEFINE q0 == tld[t].spans
           x == QueueDelete(w, i)
           y == SliceSplit(x, i, n)
           c == w.g.slices[i].slice_count
<1>1. /\ OwnStart(w, t, s, T, P) /\ t \in Threads /\ w.g.kind = "NORMAL" /\ i \in T /\ i \notin P
      /\ n \in Nat \ {0} /\ n <= c
  BY DEF CanReady
<1>2. /\ Sound(w, q0, T, P, SLICES) /\ w.g.abandoned = Cardinality(w.g.orphans) /\ w.g.dont_free = FALSE
      /\ w.g.thread_id = t /\ w.g.used = w.g.abandoned => w.g.used = 0
  BY <1>1 DEF OwnStart, Owns
<1>3. t # NoThread
  BY <1>1, OptionsAssumption
<1>4. InQueues(w.g)
  BY <1>1, <1>2, <1>3 DEF InQueues, OwnStart, Owns
<1> HIDE DEF q0
<1>5. CanTake(w, q0, T, P, i)
  BY <1>1, <1>2, <1>4 DEF CanTake
<1>6. Taken(w, x, q0, T, P, i, c) /\ Alone(x.g.slices, T, i)
      /\ \A k \in Entries : k # i => x.g.slices[k] = w.g.slices[k]
  BY <1>5, TakeOK
<1> HIDE DEF x
<1>7. /\ SoundBut(x, q0, T, P, SLICES, i) /\ x.s = w.s /\ Same(w.g, x.g)
      /\ x.g.slices[i].slice_count = c /\ x.g.slices[i].block_size = 1
  BY <1>6 DEF Taken
<1>8. InQueues(x.g)
  BY <1>4, <1>7 DEF InQueues, Same
<1>9. CanSplit(x, q0, T, P, i, n)
  BY <1>1, <1>6, <1>7, <1>8 DEF CanSplit
<1>10. Split(x, y, q0, T, P, i, n)
  BY <1>9, SplitOK
<1> HIDE DEF y
<1>18. LeftOver(x, i, n) \in Worlds
  BY <1>10 DEF Split
<1>11. PICK U : /\ Taken(x, y, q0, U, P, i, n) /\ T \subseteq U
                /\ \A k \in T : k # i => y.g.slices[k] = x.g.slices[k]
  BY <1>10 DEF Split
<1>12. /\ SoundBut(y, q0, U, P, SLICES, i) /\ y.s = x.s /\ Same(x.g, y.g) /\ i \in U
       /\ y.g.slices[i].slice_count = n /\ y.g.slices[i].block_size = 1
  BY <1>11 DEF Taken
<1>13. InQueues(y.g)
  BY <1>8, <1>12 DEF InQueues, Same
<1>14. /\ y.g.used = w.g.used /\ y.g.abandoned = w.g.abandoned /\ y.g.dont_free = w.g.dont_free
       /\ y.g.thread_id = w.g.thread_id /\ y.g.orphans = w.g.orphans
  BY <1>7, <1>12 DEF Same
<1>15. \A k \in T : k # i => y.g.slices[k] = w.g.slices[k]
  <2>1. T \subseteq Entries
    <3>1. WorldOK(w, q0, T, P, Before(w.g, T, P, SLICES))
      BY <1>2 DEF Sound, q0
    <3> QED
      BY <3>1, WorldTypes
  <2> QED
    BY <1>6, <1>11, <2>1
<1>16. y.g.abandoned = Cardinality(y.g.orphans) /\ y.g.dont_free = FALSE /\ y.g.thread_id = t
       /\ (y.g.used = y.g.abandoned => y.g.used = 0)
  BY <1>1, <1>2, <1>14 DEF OwnStart, Owns
<1>17. Ready(w, y, t, T, U, P, i, n)
  BY <1>1, <1>7, <1>11, <1>12, <1>13, <1>15, <1>16, <1>18 DEF Ready, q0, x
<1> QED
  BY <1>17 DEF y, x

\* The page is committed, its blocks have their size, and a purge is tried.
Handed(y, g, i, z) == SetSegment(y, TryPurge(Sized(g, i, z), FALSE))

StillHeld(g, h, s, T, P, B, t) ==
  Held(h, s, T, P, B) /\ h.thread_id = g.thread_id /\ QueuedOf(h, t) = QueuedOf(g, t)
LEMMA HeldPurged ==
  ASSUME NEW g, NEW s, NEW T, NEW P, NEW B, Held(g, s, T, P, B), NEW force, NEW t
  PROVE  StillHeld(g, TryPurge(g, force), s, T, P, B, t)
<1> DEFINE h == TryPurge(g, force)
<1>1. g \in SegRec /\ MaskOK(g, InUse(g.slices, P))
  BY DEF Held
<1>2. Same(g, h) /\ h.slices = g.slices /\ MaskOK(h, InUse(g.slices, P))
  BY <1>1, TryPurgeOK
<1> HIDE DEF h
<1>3. Held(h, s, T, P, B)
  BY <1>2 DEF Held, Same
<1>4. FreeSpans(h) = FreeSpans(g)
  BY <1>3, HeldSpans
<1>5. QueuedOf(h, t) = QueuedOf(g, t)
  BY <1>2, <1>4 DEF QueuedOf, Same
<1> QED
  BY <1>2, <1>3, <1>5 DEF h, Same, StillHeld

CanHand(w, y, t, s, T, U, P, i, n, a, z, B) ==
  /\ Ready(w, y, t, T, U, P, i, n) /\ w.s = s /\ t \in Threads
  /\ Allocated(y.g, InUse(y.g.slices, P), i, n, TRUE, a)
  /\ z \in Nat \ {0} /\ z <= n /\ OneNew(B, s, i, z)
LEMMA HandOK ==
  ASSUME NEW w, NEW y, NEW t, NEW s, NEW T, NEW U, NEW P, NEW i, NEW n, NEW a, NEW z, NEW B,
         CanHand(w, y, t, s, T, U, P, i, n, a, z, B)
  PROVE  EndsWith(Handed(y, a.g, i, z), s, t, tld[t].spans, B)
<1> DEFINE q0 == tld[t].spans
           g == a.g
           x == Sized(g, i, z)
           h == TryPurge(x, FALSE)
           v == SetSegment(y, h)
<1>1. /\ Ready(w, y, t, T, U, P, i, n) /\ w.s = s /\ t \in Threads
      /\ Allocated(y.g, InUse(y.g.slices, P), i, n, TRUE, a)
      /\ z \in Nat \ {0} /\ z <= n /\ OneNew(B, s, i, z)
  BY ZenonT(30) DEF CanHand
<1>2. /\ SoundBut(y, q0, U, P, SLICES, i) /\ InQueues(y.g) /\ i \in U /\ i \notin P /\ y.s = s
      /\ y.g.slices[i].slice_count = n
      /\ y.g.abandoned = Cardinality(y.g.orphans) /\ y.g.dont_free = FALSE /\ y.g.thread_id = t
  BY <1>1 DEF Ready
<1> HIDE DEF q0
<1>3. CanGive(y, q0, U, P, i, n, a)
  BY ZenonT(30), <1>1, <1>2 DEF CanGive
<1>4. Given(y, g, U, P, i, n)
  BY <1>3, GiveOK
<1> HIDE DEF g
<1>5. CanHold(y, g, q0, U, P, i, n, z, t, B)
  BY <1>1, <1>2, <1>4 DEF CanHold
<1>6. HoldsPage(y, x, q0, U, P \cup {i}, i, t, B)
  BY <1>5, HoldOK
<1> HIDE DEF x
<1>7. Held(x, s, U, P \cup {i}, B) /\ x.thread_id = t /\ QueueOK(y.tld.spans, q0, s, QueuedOf(x, t))
  BY <1>2, <1>6 DEF HoldsPage
<1>8. Held(h, s, U, P \cup {i}, B) /\ h.thread_id = t /\ QueuedOf(h, t) = QueuedOf(x, t)
  <2>1. Held(x, s, U, P \cup {i}, B)
    BY <1>7
  <2>2. StillHeld(x, h, s, U, P \cup {i}, B, t)
    BY ZenonT(30), <2>1, HeldPurged
  <2> QED
    BY ZenonT(30), <1>7, <2>2 DEF StillHeld
<1> HIDE DEF h
<1>9. y \in Worlds /\ h \in SegRec
  BY <1>2, <1>8 DEF SoundBut, WorldOK, Held
<1> HIDE DEF v
<1>10. v \in Worlds /\ v.s = s /\ v.tld = y.tld /\ v.g = h
  BY <1>2, <1>9, SetSegmentIs DEF v
<1>11. EndsWith(v, s, t, q0, B)
  BY <1>7, <1>8, <1>10 DEF EndsWith, SegmentIs
<1> QED
  BY ZenonT(30), <1>11 DEF Handed, v, h, x, g, q0

\* A page that cannot be committed is a free span again.
LEMMA GiveBackOK ==
  ASSUME NEW w, NEW y, NEW t \in Threads, NEW T, NEW U, NEW P, NEW i, NEW n, Ready(w, y, t, T, U, P, i, n)
  PROVE  Ended(SpanFreeCoalesce(y, i), w.s, t, tld[t].spans)
<1> DEFINE q0 == tld[t].spans
           v == SpanFreeCoalesce(y, i)
<1>1. /\ SoundBut(y, q0, U, P, SLICES, i) /\ i \in U /\ i \notin P /\ y.s = w.s
      /\ y.g.abandoned = Cardinality(y.g.orphans) /\ y.g.dont_free = FALSE /\ y.g.thread_id = t
      /\ (y.g.used = y.g.abandoned => y.g.used = 0)
  BY DEF Ready
<1> HIDE DEF q0, v
<1>2. SLICES \in Nat
  BY SizesAssumption
<1>3. PICK lo, m : /\ Coalesced(y, v, i, U, P, Before(y.g, U, P, SLICES) \ {i}, q0, lo, m)
                   /\ Follows(v, q0, U, P, lo, m, SLICES)
  BY ZenonT(30), <1>1, <1>2, CoalesceSound DEF v
<1>4. Sound(v, q0, NewT(U, lo, m), P, SLICES)
  BY <1>2, <1>3 DEF Follows
<1>5. v.s = y.s /\ Same(y.g, v.g)
  BY <1>3 DEF Coalesced
<1>6. Owns(v, q0, NewT(U, lo, m), P, t)
  BY <1>1, <1>4, <1>5 DEF Owns, Same
<1>7. v.g.used = v.g.abandoned => v.g.used = 0
  BY <1>1, <1>5 DEF Same
<1>8. Ended(v, v.s, t, q0)
  BY <1>6, <1>7, StillOwns
<1> QED
  BY <1>1, <1>5, <1>8 DEF v, q0

LEMMA FindAndAllocateFits ==
  ASSUME Fits(segment, tld, blocks), NEW t \in Threads, NEW page \in PageSizes, FindAndAllocate(t, page)
  PROVE  Fits(segment', tld', blocks')
<1> DEFINE n == page[1]
           z == page[2]
           q0 == tld[t].spans
           e == FindSpan(q0, n)
           s == e[1]
           i == e[2]
           w == World(t, s)
           y == SliceSplit(QueueDelete(w, i), i, n)
           B == blocks \cup {NewBlock(s, i, z)}
<1>1. /\ n \in Nat \ {0} /\ z \in Nat \ {0} /\ z <= n /\ n \in 0 .. SLICES
  <2>1. /\ {SLICES, INFO, LARGE} \subseteq Nat \ {0} /\ INFO + LARGE <= SLICES
        /\ PageSizes \subseteq (1 .. LARGE) \X (1 .. LARGE) /\ \A p \in PageSizes : p[2] <= p[1]
    BY SizesAssumption
  <2>2. page \in (1 .. LARGE) \X (1 .. LARGE)
    BY <2>1
  <2>3. n \in 1 .. LARGE /\ z \in 1 .. LARGE
    BY <2>2
  <2>4. z <= n
    BY <2>1
  <2> HIDE DEF n, z
  <2> QED
    BY <2>1, <2>3, <2>4
<1>2. Candidates(q0, n) # {}
  BY ZenonT(30) DEF FindAndAllocate
<1>3. PICK ok \in BOOLEAN :
        LET r == AllocateAt(w, i, n, ok)
            x == [r.w EXCEPT !.g.slices[i].size = z]
        IN IF r.ok
             THEN Done([x EXCEPT !.g = TryPurge(@, FALSE)], t) /\ blocks' = B
             ELSE Done(r.w, t) /\ UNCHANGED blocks
  <2>1. Answers("page") \subseteq BOOLEAN
    BY ZenonT(30) DEF Answers
  <2> QED
    BY ZenonT(30), <2>1 DEF FindAndAllocate, NewBlock
<1> HIDE DEF n, z, e
<1>4. Found(t, e, n)
  BY <1>1, <1>2, FindSpanOK DEF e
<1>5. s \in Addresses /\ Owned(t, s) /\ segment[s].kind = "NORMAL" /\ i \in FreeSpans(segment[s])
      /\ segment[s].slices[i].slice_count >= n /\ segment[s].thread_id = t
  BY <1>4 DEF Found, Owned
<1> HIDE DEF s, i
<1>6. PICK T, P : OwnStart(w, t, s, T, P)
  BY <1>5, OwnedStart
<1>7. w.g = segment[s] /\ w.s = s /\ w.tld = tld[t] /\ Held(w.g, s, T, P, blocks)
  BY <1>6 DEF OwnStart
<1> HIDE DEF w
<1>8. i \in T /\ i \notin P
  BY <1>5, <1>7, HeldSpans
<1>9. w.g.slices[i].slice_count \in Nat /\ i \in Slices /\ blocks \subseteq Blocks
  <2>1. T \subseteq Slices /\ \A k \in T : w.g.slices[k].slice_count \in Nat \ {0}
    BY <1>7 DEF Held, TilesOK, Tiled
  <2> QED
    BY <1>8, <2>1 DEF Fits
<1>10. CanReady(w, t, s, T, P, i, n)
  BY <1>1, <1>5, <1>6, <1>7, <1>8, <1>9 DEF CanReady
<1>11. PICK U : Ready(w, y, t, T, U, P, i, n)
  BY <1>10, ReadyOK
<1> DEFINE a == SpanAllocate(y.g, i, n, ok)
<1>12. LET x == [[y EXCEPT !.g = a.g] EXCEPT !.g.slices[i].size = z]
       IN IF a.ok
             THEN Done([x EXCEPT !.g = TryPurge(@, FALSE)], t) /\ blocks' = B
             ELSE Done(SpanFreeCoalesce(y, i), t) /\ UNCHANGED blocks
  BY ZenonT(30), <1>3 DEF AllocateAt
<1> HIDE DEF y
<1>13. /\ SoundBut(y, q0, U, P, SLICES, i)
  BY <1>11 DEF Ready
<1>14. y \in Worlds /\ y.g \in SegRec /\ MaskOK(y.g, InUse(y.g.slices, P))
  <2>1. WorldOK(y, q0, U, P, Before(y.g, U, P, SLICES) \ {i})
    BY <1>13 DEF SoundBut
  <2>2. y.g \in SegRec
    BY <2>1, WorldTypes
  <2> QED
    BY <2>1, <2>2 DEF WorldOK
<1>15. Allocated(y.g, InUse(y.g.slices, P), i, n, ok, a)
  BY <1>1, <1>9, <1>14, SpanAllocateOK
<1> HIDE DEF a, q0
<1>16. ASSUME a.ok PROVE Fits(segment', tld', blocks')
  <2> DEFINE v == Handed(y, a.g, i, z)
  <2>1. Allocated(y.g, InUse(y.g.slices, P), i, n, TRUE, a)
    BY <1>15, <1>16 DEF Allocated
  <2>2. [[[y EXCEPT !.g = a.g] EXCEPT !.g.slices[i].size = z] EXCEPT !.g = TryPurge(@, FALSE)] = v
    BY ZenonT(30), <1>14 DEF Handed, SetSegment, Sized, Worlds
  <2>3. Done(v, t) /\ blocks' = B
    BY <1>12, <1>16, <2>2
  <2>4. NewBlock(s, i, z) \in Blocks /\ NewBlock(s, i, z).seg = s
    BY <1>1, <1>5, <1>9 DEF NewBlock, Blocks, Slices
  <2>5. B \subseteq Blocks /\ \A b \in B : b.seg # s => b \in blocks
    BY <1>9, <2>4
  <2>6. OneNew(B, s, i, z)
    BY DEF OneNew
  <2> HIDE DEF B, v
  <2>7. CanHand(w, y, t, s, T, U, P, i, n, a, z, B)
    BY ZenonT(30), <1>1, <1>7, <1>11, <2>1, <2>6 DEF CanHand
  <2>8. EndsWith(v, s, t, tld[t].spans, B)
    BY <2>7, HandOK DEF v
  <2>9. PICK x : x = v
    OBVIOUS
  <2>10. EndsWith(x, s, t, tld[t].spans, blocks') /\ Done(x, t) /\ blocks' \subseteq Blocks
         /\ (\A b \in blocks' : b.seg # s => b \in blocks) /\ segment[s].thread_id \in {t, NoThread}
    BY <1>5, <2>3, <2>5, <2>8, <2>9
  <2> QED
    BY <1>5, <2>10, DoneKeeps
<1>17. ASSUME ~a.ok PROVE Fits(segment', tld', blocks')
  <2>1. PICK x : x = SpanFreeCoalesce(y, i)
    OBVIOUS
  <2>2. Ended(x, w.s, t, tld[t].spans)
    BY <1>11, <2>1, GiveBackOK
  <2>3. Done(x, t) /\ UNCHANGED blocks /\ segment[s].thread_id \in {t, NoThread} /\ Ended(x, s, t, tld[t].spans)
    BY <1>5, <1>7, <1>12, <1>17, <2>1, <2>2
  <2> QED
    BY <1>5, <2>3, CallDone
<1> QED
  BY <1>16, <1>17
-----------------------------------------------------------------------------
(* Extending a page.                                                        *)

\* h is d with the page at i, of cur slices, extended by the `need` slices behind it.
ExtendedAt(d, h, i, cur, need) ==
  /\ h \in [Entries -> SliceRecord]
  /\ h[i].slice_count = cur + need /\ h[i].block_size = cur + need /\ h[i].size = cur + need
  /\ h[i].slice_offset = d[i].slice_offset
  /\ \A k \in Mask(i + cur, need) : h[k].slice_offset = k - i
  /\ \A k \in Entries : k # i /\ (k < i + cur \/ k >= i + cur + need) => h[k] = d[k]
CanGrow(d, h, U, P, i, cur, need) ==
  /\ TilesOK(d, "NORMAL", U, P) /\ i \in P /\ d[i].slice_count = cur
  /\ i + cur \in U /\ i + cur \notin P /\ d[i + cur].slice_count = need
  /\ ExtendedAt(d, h, i, cur, need)
Grown(d, h, U, P, i, cur, need) ==
  /\ TilesOK(h, "NORMAL", U \ {i + cur}, P) /\ InUse(h, P) \subseteq InUse(d, P) \cup Mask(i + cur, need)
  /\ \A k \in U : k # i /\ k # i + cur => h[k] = d[k]

LEMMA GrowOK ==
  ASSUME NEW d, NEW h, NEW U, NEW P, NEW i, NEW cur, NEW need, CanGrow(d, h, U, P, i, cur, need)
  PROVE  Grown(d, h, U, P, i, cur, need)
<1> DEFINE next == i + cur
           hi == i + cur + need
           N == NewSpans(U, i, hi, {i})
<1>1. /\ TilesOK(d, "NORMAL", U, P) /\ i \in P /\ d[i].slice_count = cur
      /\ next \in U /\ next \notin P /\ d[next].slice_count = need
      /\ ExtendedAt(d, h, i, cur, need)
  BY DEF CanGrow
<1>2. /\ Tiled(d, U) /\ P \subseteq U /\ 0 \in P /\ d \in [Entries -> SliceRecord] /\ i \in U
      /\ SpanOK(d, "NORMAL", i, TRUE) /\ SpanOK(d, "NORMAL", next, FALSE)
  <2>1. (i \in P) = TRUE /\ (next \in P) = FALSE
    BY <1>1
  <2>2. i \in U
    BY <1>1 DEF TilesOK
  <2>3. SpanOK(d, "NORMAL", i, i \in P) /\ SpanOK(d, "NORMAL", next, next \in P)
    BY <1>1, <2>2 DEF TilesOK
  <2> HIDE DEF next
  <2> QED
    BY ZenonT(30), <1>1, <2>1, <2>2, <2>3 DEF TilesOK
<1>3. /\ SLICES \in Nat
      /\ \A k \in U : k \in Nat /\ k < SLICES /\ k \in Slices /\ k \in Entries /\ d[k].slice_count \in Nat \ {0}
  BY <1>2, SizesAssumption DEF Tiled, Slices, Entries
<1>4. /\ i \in Nat /\ cur \in Nat \ {0} /\ need \in Nat \ {0} /\ next \in Nat /\ hi \in Nat /\ i < next /\ next < hi
      /\ i < hi /\ hi = next + need
  BY <1>1, <1>2, <1>3
<1>5. (hi \in U \/ hi >= SLICES) /\ hi <= SLICES
  <2>1. next + d[next].slice_count \in U \/ next + d[next].slice_count >= SLICES
    BY <1>1, <1>2 DEF Tiled
  <2>2. next + d[next].slice_count <= SLICES
    BY <1>2 DEF SpanOK
  <2> QED
    BY <1>1, <1>4, <2>1, <2>2
<1>6. \A k \in U : k < i \/ k = i \/ k = next \/ k >= hi
  <2>1. \A k \in U : i < k => i + d[i].slice_count <= k
    BY <1>2, TiledApart
  <2>2. \A k \in U : next < k => next + d[next].slice_count <= k
    BY <1>1, <1>2, TiledApart
  <2> SUFFICES ASSUME NEW k \in U, i < k, next < k PROVE k >= hi
    BY <1>1, <1>3, <1>4, <2>1
  <2> QED
    BY <1>1, <1>4, <2>2
<1>7. N = U \ {next}
  <2>1. \A k \in U : (k < i \/ k >= hi) \/ k = i <=> k # next
    BY <1>3, <1>4, <1>6
  <2> HIDE DEF hi, next
  <2> QED
    BY <1>2, <2>1 DEF NewSpans
<1>8. /\ h \in [Entries -> SliceRecord]
      /\ h[i].slice_count = cur + need /\ h[i].block_size = cur + need /\ h[i].size = cur + need
      /\ h[i].slice_offset = d[i].slice_offset
      /\ \A k \in Mask(next, need) : h[k].slice_offset = k - i
      /\ \A k \in Entries : k # i /\ (k < next \/ k >= hi) => h[k] = d[k]
  BY <1>1 DEF ExtendedAt
<1>9. \A k \in Entries : k < i \/ k >= hi => h[k] = d[k]
  <2> SUFFICES ASSUME NEW k \in Entries, k < i \/ k >= hi PROVE h[k] = d[k]
    OBVIOUS
  <2>1. k # i /\ (k < next \/ k >= hi)
    BY <1>4 DEF Entries
  <2> QED
    BY <1>8, <2>1
<1>10. i + h[i].slice_count = hi /\ h[i].slice_count \in Nat \ {0} /\ h[i].block_size \in Nat \ {0} /\ d[i].slice_offset = 0
  BY <1>2, <1>4, <1>8 DEF SpanOK
<1>11. \A k \in Slices : next <= k /\ k < hi => k \in Mask(next, need)
  BY <1>4 DEF Mask, Slices
<1>12. \A k \in Slices : next <= k /\ k < hi => k - h[k].slice_offset = i
  <2> SUFFICES ASSUME NEW k \in Slices, next <= k, k < hi PROVE k - h[k].slice_offset = i
    OBVIOUS
  <2>1. h[k].slice_offset = k - i
    BY <1>8, <1>11
  <2> QED
    BY <1>3, <1>4, <2>1 DEF Slices
<1>13. \A k \in Slices : i < k /\ k < next => h[k] = d[k]
  <2> SUFFICES ASSUME NEW k \in Slices, i < k, k < next PROVE h[k] = d[k]
    OBVIOUS
  <2>1. k \in Entries /\ k # i
    BY <1>3, <1>4 DEF Slices, Entries
  <2> QED
    BY <1>8, <2>1
<1>14. \A k \in Slices : i < k /\ k < next /\ k - i <= PA_MAX_SLICE_OFFSET_COUNT => k - d[k].slice_offset = i
  <2> SUFFICES ASSUME NEW k \in Slices, i < k, k < next, k - i <= PA_MAX_SLICE_OFFSET_COUNT
               PROVE  k - d[k].slice_offset = i
    OBVIOUS
  <2>1. i <= k /\ k < i + d[i].slice_count
    BY <1>1, <1>4 DEF Slices
  <2> QED
    BY <1>2, <2>1 DEF SpanOK
<1> HIDE DEF next, hi
<1>15. SpanOK(h, "NORMAL", i, TRUE)
  <2>1. h[i].slice_offset = 0 /\ h[i].block_size \in Nat /\ h[i].block_size # 0 /\ i + h[i].slice_count <= SLICES
    BY <1>5, <1>8, <1>10
  <2>2. ASSUME NEW k \in Slices, i <= k, k < hi, k = hi - 1 \/ k - i <= PA_MAX_SLICE_OFFSET_COUNT
        PROVE  k - h[k].slice_offset = i
    <3>1. CASE k = i
      BY <1>4, <2>1, <3>1
    <3>2. CASE i < k /\ k < next
      <4>1. k # hi - 1
        BY <1>4, <3>2
      <4> QED
        BY <1>13, <1>14, <2>2, <3>2, <4>1
    <3>3. CASE next <= k
      BY <1>12, <2>2, <3>3
    <3> QED
      BY <1>4, <2>2, <3>1, <3>2, <3>3 DEF Slices
  <2>3. \A k \in Slices : i <= k /\ k < hi /\ (k = hi - 1 \/ k - i <= PA_MAX_SLICE_OFFSET_COUNT)
                           => k - h[k].slice_offset = i
    BY <2>2
  <2>4. \A k \in Slices : i <= k /\ k < i + h[i].slice_count
           /\ (k = i + h[i].slice_count - 1 \/ k - i <= PA_MAX_SLICE_OFFSET_COUNT) => k - h[k].slice_offset = i
    BY <1>4, <1>10, <2>3
  <2> HIDE DEF PA_MAX_SLICE_OFFSET_COUNT
  <2> QED
    BY <2>1, <2>4 DEF SpanOK
<1>16. Retiles(d, h, U, i, hi, {i})
  <2>1. i \in Slices
    BY <1>2, <1>3
  <2> QED
    BY <1>2, <1>4, <1>5, <1>9, <1>10, <2>1 DEF Retiles
<1>17. Recut(d, h, "NORMAL", U, P, i, hi, {i}, P)
  <2>1. P \subseteq N /\ 0 \in P
    BY <1>1, <1>2, <1>7
  <2>2. \A k \in {i} : SpanOK(h, "NORMAL", k, k \in P)
    <3>1. (i \in P) = TRUE
      BY <1>1
    <3> QED
      BY ZenonT(30), <1>15, <3>1
  <2>3. h[i].block_size # 0
    BY <1>10
  <2> HIDE DEF N
  <2> QED
    BY ZenonT(30), <1>1, <1>8, <1>16, <2>1, <2>2, <2>3 DEF Recut, N
<1>18. TilesOK(h, "NORMAL", U \ {next}, P)
  BY <1>7, <1>17, RecutOK
<1>19. InUse(h, P) \subseteq InUse(d, P) \cup Mask(next, need)
  <2>1. \A k \in InUse(h, P) : k < i \/ k >= hi => k \in InUse(d, P)
    BY <1>17, RecutUse
  <2>2. \A k \in Slices : i <= k /\ k < next => k \in InUse(d, P)
    <3>1. next = i + d[i].slice_count
      BY <1>1 DEF next
    <3> QED
      BY <1>1, <3>1 DEF InUse
  <2>3. \A k \in InUse(h, P) : k \in Slices
    BY DEF InUse
  <2> SUFFICES ASSUME NEW k \in InUse(h, P) PROVE k \in InUse(d, P) \/ k \in Mask(next, need)
    OBVIOUS
  <2>4. k < i \/ k >= hi \/ (i <= k /\ k < next) \/ (next <= k /\ k < hi)
    BY <1>3, <1>4, <2>3 DEF Slices
  <2> QED
    BY <1>11, <2>1, <2>2, <2>3, <2>4
<1>20. \A k \in U : k # i /\ k # next => h[k] = d[k]
  BY <1>3, <1>6, <1>9
<1> QED
  BY <1>18, <1>19, <1>20 DEF Grown, next

\* y differs from z in the entry at i only.
Like(y, z, i) ==
  /\ z \in Worlds /\ z.s = y.s /\ z.tld = y.tld /\ Same(y.g, z.g) /\ MasksEqual(y.g, z.g)
  /\ \A k \in Entries : k # i => z.g.slices[k] = y.g.slices[k]
LEMMA LikeOK ==
  ASSUME NEW x, NEW i \in Slices, NEW n \in Nat \ {0}, LeftOver(x, i, n) \in Worlds,
         x.g.slices[i].slice_count \in Nat
  PROVE  Like(SliceSplit(x, i, n), LeftOver(x, i, n), i)
<1> DEFINE c == x.g.slices[i].slice_count
           z == LeftOver(x, i, n)
           f == z.g.slices
           h == [f EXCEPT ![i].slice_count = n]
           y == SetSlices(z, h)
<1>1. z \in Worlds /\ z.g \in SegRec /\ f \in [Entries -> SliceRecord]
  BY WorldParts
<1>2. i \in Entries /\ n \in Int
  BY SizesAssumption DEF Slices, Entries
<1>3. ASSUME n < c PROVE Like(SliceSplit(x, i, n), z, i)
  <2>1. ~(c <= n)
    BY <1>3
  <2>2. z = SpanFree(x, i + n, c - n, FALSE)
    BY <1>3 DEF LeftOver
  <2>3. SliceSplit(x, i, n) = y
    BY <2>1, <2>2 DEF SliceSplit, SetSlices
  <2> HIDE DEF z, f
  <2>4. h \in [Entries -> SliceRecord]
    BY ZenonT(30), <1>1, <1>2, EntryTypes
  <2>5. \A k \in Entries : k # i => h[k] = f[k]
    BY <1>1
  <2> HIDE DEF h, y
  <2>6. y.s = z.s /\ y.tld = z.tld /\ Same(z.g, y.g) /\ MasksEqual(z.g, y.g) /\ y.g.slices = h
    BY <1>1, <2>4, SetSlicesIs DEF y
  <2>7. Same(y.g, z.g) /\ MasksEqual(y.g, z.g)
    BY <1>1, <2>6 DEF Same, MasksEqual
  <2>8. \A k \in Entries : k # i => z.g.slices[k] = y.g.slices[k]
    BY <2>5, <2>6 DEF f
  <2> QED
    BY <1>1, <2>3, <2>6, <2>7, <2>8 DEF Like
<1>4. ASSUME ~(n < c) PROVE Like(SliceSplit(x, i, n), z, i)
  <2>1. c <= n
    BY <1>4
  <2>2. SliceSplit(x, i, n) = x /\ z = x
    BY <1>4, <2>1 DEF SliceSplit, LeftOver
  <2> HIDE DEF z
  <2>3. Same(z.g, z.g) /\ MasksEqual(z.g, z.g)
    BY <1>1 DEF Same, MasksEqual
  <2> QED
    BY <1>1, <2>2, <2>3 DEF Like
<1> QED
  BY <1>3, <1>4

\* The entries of _pa_segment_try_extend_span, and what the call leaves.
GrowEntries(f, i, cur, need) ==
  [k \in Entries |->
     IF k = i THEN [f[k] EXCEPT !.slice_count = cur + need, !.block_size = cur + need, !.size = cur + need]
     ELSE IF k \in Mask(i + cur, need) THEN Inner(k - i) ELSE f[k]]
Extended(z, c, i, cur, need) == [z EXCEPT !.g = [c.g EXCEPT !.slices = GrowEntries(c.g.slices, i, cur, need)]]

Differ(d, e, j) ==
  /\ d \in [Entries -> SliceRecord] /\ e \in [Entries -> SliceRecord]
  /\ \A k \in Entries : k # j => e[k] = d[k]
LEMMA GrowEntriesOK ==
  ASSUME NEW d, NEW e, NEW i \in Slices, NEW cur \in Nat \ {0}, NEW need \in Nat \ {0}, Differ(d, e, i + cur)
  PROVE  ExtendedAt(d, GrowEntries(e, i, cur, need), i, cur, need)
<1> DEFINE j == i + cur
           x == [e[i] EXCEPT !.slice_count = cur + need, !.block_size = cur + need, !.size = cur + need]
           h == GrowEntries(e, i, cur, need)
<1>1. /\ i \in Nat /\ i \in Entries /\ j \in Nat /\ i < j /\ SLICES \in Nat /\ cur + need \in Nat /\ cur + need \in Int
      /\ \A k \in Entries : k \in Nat
  BY SizesAssumption DEF Slices, Entries
<1>2. /\ d \in [Entries -> SliceRecord] /\ e \in [Entries -> SliceRecord]
      /\ \A k \in Entries : k # j => e[k] = d[k]
  BY DEF Differ
<1>3. e[i] \in SliceRecord /\ e[i] = d[i]
  BY <1>1, <1>2
<1>4. /\ x \in SliceRecord /\ x.slice_count = cur + need /\ x.block_size = cur + need /\ x.size = cur + need
      /\ x.slice_offset = e[i].slice_offset
  BY ZenonT(30), <1>1, <1>3 DEF SliceRecord
<1>5. h = [k \in Entries |-> IF k = i THEN x ELSE IF k \in Mask(j, need) THEN Inner(k - i) ELSE e[k]]
  BY DEF GrowEntries
<1>6. \A k \in Mask(j, need) : k \in Entries /\ k # i /\ j <= k /\ k < j + need
  BY <1>1 DEF Mask, Slices, Entries
<1>7. \A k \in Entries : Inner(k - i) \in SliceRecord /\ Inner(k - i).slice_offset = k - i
  <2> SUFFICES ASSUME NEW k \in Entries PROVE Inner(k - i) \in SliceRecord /\ Inner(k - i).slice_offset = k - i
    OBVIOUS
  <2>1. k - i \in Int
    BY <1>1
  <2> QED
    BY <2>1 DEF Inner, SliceRecord
<1> HIDE DEF x, h, j
<1>8. h \in [Entries -> SliceRecord]
  BY <1>2, <1>4, <1>5, <1>7
<1>9. h[i] = x
  BY <1>1, <1>5
<1>10. \A k \in Mask(j, need) : h[k].slice_offset = k - i
  BY <1>5, <1>6, <1>7
<1>11. \A k \in Entries : k # i /\ (k < j \/ k >= j + need) => h[k] = d[k]
  <2> SUFFICES ASSUME NEW k \in Entries, k # i, k < j \/ k >= j + need PROVE h[k] = d[k]
    OBVIOUS
  <2>1. k \notin Mask(j, need) /\ k # j
    BY <1>1, <1>6
  <2> QED
    BY <1>2, <1>5, <2>1
<1> QED
  BY <1>3, <1>4, <1>8, <1>9, <1>10, <1>11 DEF ExtendedAt, h, j

\* The page has one block, and it is as long as the page.
OnlyOne(B, s, i, len) == \A b \in B : b.seg = s => (b \in blocks /\ b.page # i) \/ b = NewBlock(s, i, len)
CanEnd(w, y, z, c, t, s, T, U, P, i, cur, need, B) ==
  /\ Ready(w, y, t, T, U, P, i + cur, need) /\ w.s = s /\ t \in Threads
  /\ Like(y, z, i + cur) /\ i \in P /\ i # 0 /\ y.g.slices[i].slice_count = cur
  /\ cur \in Nat \ {0} /\ need \in Nat \ {0}
  /\ Committed(z.g, InUse(y.g.slices, P), Mask(i + cur, need), TRUE, c)
  /\ OnlyOne(B, s, i, cur + need)
LEMMA ExtendEnd ==
  ASSUME NEW w, NEW y, NEW z, NEW c, NEW t, NEW s, NEW T, NEW U, NEW P, NEW i, NEW cur, NEW need, NEW B,
         CanEnd(w, y, z, c, t, s, T, U, P, i, cur, need, B)
  PROVE  EndsWith(Extended(z, c, i, cur, need), s, t, tld[t].spans, B)
<1> DEFINE q0 == tld[t].spans
           j == i + cur
           d == y.g.slices
           e == c.g.slices
           h == GrowEntries(e, i, cur, need)
           g == [c.g EXCEPT !.slices = h]
           v == SetSegment(z, g)
           V == U \ {j}
           R == Before(y.g, U, P, SLICES) \ {j}
<1>1. /\ Ready(w, y, t, T, U, P, j, need) /\ w.s = s /\ t \in Threads
      /\ Like(y, z, j) /\ i \in P /\ i # 0 /\ d[i].slice_count = cur
      /\ cur \in Nat \ {0} /\ need \in Nat \ {0}
      /\ Committed(z.g, InUse(d, P), Mask(j, need), TRUE, c)
      /\ OnlyOne(B, s, i, cur + need)
  BY ZenonT(30) DEF CanEnd
<1>2. /\ SoundBut(y, q0, U, P, SLICES, j) /\ InQueues(y.g) /\ j \in U /\ j \notin P /\ y.s = s
      /\ d[j].slice_count = need
      /\ y.g.abandoned = Cardinality(y.g.orphans) /\ y.g.dont_free = FALSE /\ y.g.thread_id = t
      /\ (y.g.used = y.g.abandoned => y.g.used = 0)
  BY <1>1 DEF Ready
<1>3. /\ WorldOK(y, q0, U, P, R) /\ (\A k \in U \ P : k # j => d[k].block_size = 0) /\ BlocksOK(d, P, s)
      /\ y.g.used = Cardinality(P \ {0}) /\ y.g.orphans \subseteq P \ {0}
  BY <1>2 DEF SoundBut
<1>4. /\ TilesOK(d, "NORMAL", U, P) /\ QueueOK(y.tld.spans, q0, s, Queued(d, R)) /\ MaskOK(y.g, InUse(d, P))
      /\ y.g.dirty = {} /\ R \subseteq U \ P
  <2>1. y.g.kind = "NORMAL"
    BY <1>2 DEF InQueues
  <2> HIDE DEF R
  <2> QED
    BY <1>2, <1>3, <2>1 DEF WorldOK
<1>5. /\ d \in [Entries -> SliceRecord] /\ P \subseteq U /\ i \in U /\ i \in Slices /\ i \in Nat
      /\ \A k \in U : k \in Entries /\ k \in Nat
  BY <1>1, <1>3, WorldTypes
<1>6. /\ z \in Worlds /\ z.s = s /\ z.tld = y.tld /\ Same(y.g, z.g) /\ MasksEqual(y.g, z.g)
      /\ \A k \in Entries : k # j => z.g.slices[k] = d[k]
  BY <1>1, <1>2 DEF Like
<1>7. /\ c.g \in SegRec /\ Same(z.g, c.g) /\ e = z.g.slices /\ MaskOK(c.g, InUse(d, P) \cup Mask(j, need))
  BY <1>1 DEF Committed, Same
<1>8. Differ(d, e, j)
  <2>1. e \in [Entries -> SliceRecord]
    BY <1>7 DEF SegRec
  <2>2. \A k \in Entries : k # j => e[k] = d[k]
    BY <1>6, <1>7
  <2> HIDE DEF d, e, j
  <2> QED
    BY <1>5, <2>1, <2>2 DEF Differ
<1>9. ExtendedAt(d, h, i, cur, need)
  BY <1>1, <1>5, <1>8, GrowEntriesOK
<1> HIDE DEF h
<1>10. CanGrow(d, h, U, P, i, cur, need)
  BY <1>1, <1>2, <1>4, <1>9 DEF CanGrow
<1>11. Grown(d, h, U, P, i, cur, need)
  BY <1>10, GrowOK
<1>12. /\ TilesOK(h, "NORMAL", V, P) /\ InUse(h, P) \subseteq InUse(d, P) \cup Mask(j, need)
       /\ \A k \in U : k # i /\ k # j => h[k] = d[k]
  BY <1>11 DEF Grown
<1>13. h \in [Entries -> SliceRecord] /\ h[i].slice_count = cur + need /\ h[i].size = cur + need
  BY <1>9 DEF ExtendedAt
<1>14. g \in SegRec /\ g.slices = h /\ Same(c.g, g) /\ MasksEqual(c.g, g)
  <2>1. g \in SegRec
    BY <1>7, <1>13 DEF SegRec
  <2> QED
    BY ZenonT(30), <1>7, <2>1 DEF SegRec, Same, MasksEqual
<1>15. Extended(z, c, i, cur, need) = v
  BY DEF Extended, SetSegment, h
<1> HIDE DEF g, d, e, j, q0
<1>16. /\ g.kind = "NORMAL" /\ g.thread_id = t /\ g.used = y.g.used /\ g.abandoned = y.g.abandoned
       /\ g.dont_free = FALSE /\ g.orphans = y.g.orphans /\ g.dirty = {}
  <2>1. Same(y.g, g) /\ y.g.kind = "NORMAL"
    BY <1>2, <1>6, <1>7, <1>14 DEF Same, InQueues
  <2> QED
    BY <1>2, <1>4, <2>1 DEF Same
<1>17. MaskOK(g, InUse(h, P))
  <2>1. MaskOK(c.g, InUse(h, P))
    BY <1>7, <1>12, MaskLess
  <2> QED
    BY <1>14, <2>1, MasksEqualOK
<1>18. Clean(h, V, P)
  <2> SUFFICES ASSUME NEW k \in U, k # j, k \notin P PROVE h[k].block_size = 0
    BY DEF Clean
  <2>1. k # i
    BY <1>1
  <2> QED
    BY <1>3, <1>12, <2>1
<1>19. \A k \in P : k # i => h[k] = d[k]
  BY <1>2, <1>5, <1>12
<1>20. BlocksIn(B, h, P, s)
  <2>1. (\A k \in P \ {0} : d[k].size \in Nat \ {0}) /\ \A b \in blocks : b.seg = s => BlockIn(d, P, b)
    BY <1>3 DEF BlocksOK, BlocksIn
  <2>2. \A k \in P \ {0} : h[k].size \in Nat \ {0}
    BY <1>1, <1>13, <1>19, <2>1
  <2>3. ASSUME NEW b \in B, b.seg = s PROVE BlockIn(h, P, b)
    <3>1. (b \in blocks /\ b.page # i) \/ b = NewBlock(s, i, cur + need)
      BY <1>1, <2>3 DEF OnlyOne
    <3>2. ASSUME b \in blocks, b.page # i PROVE BlockIn(h, P, b)
      <4>1. BlockIn(d, P, b)
        BY <2>1, <2>3, <3>2
      <4>2. b.page \in P
        BY <4>1 DEF BlockIn
      <4>3. h[b.page] = d[b.page]
        BY <1>19, <3>2, <4>2
      <4> QED
        BY <4>1, <4>3 DEF BlockIn
    <3>3. ASSUME b = NewBlock(s, i, cur + need) PROVE BlockIn(h, P, b)
      <4>1. b.page = i /\ b.start = i /\ b.len = cur + need
        BY <3>3 DEF NewBlock
      <4>2. i = i + 0 * (cur + need) /\ 0 \in Nat /\ i + (cur + need) <= i + (cur + need)
        BY <1>1, <1>5
      <4>3. i \in P \ {0}
        BY <1>1
      <4> QED
        BY <1>13, <4>1, <4>2, <4>3 DEF BlockIn
    <3> QED
      BY <3>1, <3>2, <3>3
  <2> QED
    BY <2>2, <2>3 DEF BlocksIn
<1>21. t # NoThread
  BY <1>1, OptionsAssumption
<1>22. Held(g, s, V, P, B)
  <2>1. g.used = Cardinality(P \ {0}) /\ g.orphans \subseteq P \ {0} /\ g.abandoned = Cardinality(g.orphans)
    BY <1>2, <1>3, <1>16
  <2>2. g.thread_id # NoThread /\ ~(g.used = g.abandoned /\ g.used > 0)
    BY <1>2, <1>16, <1>21
  <2>3. TilesOK(h, g.kind, V, P) /\ g.kind \in {"NORMAL", "HUGE"}
    BY <1>12, <1>16
  <2> HIDE DEF V
  <2> QED
    BY <1>14, <1>16, <1>17, <1>18, <1>20, <2>1, <2>2, <2>3 DEF Held
<1>23. QueueOK(y.tld.spans, q0, s, QueuedOf(g, t))
  <2>1. QueuedOf(g, t) = Queued(h, Before(g, V, P, SLICES))
    <3>1. QueuedOf(g, t) = Queued(g.slices, Before(g, V, P, SLICES))
      BY <1>1, <1>16, <1>22, HeldQueued
    <3> QED
      BY <1>14, <3>1
  <2>2. Before(g, V, P, SLICES) = R
    <3>1. InQueues(g)
      BY <1>16, <1>21 DEF InQueues
    <3> QED
      BY <1>2, <3>1 DEF Before
  <2>3. Queued(h, R) = Queued(d, R)
    <3>1. j \notin R
      OBVIOUS
    <3> HIDE DEF R
    <3>2. \A k \in R : h[k] = d[k]
      BY <1>1, <1>4, <1>12, <3>1
    <3> QED
      BY <3>2, QueuedSame
  <2> QED
    BY <1>4, <2>1, <2>2, <2>3
<1> HIDE DEF v
<1>24. v \in Worlds /\ v.s = s /\ v.tld = y.tld /\ v.g = g
  BY <1>6, <1>14, SetSegmentIs DEF v
<1>25. EndsWith(v, s, t, q0, B)
  BY <1>16, <1>22, <1>23, <1>24 DEF EndsWith, SegmentIs
<1> QED
  BY <1>15, <1>25 DEF q0

\* A block as long as its page is the only one in it.
LEMMA BlockAlone ==
  ASSUME NEW f, NEW P, NEW s, NEW B \in SUBSET Blocks, BlocksIn(B, f, P, s), NEW b \in B, b.seg = s,
         f[b.page].slice_count \in Nat, f[b.page].size >= f[b.page].slice_count
  PROVE  /\ b.page \in P \ {0} /\ f[b.page].slice_count = b.len
         /\ \A c \in B : c.seg = s /\ c.page = b.page => c = NewBlock(s, b.page, b.len)
<1> DEFINE i == b.page
           n == f[i].slice_count
           z == f[i].size
<1>1. z \in Nat \ {0} /\ i \in P \ {0} /\ b.len = z
  <2>1. BlockIn(f, P, b)
    BY DEF BlocksIn
  <2> QED
    BY <2>1 DEF BlockIn, BlocksIn
<1>2. n \in Nat /\ z >= n
  OBVIOUS
<1> HIDE DEF n, z
<1>3. ASSUME NEW c \in B, c.seg = s, c.page = i PROVE c.len = z /\ c.start = i /\ z <= n
  <2>1. BlockIn(f, P, c)
    BY <1>3 DEF BlocksIn
  <2>2. c.len = z /\ c.start + c.len <= i + n /\ \E k \in Nat : c.start = i + k * z
    BY <1>3, <2>1 DEF BlockIn, n, z
  <2>3. PICK k \in Nat : c.start = i + k * z
    BY <2>2
  <2>4. i \in Nat
    <3>1. b \in Blocks
      OBVIOUS
    <3> QED
      BY <3>1, SizesAssumption DEF Blocks, Slices
  <2>5. PICK m : m = k * z
    OBVIOUS
  <2>6. m \in Nat
    BY <1>1, <2>5
  <2>7. c.start = i + m
    BY <2>3, <2>5
  <2>8. i + m + z <= i + n
    BY <2>2, <2>7
  <2>9. m = 0
    BY <1>1, <1>2, <2>4, <2>6, <2>8
  <2> QED
    BY <1>1, <1>2, <2>2, <2>4, <2>7, <2>8, <2>9
<1>4. n = z
  BY <1>1, <1>2, <1>3
<1>5. ASSUME NEW c \in B, c.seg = s, c.page = i PROVE c = NewBlock(s, i, b.len)
  <2>1. c \in Blocks
    OBVIOUS
  <2>2. c = [seg |-> c.seg, page |-> c.page, start |-> c.start, len |-> c.len]
    BY <2>1 DEF Blocks
  <2>3. c.len = b.len /\ c.start = i
    BY <1>1, <1>3, <1>5
  <2> QED
    BY <1>5, <2>2, <2>3 DEF NewBlock
<1> QED
  BY <1>1, <1>4, <1>5 DEF n

LEMMA ReallocInPlaceFits ==
  ASSUME Fits(segment, tld, blocks), NEW t \in Threads, NEW b \in blocks, NEW len \in 1 .. LARGE,
         ReallocInPlace(t, b, len), "extend" \notin CommitFails, ExtendPages \subseteq {"single"}
  PROVE  Fits(segment', tld', blocks')
<1> DEFINE s == b.seg
           i == b.page
           f == segment[s].slices
           cur == f[i].slice_count
           need == len - cur
           j == i + cur
           w == World(t, s)
           q0 == tld[t].spans
           x == QueueDelete(w, j)
           y == SliceSplit(x, j, need)
           z == LeftOver(x, j, need)
           c == EnsureCommitted(z.g, Mask(j, need), TRUE)
           B == (blocks \ {b}) \cup {[b EXCEPT !.len = len]}
<1>1. /\ Owned(t, s) /\ ~(f[i].size < cur) /\ need > 0 /\ CanExtend(segment[s], i, need)
      /\ LET r == TryExtendSpan(w, i, need, TRUE)
         IN Done(r.w, t) /\ blocks' = IF r.ok THEN B ELSE blocks
  <2>1. Answers("extend") = {TRUE}
    BY DEF Answers
  <2>2. "several" \notin ExtendPages
    OBVIOUS
  <2> QED
    BY ZenonT(30), <2>1, <2>2 DEF ReallocInPlace
<1>2. blocks \subseteq Blocks /\ b \in Blocks /\ s \in Addresses
  BY DEF Fits, Blocks
<1>3. PICK T, P : OwnStart(w, t, s, T, P)
  BY ZenonT(30), <1>1, <1>2, OwnedStart
<1>4. w.g = segment[s] /\ w.s = s /\ w.tld = tld[t] /\ Held(w.g, s, T, P, blocks) /\ w.g.thread_id = t
  BY <1>3 DEF OwnStart, Owns
<1> HIDE DEF w
<1>5. /\ TilesOK(f, w.g.kind, T, P) /\ Clean(f, T, P) /\ BlocksIn(blocks, f, P, s) /\ w.g.kind \in {"NORMAL", "HUGE"}
  BY <1>4 DEF Held
<1>6. /\ Tiled(f, T) /\ P \subseteq T /\ 0 \in P /\ SLICES \in Nat
      /\ \A k \in T : k \in Nat /\ k < SLICES /\ k \in Slices /\ f[k].slice_count \in Nat \ {0}
  BY SMTT(30), <1>5, SizesAssumption DEF TilesOK, Tiled, Slices
<1>7. i \in P \ {0}
  <2>1. BlockIn(f, P, b)
    BY <1>5 DEF BlocksIn
  <2> QED
    BY <2>1 DEF BlockIn
<1>8. f[i].size >= cur /\ f[i].size \in Nat /\ cur \in Nat \ {0} /\ i \in Nat /\ len \in Nat /\ need \in Nat \ {0}
  <2>1. f[i].size \in Nat
    BY <1>5, <1>7 DEF BlocksIn
  <2>2. len \in Nat
    BY SizesAssumption
  <2>3. cur \in Nat \ {0} /\ i \in Nat
    BY <1>6, <1>7
  <2>4. need > 0 /\ ~(f[i].size < cur)
    BY ZenonT(30), <1>1
  <2> HIDE DEF cur, f, i
  <2> QED
    BY <2>1, <2>2, <2>3, <2>4
<1>9. j \in T /\ j + need <= SLICES /\ f[j].block_size = 0 /\ f[j].slice_count >= need
  <2>1. j + need <= SLICES /\ f[j].block_size = 0 /\ f[j].slice_count >= need
    BY ZenonT(30), <1>1 DEF CanExtend
  <2>2. j \in T \/ j >= SLICES
    BY <1>6, <1>7 DEF Tiled
  <2> HIDE DEF need, cur, f, i
  <2>3. j \in Nat /\ need \in Nat \ {0} /\ SLICES \in Nat
    BY <1>6, <1>8
  <2> HIDE DEF j
  <2>4. j < SLICES
    BY <2>1, <2>3
  <2> QED
    BY <2>1, <2>2, <2>3, <2>4
<1>10. j \notin P
  BY ZenonT(30), <1>5, <1>9 DEF TilesOK, SpanOK
<1>11. w.g.kind = "NORMAL"
  <2>1. ASSUME w.g.kind = "HUGE" PROVE FALSE
    <3>1. i \in {0, INFO} /\ j \in {0, INFO}
      BY ZenonT(30), <1>5, <1>6, <1>7, <1>9, <2>1 DEF TilesOK, SpanOK
    <3> QED
      BY SMTT(30), <1>6, <1>7, <1>8, <3>1, InfoFits
  <2> QED
    BY <1>5, <2>1
<1>12. CanReady(w, t, s, T, P, j, need)
  <2>1. need <= w.g.slices[j].slice_count
    BY <1>4, <1>6, <1>8, <1>9
  <2> QED
    BY ZenonT(30), <1>3, <1>8, <1>9, <1>10, <1>11, <2>1 DEF CanReady
<1> HIDE DEF j, need
<1>13. PICK U : Ready(w, y, t, T, U, P, j, need)
  BY <1>12, ReadyOK
<1>14. x.g.slices[j].slice_count = f[j].slice_count /\ z \in Worlds
  BY <1>4, <1>13 DEF Ready
<1>15. Like(y, z, j)
  <2>1. j \in Slices /\ need \in Nat \ {0} /\ x.g.slices[j].slice_count \in Nat /\ LeftOver(x, j, need) \in Worlds
    BY <1>6, <1>8, <1>9, <1>14
  <2> HIDE DEF x
  <2> QED
    BY <2>1, LikeOK
<1>16. z = IF f[j].slice_count - need > 0 THEN SpanFree(x, j + need, f[j].slice_count - need, FALSE) ELSE x
  <2>1. (need < f[j].slice_count) <=> (f[j].slice_count - need > 0)
    BY <1>6, <1>8, <1>9
  <2> QED
    BY ZenonT(30), <1>14, <2>1 DEF LeftOver
<1> HIDE DEF x
<1>17. TryExtendSpan(w, i, need, TRUE) =
         IF c.ok THEN [ok |-> TRUE, w |-> Extended(z, c, i, cur, need)] ELSE [ok |-> FALSE, w |-> z]
  BY ZenonT(40), <1>4, <1>16 DEF TryExtendSpan, Extended, GrowEntries, j, x
<1> HIDE DEF y, z
<1>18. /\ SoundBut(y, q0, U, P, SLICES, j) /\ T \subseteq U /\ \A k \in T : k # j => y.g.slices[k] = w.g.slices[k]
  BY <1>13 DEF Ready
<1>19. y.g.slices[i].slice_count = cur /\ i \in T
  BY <1>4, <1>6, <1>7, <1>10, <1>18
<1>20. z.g \in SegRec /\ MaskOK(z.g, InUse(y.g.slices, P)) /\ Mask(j, need) \in SUBSET Slices
  <2>1. z \in Worlds /\ MasksEqual(y.g, z.g)
    BY <1>15 DEF Like
  <2>2. MaskOK(y.g, InUse(y.g.slices, P))
    <3>1. WorldOK(y, q0, U, P, Before(y.g, U, P, SLICES) \ {j})
      BY <1>18 DEF SoundBut
    <3> QED
      BY <3>1 DEF WorldOK
  <2>3. z.g \in SegRec
    BY <2>1, WorldParts
  <2>4. MaskOK(z.g, InUse(y.g.slices, P))
    BY <2>1, <2>2, MasksEqualOK
  <2> QED
    BY <2>3, <2>4 DEF Mask
<1>21. Committed(z.g, InUse(y.g.slices, P), Mask(j, need), TRUE, c)
  BY ZenonT(30), <1>20, EnsureCommittedOK
<1>22. c.ok
  BY ZenonT(30), <1>21 DEF Committed
<1> HIDE DEF c
<1> DEFINE v == Extended(z, c, i, cur, need)
<1>35. TryExtendSpan(w, i, need, TRUE) = [ok |-> TRUE, w |-> v]
  BY ZenonT(30), <1>17, <1>22
<1> HIDE DEF v
<1>36. TryExtendSpan(w, i, need, TRUE).ok /\ TryExtendSpan(w, i, need, TRUE).w = v
  <2>1. PICK r : r = TryExtendSpan(w, i, need, TRUE)
    BY ZenonT(30)
  <2>2. r = [ok |-> TRUE, w |-> v]
    BY ZenonT(30), <1>35, <2>1
  <2>3. r.ok
    BY <2>2
  <2>4. r.w = v
    BY <2>2
  <2> QED
    BY ZenonT(30), <2>1, <2>3, <2>4
<1>23. Done(v, t) /\ blocks' = B
  BY ZenonT(30), <1>1, <1>36
<1>24. cur = b.len /\ \A k \in blocks : k.seg = s /\ k.page = i => k = NewBlock(s, i, b.len)
  BY SMTT(30), <1>2, <1>5, <1>8, BlockAlone
<1>25. cur + need = len
  BY <1>8 DEF need
<1>26. [b EXCEPT !.len = len] = NewBlock(s, i, len)
  <2>1. b = NewBlock(s, i, b.len)
    BY <1>24
  <2>2. [NewBlock(s, i, b.len) EXCEPT !.len = len] = NewBlock(s, i, len)
    BY DEF NewBlock
  <2> QED
    BY <2>1, <2>2
<1>27. B = (blocks \ {b}) \cup {NewBlock(s, i, len)}
  BY <1>26
<1> HIDE DEF B, v
<1>28. OnlyOne(B, s, i, cur + need)
  <2> SUFFICES ASSUME NEW k \in B, k.seg = s PROVE (k \in blocks /\ k.page # i) \/ k = NewBlock(s, i, len)
    BY <1>25 DEF OnlyOne
  <2>1. ASSUME k \in blocks, k # b PROVE k.page # i
    <3>1. b = NewBlock(s, i, b.len)
      BY <1>24
    <3> QED
      BY <1>24, <2>1, <3>1
  <2> QED
    BY <1>27, <2>1
<1>29. NewBlock(s, i, len) \in Blocks /\ NewBlock(s, i, len).seg = s
  <2>1. i \in Slices
    BY <1>6, <1>7
  <2>2. i \in Nat /\ len \in Nat \ {0}
    BY <1>8, SizesAssumption
  <2> HIDE DEF s, i
  <2> QED
    BY <1>2, <2>1, <2>2 DEF NewBlock, Blocks
<1>30. B \subseteq Blocks /\ \A k \in B : k.seg # s => k \in blocks
  BY <1>2, <1>27, <1>29
<1>31. CanEnd(w, y, z, c, t, s, T, U, P, i, cur, need, B)
  BY ZenonT(30), <1>4, <1>7, <1>8, <1>13, <1>15, <1>19, <1>21, <1>28 DEF CanEnd, j
<1>32. EndsWith(v, s, t, tld[t].spans, B)
  BY <1>31, ExtendEnd DEF v
<1>33. PICK u : u = v
  OBVIOUS
<1>34. EndsWith(u, s, t, tld[t].spans, blocks') /\ Done(u, t) /\ blocks' \subseteq Blocks
       /\ (\A k \in blocks' : k.seg # s => k \in blocks) /\ segment[s].thread_id \in {t, NoThread}
  BY <1>4, <1>23, <1>30, <1>32, <1>33
<1> QED
  BY <1>2, <1>34, DoneKeeps
-----------------------------------------------------------------------------
(* The invariant.                                                           *)

Inv == Fits(segment, tld, blocks) /\ RequestsOK(request)

\* What _pa_segment_try_extend_span and its caller do is right if the commit of the
\* new slices does not fail and the page has no other block.
ExtendsSafely == "extend" \notin CommitFails /\ ExtendPages \subseteq {"single"}

LEMMA EmptyQueues ==
  ASSUME NEW q, q = [b \in Bins |-> <<>>], NEW s
  PROVE  QueueOK(q, q, s, {})
<1>1. q \in [Bins -> Seq(Span)] /\ \A b \in Bins : q[b] = <<>>
  OBVIOUS
<1>2. \A b \in Bins : Once(q[b])
  BY <1>1 DEF Once
<1>3. Range(<<>>) = {}
  BY DEF Range
<1> QED
  BY <1>1, <1>2, <1>3 DEF QueueOK

LEMMA InitFits ==
  ASSUME Init
  PROVE  Inv
<1> DEFINE q == [b \in Bins |-> <<>>]
<1>1. /\ segment = [s \in Addresses |-> NoSegment] /\ blocks = {}
      /\ tld = [t \in Threads |-> [spans |-> q, count |-> 0, reclaim_count |-> 0]]
      /\ request = [t \in Threads |-> NoRequest]
  BY DEF Init
<1>2. \A s \in Addresses : QueueOK(q, q, s, {})
  BY EmptyQueues
<1>3. q \in [Bins -> Seq(Span)]
  OBVIOUS
<1> HIDE DEF q
<1>4. segment \in [Addresses -> SegRec] /\ \A s \in Addresses : segment[s] = NoSegment
  BY <1>1, NoSegmentIs
<1>5. \A s \in Addresses : SegmentIs(segment[s], s, blocks)
  BY <1>1, <1>4 DEF SegmentIs
<1>6. \A s \in Addresses, t \in Threads : QueuedOf(segment[s], t) = {}
  BY <1>4, NoSegmentHas DEF QueuedOf
<1>7. \A t \in Threads : tld[t] \in TldRec /\ tld[t].spans = q
  BY <1>1, <1>3 DEF TldRec
<1>8. \A t \in Threads : QueuesOK(segment, tld[t], t)
  BY ZenonT(30), <1>2, <1>6, <1>7 DEF QueuesOK
<1>9. tld \in [Threads -> TldRec]
  BY <1>1, <1>7
<1>10. NoRequest \in Requests /\ NoRequest.pc = "idle"
  BY DEF NoRequest, Requests
<1>11. RequestsOK(request)
  BY <1>1, <1>10 DEF RequestsOK
<1> QED
  BY <1>1, <1>4, <1>5, <1>8, <1>9, <1>11 DEF Inv, Fits

LEMMA RequestSet ==
  ASSUME RequestsOK(request), NEW t \in Threads, NEW r, r = NoRequest \/ (r \in Requests /\ r.page \in PageSizes),
         request' = [request EXCEPT ![t] = r]
  PROVE  RequestsOK(request')
<1>1. NoRequest \in Requests /\ NoRequest.pc = "idle"
  BY DEF NoRequest, Requests
<1> QED
  BY <1>1 DEF RequestsOK

LEMMA RequestFor ==
  ASSUME NEW page \in PageSizes, NEW pc \in {"find", "grow"}
  PROVE  [pc |-> pc, page |-> page] \in Requests /\ [pc |-> pc, page |-> page].page \in PageSizes
BY DEF Requests

LEMMA FindRequests ==
  ASSUME RequestsOK(request), NEW t \in Threads, NEW page \in PageSizes, FindAndAllocate(t, page)
  PROVE  RequestsOK(request')
<1>1. PICK r : /\ r = NoRequest \/ r = [pc |-> "grow", page |-> page]
               /\ request' = [request EXCEPT ![t] = r]
  BY ZenonT(30) DEF FindAndAllocate
<1> QED
  BY <1>1, RequestFor, RequestSet

LEMMA ReclaimRequests ==
  ASSUME RequestsOK(request), NEW t \in Threads, NEW s, NEW page \in PageSizes, TryReclaim(t, s, page)
  PROVE  RequestsOK(request')
<1>1. PICK r : /\ r = NoRequest \/ r = [pc |-> "grow", page |-> page] \/ r = [pc |-> "find", page |-> page]
               /\ request' = [request EXCEPT ![t] = r]
  BY ZenonT(30) DEF TryReclaim
<1> QED
  BY ZenonT(30), <1>1, RequestFor, RequestSet

LEMMA AllocRequests ==
  ASSUME RequestsOK(request), NEW t \in Threads, NEW page \in PageSizes,
         SegmentAlloc(t, page) \/ SegmentAllocFails(t, page)
  PROVE  RequestsOK(request')
<1>1. PICK r : /\ r = NoRequest \/ r = [pc |-> "find", page |-> page]
               /\ request' = [request EXCEPT ![t] = r]
  BY ZenonT(30) DEF SegmentAlloc, SegmentAllocFails
<1> QED
  BY ZenonT(30), <1>1, RequestFor, RequestSet

\* What a step of Next is.
Step(t) ==
  \/ \E page \in PageSizes : PageAlloc(t, page) \/ SegmentAlloc(t, page) \/ SegmentAllocFails(t, page)
  \/ \E page \in PageSizes, s \in Addresses : TryReclaim(t, s, page)
  \/ PageAllocAgain(t)
  \/ HugePageAlloc(t) \/ BlockAlloc(t)
  \/ \E b \in blocks, len \in 1 .. LARGE : ReallocInPlace(t, b, len)
  \/ \E s \in Addresses, i \in Slices : PageFree(t, s, i) \/ PageAbandon(t, s, i)
  \/ \E s \in Addresses : AttemptReclaim(t, s) \/ ForceAbandon(t, s)
  \/ \E s \in Addresses, force \in BOOLEAN : AbandonedCollect(t, s, force) \/ SegmentCollect(t, s, force)

LEMMA NextSteps ==
  ASSUME Next
  PROVE  \/ \E t \in Threads : Step(t)
         \/ \E b \in blocks : BlockFree(b)
         \/ \E s \in Addresses : TimePasses(s)
BY DEF Next, Step

Kept == Fits(segment', tld', blocks') /\ RequestsOK(request')

LEMMA StepKeeps ==
  ASSUME Inv, ExtendsSafely, NEW t \in Threads, Step(t)
  PROVE  Kept
<1>1. Fits(segment, tld, blocks) /\ RequestsOK(request)
  BY DEF Inv
<1>2. UNCHANGED request => RequestsOK(request')
  BY <1>1
<1>3. ASSUME NEW page \in PageSizes, PageAlloc(t, page)
      PROVE  Kept
  <2>1. FindAndAllocate(t, page)
    BY <1>3 DEF PageAlloc
  <2> QED
    BY <1>1, <2>1, FindAndAllocateFits, FindRequests DEF Kept
<1>4. ASSUME NEW page \in PageSizes, SegmentAlloc(t, page)
      PROVE  Kept
  BY <1>1, <1>4, SegmentAllocFits, AllocRequests DEF Kept
<1>5. ASSUME NEW page \in PageSizes, SegmentAllocFails(t, page)
      PROVE  Kept
  <2>1. UNCHANGED <<segment, tld, blocks>>
    BY <1>5 DEF SegmentAllocFails
  <2>2. Fits(segment', tld', blocks')
    BY <1>1, <2>1
  <2> QED
    BY <1>1, <1>5, <2>2, AllocRequests DEF Kept
<1>6. ASSUME NEW page \in PageSizes, NEW s \in Addresses, TryReclaim(t, s, page)
      PROVE  Kept
  BY <1>1, <1>6, TryReclaimFits, ReclaimRequests DEF Kept
<1>7. ASSUME PageAllocAgain(t)
      PROVE  Kept
  <2>1. request[t].pc = "find" /\ FindAndAllocate(t, request[t].page)
    BY <1>7 DEF PageAllocAgain
  <2>2. request[t].page \in PageSizes
    BY <1>1, <2>1 DEF RequestsOK
  <2>3. PICK page \in PageSizes : page = request[t].page
    BY <2>2
  <2>4. FindAndAllocate(t, page)
    BY <2>1, <2>3
  <2> QED
    BY <1>1, <2>4, FindAndAllocateFits, FindRequests DEF Kept
<1>8. ASSUME HugePageAlloc(t)
      PROVE  Kept
  <2>1. UNCHANGED request
    BY <1>8 DEF HugePageAlloc
  <2> QED
    BY <1>1, <1>2, <1>8, <2>1, HugePageAllocFits DEF Kept
<1>9. ASSUME BlockAlloc(t)
      PROVE  Kept
  <2>1. UNCHANGED request
    BY <1>9 DEF BlockAlloc
  <2> QED
    BY <1>1, <1>2, <1>9, <2>1, BlockAllocFits DEF Kept
<1>10. ASSUME NEW b \in blocks, NEW len \in 1 .. LARGE, ReallocInPlace(t, b, len)
       PROVE  Kept
  <2>1. UNCHANGED request
    BY ZenonT(30), <1>10 DEF ReallocInPlace
  <2>2. Fits(segment', tld', blocks')
    BY <1>1, <1>10, ReallocInPlaceFits DEF ExtendsSafely
  <2> QED
    BY <1>2, <2>1, <2>2 DEF Kept
<1>11. ASSUME NEW s \in Addresses, NEW i \in Slices, PageFree(t, s, i) \/ PageAbandon(t, s, i)
       PROVE  Kept
  <2>1. UNCHANGED request
    BY <1>11 DEF PageFree, PageAbandon
  <2> QED
    BY <1>1, <1>2, <1>11, <2>1, PageFreeFits, PageAbandonFits DEF Kept
<1>12. ASSUME NEW s \in Addresses, AttemptReclaim(t, s) \/ ForceAbandon(t, s)
       PROVE  Kept
  <2>1. UNCHANGED request
    BY <1>12 DEF AttemptReclaim, ForceAbandon
  <2> QED
    BY <1>1, <1>2, <1>12, <2>1, AttemptReclaimFits, ForceAbandonFits DEF Kept
<1>13. ASSUME NEW s \in Addresses, NEW force \in BOOLEAN, AbandonedCollect(t, s, force) \/ SegmentCollect(t, s, force)
       PROVE  Kept
  <2>1. UNCHANGED request
    BY <1>13 DEF AbandonedCollect, SegmentCollect
  <2> QED
    BY <1>1, <1>2, <1>13, <2>1, AbandonedCollectFits, SegmentCollectFits DEF Kept
<1> QED
  BY <1>3, <1>4, <1>5, <1>6, <1>7, <1>8, <1>9, <1>10, <1>11, <1>12, <1>13 DEF Step

LEMMA NextKeeps ==
  ASSUME Inv, ExtendsSafely, [Next]_vars
  PROVE  Inv'
<1>1. Fits(segment, tld, blocks) /\ RequestsOK(request)
  BY DEF Inv
<1>2. ASSUME NEW t \in Threads, Step(t) PROVE Inv'
  BY <1>2, StepKeeps DEF Kept, Inv
<1>3. ASSUME NEW b \in blocks, BlockFree(b) PROVE Inv'
  <2>1. UNCHANGED request
    BY <1>3 DEF BlockFree
  <2>2. Fits(segment', tld', blocks')
    BY <1>1, <1>3, BlockFreeFits
  <2> QED
    BY <1>1, <2>1, <2>2 DEF Inv
<1>4. ASSUME NEW s \in Addresses, TimePasses(s) PROVE Inv'
  <2>1. UNCHANGED request
    BY <1>4 DEF TimePasses
  <2>2. Fits(segment', tld', blocks')
    BY <1>1, <1>4, TimePassesFits
  <2> QED
    BY <1>1, <2>1, <2>2 DEF Inv
<1>5. CASE UNCHANGED vars
  BY <1>1, <1>5 DEF vars, Inv
<1> QED
  BY <1>2, <1>3, <1>4, <1>5, NextSteps

-----------------------------------------------------------------------------
(* The properties.                                                          *)

LEMMA AliveHeld ==
  ASSUME Inv, NEW s \in Live
  PROVE  s \in Addresses /\ segment[s].kind # "none" /\ \E T, P : Held(segment[s], s, T, P, blocks)
<1>1. s \in Addresses /\ segment[s].kind # "none"
  BY DEF Live
<1>2. SegmentIs(segment[s], s, blocks)
  BY <1>1 DEF Inv, Fits
<1> QED
  BY <1>1, <1>2, NoSegmentHas DEF SegmentIs

LEMMA TilesSound ==
  ASSUME NEW g, NEW s, NEW T, NEW P, NEW B, Held(g, s, T, P, B), NEW i \in T
  PROVE  LET n == g.slices[i].slice_count
         IN /\ n > 0 /\ g.slices[i].slice_offset = 0
            /\ g.kind = "NORMAL" => i + n <= SLICES
            /\ \A k \in Mask(i, n) :
                 \/ k = i + n - 1
                 \/ IsUsed(g, i) /\ k - i <= PA_MAX_SLICE_OFFSET_COUNT
                 => SliceFirst(g, k) = i
            /\ (i \in FreeSpans(g) /\ i + n < SLICES) => IsUsed(g, i + n)
<1> DEFINE n == g.slices[i].slice_count
<1>1. TilesOK(g.slices, g.kind, T, P) /\ Clean(g.slices, T, P)
  BY DEF Held
<1>2. /\ FreeSpans(g) = T \ P /\ (IsUsed(g, i) <=> i \in P)
      /\ \A k \in T : IsUsed(g, k) <=> k \in P
  BY HeldSpans
<1>3. /\ Tiled(g.slices, T) /\ P \subseteq T /\ SpanOK(g.slices, g.kind, i, i \in P)
      /\ \A j \in T : /\ SpanOK(g.slices, g.kind, j, j \in P)
                      /\ g.slices[i].block_size = 0 /\ j = i + g.slices[i].slice_count => g.slices[j].block_size # 0
  BY <1>1 DEF TilesOK
<1>4. n \in Nat \ {0} /\ i \in Slices /\ (i + n \in T \/ i + n >= SLICES)
  BY <1>3 DEF Tiled
<1>5. i \in P \/ g.slices[i].block_size = 0
  BY <1>1 DEF Clean
<1>6. ASSUME NEW k \in Mask(i, n), k = i + n - 1 \/ (IsUsed(g, i) /\ k - i <= PA_MAX_SLICE_OFFSET_COUNT)
      PROVE  SliceFirst(g, k) = i
  <2>1. k \in Slices /\ i <= k /\ k < i + n
    BY <1>4 DEF Mask, Slices
  <2> HIDE DEF n
  <2>2. k = i + n - 1 \/ (i \in P /\ k - i <= PA_MAX_SLICE_OFFSET_COUNT)
    BY <1>2, <1>6
  <2> QED
    BY <1>3, <1>5, <2>1, <2>2 DEF SpanOK, SliceFirst, n
<1>7. ASSUME i \in FreeSpans(g), i + n < SLICES PROVE IsUsed(g, i + n)
  <2>1. i + n \in T
    BY <1>4, <1>7, SizesAssumption DEF Slices
  <2>2. g.slices[i].block_size = 0
    BY <1>2, <1>5, <1>7
  <2>3. PICK j \in T : j = i + n
    BY <2>1
  <2>4. g.slices[j].block_size # 0
    BY <1>3, <2>2, <2>3
  <2>5. j \in P
    BY <1>1, <2>4 DEF Clean
  <2> QED
    BY <1>2, <2>3, <2>5
<1>8. n > 0 /\ g.slices[i].slice_offset = 0 /\ (g.kind = "NORMAL" => i + n <= SLICES)
  BY <1>3, <1>4 DEF SpanOK
<1> QED
  BY <1>6, <1>7, <1>8

LEMMA InvSpansTile ==
  ASSUME Inv
  PROVE  SpansTile
<1> SUFFICES ASSUME NEW s \in Live
             PROVE  LET g == segment[s]
                    IN /\ \A i \in Spans(g) :
                            LET n == g.slices[i].slice_count
                            IN /\ n > 0 /\ g.slices[i].slice_offset = 0
                               /\ g.kind = "NORMAL" => i + n <= SLICES
                               /\ \A k \in Mask(i, n) :
                                    \/ k = i + n - 1
                                    \/ IsUsed(g, i) /\ k - i <= PA_MAX_SLICE_OFFSET_COUNT
                                    => SliceFirst(g, k) = i
                               /\ (i \in FreeSpans(g) /\ i + n < SLICES) => IsUsed(g, i + n)
                       /\ g.used = Cardinality(Pages(g))
                       /\ g.abandoned = Cardinality(g.orphans) /\ g.orphans \subseteq Pages(g)
                       /\ IsAbandoned(g) => g.used = g.abandoned
                       /\ (g.used = g.abandoned /\ g.used > 0) => IsAbandoned(g)
  BY DEF SpansTile
<1>1. PICK T, P : Held(segment[s], s, T, P, blocks)
  BY AliveHeld
<1>2. PICK g : g = segment[s]
  OBVIOUS
<1>3. Held(g, s, T, P, blocks)
  BY <1>1, <1>2
<1>4. Spans(g) = T /\ Pages(g) = P \ {0}
  BY <1>3, HeldSpans
<1>5. /\ g.used = Cardinality(P \ {0}) /\ g.orphans \subseteq P \ {0}
      /\ g.abandoned = Cardinality(g.orphans)
      /\ g.thread_id = NoThread => g.used = g.abandoned
      /\ g.used = g.abandoned /\ g.used > 0 => g.thread_id = NoThread
      /\ g.kind # "none"
  BY <1>3 DEF Held
<1>6. /\ g.used = Cardinality(Pages(g)) /\ g.abandoned = Cardinality(g.orphans)
      /\ g.orphans \subseteq Pages(g)
      /\ IsAbandoned(g) => g.used = g.abandoned
      /\ (g.used = g.abandoned /\ g.used > 0) => IsAbandoned(g)
  BY <1>4, <1>5 DEF IsAbandoned
<1>7. ASSUME NEW i \in Spans(g)
      PROVE  LET n == g.slices[i].slice_count
             IN /\ n > 0 /\ g.slices[i].slice_offset = 0
                /\ g.kind = "NORMAL" => i + n <= SLICES
                /\ \A k \in Mask(i, n) :
                     \/ k = i + n - 1
                     \/ IsUsed(g, i) /\ k - i <= PA_MAX_SLICE_OFFSET_COUNT
                     => SliceFirst(g, k) = i
                /\ (i \in FreeSpans(g) /\ i + n < SLICES) => IsUsed(g, i + n)
  <2>1. i \in T
    BY <1>4, <1>7
  <2> QED
    BY <1>3, <2>1, TilesSound
<1> QED
  BY <1>2, <1>6, <1>7

\* The spans of segment s that belong in the queues of t.
LEMMA QueuedFree ==
  ASSUME Inv, NEW s \in Addresses, NEW t \in Threads
  PROVE  \A b, i : <<b, i>> \in QueuedOf(segment[s], t) <=>
           /\ segment[s].kind = "NORMAL" /\ segment[s].thread_id = t
           /\ i \in FreeSpans(segment[s]) /\ b = SliceBin(segment[s].slices[i].slice_count)
BY DEF QueuedOf, Queued

LEMMA FreeInBins ==
  ASSUME Inv, NEW s \in Addresses, segment[s].kind = "NORMAL", NEW i \in FreeSpans(segment[s])
  PROVE  i \in Slices /\ SliceBin(segment[s].slices[i].slice_count) \in Bins
<1> DEFINE g == segment[s]
<1>1. s \in Live
  BY DEF Live
<1>2. PICK T, P : Held(g, s, T, P, blocks)
  BY <1>1, AliveHeld
<1>3. i \in T
  BY <1>2, HeldSpans
<1>4. Tiled(g.slices, T) /\ SpanOK(g.slices, g.kind, i, i \in P)
  BY <1>2, <1>3 DEF Held, TilesOK
<1>5. i \in Slices /\ g.slices[i].slice_count \in Nat \ {0} /\ i + g.slices[i].slice_count <= SLICES
  BY <1>3, <1>4 DEF Tiled, SpanOK
<1>6. g.slices[i].slice_count \in 0 .. SLICES
  BY <1>5, SizesAssumption DEF Slices
<1> QED
  BY <1>5, <1>6, BinOf

LEMMA InvQueuesExact ==
  ASSUME Inv
  PROVE  QueuesExact
<1> SUFFICES ASSUME NEW t \in Threads
             PROVE  LET q == tld[t].spans
                        queued == UNION {{<<b, e>> : e \in Range(q[b])} : b \in Bins}
                        free == UNION {{<<SliceBin(segment[s].slices[i].slice_count), <<s, i>>>> : i \in FreeSpans(segment[s])} :
                                       s \in {a \in Addresses : segment[a].kind = "NORMAL" /\ segment[a].thread_id = t}}
                    IN /\ queued = free
                       /\ \A b \in Bins : IsInjective(q[b])
  BY DEF QueuesExact
<1> DEFINE q == tld[t].spans
           queued == UNION {{<<b, e>> : e \in Range(q[b])} : b \in Bins}
           free == UNION {{<<SliceBin(segment[s].slices[i].slice_count), <<s, i>>>> : i \in FreeSpans(segment[s])} :
                          s \in {a \in Addresses : segment[a].kind = "NORMAL" /\ segment[a].thread_id = t}}
<1>1. \A s \in Addresses : QueueOK(q, q, s, QueuedOf(segment[s], t))
  BY DEF Inv, Fits, QueuesOK
<1>2. q \in [Bins -> Seq(Span)]
  BY DEF Inv, Fits, QueuesOK, TldRec
<1> HIDE DEF q
<1>3. ASSUME NEW b \in Bins, NEW e \in Range(q[b])
      PROVE  <<b, e>> \in free
  <2>1. q[b] \in Seq(Span)
    BY <1>2
  <2>2. e \in Span
    BY <1>3, <2>1 DEF Range
  <2>3. PICK s \in Addresses, i \in Slices : e = <<s, i>>
    BY <2>2 DEF Span
  <2>4. e[1] = s /\ e[2] = i
    BY <2>3
  <2>5. <<b, i>> \in QueuedOf(segment[s], t)
    BY <1>1, <1>3, <2>2, <2>4 DEF QueueOK
  <2>6. /\ segment[s].kind = "NORMAL" /\ segment[s].thread_id = t
        /\ i \in FreeSpans(segment[s]) /\ b = SliceBin(segment[s].slices[i].slice_count)
    BY <2>5, QueuedFree
  <2> QED
    BY <2>3, <2>6
<1>4. ASSUME NEW s \in Addresses, segment[s].kind = "NORMAL", segment[s].thread_id = t,
             NEW i \in FreeSpans(segment[s])
      PROVE  <<SliceBin(segment[s].slices[i].slice_count), <<s, i>>>> \in queued
  <2>1. PICK b : b = SliceBin(segment[s].slices[i].slice_count)
    OBVIOUS
  <2>2. b \in Bins /\ i \in Slices
    BY <1>4, <2>1, FreeInBins
  <2>3. <<b, i>> \in QueuedOf(segment[s], t)
    BY <1>4, <2>1, QueuedFree
  <2>4. <<s, i>> \in Span /\ <<s, i>>[1] = s /\ <<s, i>>[2] = i
    BY <2>2 DEF Span
  <2>5. <<s, i>> \in Range(q[b])
    BY <1>1, <2>2, <2>3, <2>4 DEF QueueOK
  <2> QED
    BY <2>1, <2>2, <2>5
<1>5. queued = free
  <2>1. queued \subseteq free
    <3> HIDE DEF free
    <3> QED
      BY <1>3
  <2>2. free \subseteq queued
    <3> HIDE DEF queued
    <3> QED
      BY <1>4
  <2> HIDE DEF free, queued
  <2> QED
    BY <2>1, <2>2
<1>6. ASSUME NEW b \in Bins PROVE IsInjective(q[b])
  <2>1. q[b] \in Seq(Span) /\ DOMAIN q[b] = 1 .. Len(q[b])
    BY <1>2
  <2>2. \A k \in DOMAIN q[b] : q[b][k] \in Span
    BY <2>1
  <2>3. ASSUME NEW j \in DOMAIN q[b], NEW k \in DOMAIN q[b], q[b][j] = q[b][k]
        PROVE  j = k
    <3>1. PICK s \in Addresses : TRUE
      BY <2>2, <2>3 DEF Span
    <3>2. Once(q[b])
      BY <1>1, <3>1 DEF QueueOK
    <3> QED
      BY <2>1, <2>3, <3>2 DEF Once
  <2> QED
    BY <2>3 DEF IsInjective
<1> QED
  BY <1>5, <1>6 DEF q

LEMMA InvSpansSound ==
  ASSUME Inv
  PROVE  SpansSound
BY InvSpansTile, InvQueuesExact DEF SpansSound

\* The slices of pages and of the segment structure.
LEMMA InUseIs ==
  ASSUME NEW g, NEW s, NEW T, NEW P, NEW B, Held(g, s, T, P, B)
  PROVE  UNION {Mask(i, g.slices[i].slice_count) : i \in Spans(g) \ FreeSpans(g)} = InUse(g.slices, P)
<1>1. Spans(g) \ FreeSpans(g) = P
  BY HeldSpans
<1>2. Tiled(g.slices, T) /\ P \subseteq T
  BY DEF Held, TilesOK
<1>3. \A i \in P : i \in Slices /\ g.slices[i].slice_count \in Nat \ {0}
  BY <1>2 DEF Tiled
<1>4. ASSUME NEW i \in P, NEW k
      PROVE  k \in Mask(i, g.slices[i].slice_count) <=> k \in Slices /\ i <= k /\ k < i + g.slices[i].slice_count
  BY <1>3 DEF Mask, Slices
<1> QED
  BY <1>1, <1>4 DEF InUse

LEMMA InvCommitSafe ==
  ASSUME Inv
  PROVE  CommitSafe
<1> SUFFICES ASSUME NEW s \in Live
             PROVE  LET g == segment[s]
                        inuse == UNION {Mask(i, g.slices[i].slice_count) : i \in Spans(g) \ FreeSpans(g)}
                    IN /\ inuse \subseteq g.os
                       /\ g.commit_mask \subseteq g.os
                       /\ g.purge_mask \subseteq g.commit_mask \ inuse
                       /\ g.purge_mask # {} => g.purge_expire # UNSET
  BY DEF CommitSafe
<1>1. PICK T, P : Held(segment[s], s, T, P, blocks)
  BY AliveHeld
<1>2. MaskOK(segment[s], InUse(segment[s].slices, P))
  BY <1>1 DEF Held
<1>3. UNION {Mask(i, segment[s].slices[i].slice_count) : i \in Spans(segment[s]) \ FreeSpans(segment[s])}
        = InUse(segment[s].slices, P)
  BY <1>1, InUseIs
<1> QED
  BY <1>2, <1>3 DEF MaskOK

LEMMA InvZeroIsClean ==
  ASSUME Inv
  PROVE  ZeroIsClean
<1>1. ASSUME NEW s \in Live PROVE segment[s].dirty = {}
  <2>1. PICK T, P : Held(segment[s], s, T, P, blocks)
    BY AliveHeld
  <2> QED
    BY <2>1 DEF Held
<1> QED
  BY <1>1 DEF ZeroIsClean

\* The k-th and the m-th block of a size, for k before m.
LEMMA StepsApart ==
  ASSUME NEW z \in Nat, NEW k \in Nat, NEW m \in Nat, k < m
  PROVE  k * z + z <= m * z
<1>1. PICK d \in Nat : m = k + 1 + d
  <2>1. m - (k + 1) \in Nat /\ m = k + 1 + (m - (k + 1))
    OBVIOUS
  <2> QED
    BY <2>1
<1>2. (k + 1 + d) * z = k * z + z + d * z
  OBVIOUS
<1>3. d * z \in Nat /\ k * z \in Nat
  OBVIOUS
<1> QED
  BY <1>1, <1>2, <1>3

\* Two blocks of a page.
LEMMA SamePageApart ==
  ASSUME NEW f, NEW P, NEW b \in Blocks, NEW c \in Blocks, BlockIn(f, P, b), BlockIn(f, P, c),
         b # c, b.seg = c.seg, b.page = c.page
  PROVE  b.start + b.len <= c.start \/ c.start + c.len <= b.start
<1>1. PICK k \in Nat : b.start = b.page + k * b.len
  BY DEF BlockIn
<1>2. PICK m \in Nat : c.start = c.page + m * c.len
  BY DEF BlockIn
<1>3. b.len = c.len
  BY DEF BlockIn
<1>4. b.start # c.start
  BY <1>3 DEF Blocks
<1>5. b.page \in Nat /\ b.len \in Nat /\ b.start \in Nat /\ c.start \in Nat
  BY DEF Blocks, Slices
<1> DEFINE z == b.len
<1>6. b.start = b.page + k * z /\ c.start = b.page + m * z
  BY <1>1, <1>2, <1>3
<1>7. k # m
  BY <1>4, <1>6
<1>8. z \in Nat /\ k * z \in Nat /\ m * z \in Nat
  BY <1>5
<1>9. CASE k < m
  <2>1. k * z + z <= m * z
    BY <1>8, <1>9, StepsApart
  <2> QED
    BY <1>5, <1>6, <1>8, <2>1
<1>10. CASE m < k
  <2>1. m * z + z <= k * z
    BY <1>8, <1>10, StepsApart
  <2> QED
    BY <1>3, <1>5, <1>6, <1>8, <2>1
<1> QED
  BY <1>7, <1>9, <1>10

LEMMA PagesApart ==
  ASSUME NEW f, NEW T, NEW P, Tiled(f, T), P \subseteq T, NEW b \in Blocks, NEW c \in Blocks,
         BlockIn(f, P, b), BlockIn(f, P, c), b.page < c.page
  PROVE  b.start + b.len <= c.start
<1>1. b.page \in T /\ c.page \in T
  BY DEF BlockIn
<1>2. b.page + f[b.page].slice_count <= c.page
  BY <1>1, TiledApart
<1>3. PICK k \in Nat : c.start = c.page + k * c.len
  BY DEF BlockIn
<1>4. c.page \in Nat /\ c.len \in Nat /\ b.page \in Nat /\ b.start \in Nat /\ b.len \in Nat
  BY DEF Blocks, Slices
<1>5. k * c.len \in Nat
  BY <1>4
<1>6. b.start + b.len <= b.page + f[b.page].slice_count /\ f[b.page].slice_count \in Nat
  BY <1>1 DEF BlockIn, Tiled
<1> QED
  BY <1>2, <1>3, <1>4, <1>5, <1>6

LEMMA InvBlocksDisjoint ==
  ASSUME Inv
  PROVE  BlocksDisjoint
<1>1. blocks \subseteq Blocks
  BY DEF Inv, Fits
<1>2. ASSUME NEW b \in blocks
      PROVE  b.seg \in Live /\ \E T, P : Held(segment[b.seg], b.seg, T, P, blocks)
  <2>1. b.seg \in Addresses
    BY <1>1 DEF Blocks
  <2>2. SegmentIs(segment[b.seg], b.seg, blocks)
    BY <2>1 DEF Inv, Fits
  <2>3. PICK T, P : Held(segment[b.seg], b.seg, T, P, blocks)
    BY <2>2 DEF SegmentIs
  <2> QED
    BY ZenonT(30), <2>1, <2>3 DEF Live, Held
<1>3. ASSUME NEW b \in blocks
      PROVE  /\ segment[b.seg].kind # "none" /\ b.page \in Pages(segment[b.seg])
             /\ b.start + b.len <= b.page + segment[b.seg].slices[b.page].slice_count
  <2>1. PICK T, P : Held(segment[b.seg], b.seg, T, P, blocks)
    BY <1>2
  <2>2. Pages(segment[b.seg]) = P \ {0}
    BY <2>1, HeldSpans
  <2>3. BlockIn(segment[b.seg].slices, P, b)
    BY <2>1 DEF Held, BlocksIn
  <2>4. segment[b.seg].kind # "none"
    BY <1>2 DEF Live
  <2> QED
    BY <2>2, <2>3, <2>4 DEF BlockIn
<1>4. ASSUME NEW b \in blocks, NEW c \in blocks, b # c, b.seg = c.seg
      PROVE  b.start + b.len <= c.start \/ c.start + c.len <= b.start
  <2>1. PICK T, P : Held(segment[b.seg], b.seg, T, P, blocks)
    BY <1>2
  <2>2. PICK f : f = segment[b.seg].slices
    OBVIOUS
  <2>3. Tiled(f, T) /\ P \subseteq T
    BY <2>1, <2>2 DEF Held, TilesOK
  <2>4. BlockIn(f, P, b) /\ BlockIn(f, P, c)
    BY <1>4, <2>1, <2>2 DEF Held, BlocksIn
  <2>5. b \in Blocks /\ c \in Blocks
    BY <1>1
  <2>6. b.page \in Nat /\ c.page \in Nat
    BY <2>5 DEF Blocks, Slices
  <2>7. CASE b.page = c.page
    BY <1>4, <2>4, <2>5, <2>7, SamePageApart
  <2>8. CASE b.page < c.page
    BY <2>3, <2>4, <2>5, <2>8, PagesApart
  <2>9. CASE c.page < b.page
    BY <2>3, <2>4, <2>5, <2>9, PagesApart
  <2> QED
    BY <2>6, <2>7, <2>8, <2>9
<1> QED
  BY <1>3, <1>4 DEF BlocksDisjoint

-----------------------------------------------------------------------------
(* Theorems.  They are about programs whose realloc grows a page only where *)
(* that is right; the two ways in which it is not are runs of their own.    *)

\* The invariant: each segment is free memory without blocks, or is tiled by spans
\* that are pages or free, its masks cover its pages, its counters count them and its
\* blocks lie in them; the free spans are the ones in the queues of its thread; what a
\* thread asks for is a page (segment.c, every function that changes a slice or a mask).
THEOREM SegmentsInvariance == ExtendsSafely => (Spec => []Inv)
<1>1. Init => Inv
  BY InitFits
<1>2. Inv /\ ExtendsSafely /\ [Next]_vars => Inv'
  BY NextKeeps
<1>3. CASE ExtendsSafely
  <2>1. Inv /\ [Next]_vars => Inv'
    BY <1>2, <1>3
  <2> QED
    BY <1>1, <2>1, PTL DEF Spec
<1> QED
  BY <1>3

\* A segment is always cut into spans without gap or overlap, its last and inner
\* entries lead to the first of their span, no two free spans are neighbours, and the
\* queues of a thread hold exactly the free spans of its segments
\* (pa_segment_is_valid, pa_segment_span_free_coalesce, pa_span_queue_push).
THEOREM SegmentsSpansSound == ExtendsSafely => (Spec => []SpansSound)
<1>1. Inv => SpansSound
  BY InvSpansSound
<1> QED
  BY <1>1, SegmentsInvariance, PTL

\* The slices of pages and of the segment structure are committed, and are never
\* scheduled for a purge (pa_segment_ensure_committed, pa_segment_schedule_purge).
THEOREM SegmentsCommitSafe == ExtendsSafely => (Spec => []CommitSafe)
<1>1. Inv => CommitSafe
  BY InvCommitSafe
<1> QED
  BY <1>1, SegmentsInvariance, PTL

\* Blocks in the clients' hands lie in a page of a live segment and do not overlap,
\* whatever is split, merged, extended, abandoned or reclaimed around them
\* (pa_segment_span_allocate, pa_segment_slice_split, pa_segment_reclaim).
THEOREM SegmentsBlocksDisjoint == ExtendsSafely => (Spec => []BlocksDisjoint)
<1>1. Inv => BlocksDisjoint
  BY InvBlocksDisjoint
<1> QED
  BY <1>1, SegmentsInvariance, PTL

\* A page that says its memory is zero has no slice that a page freed earlier used
\* (pa_segment_page_clear resets free_is_zero, segment.c:792).
THEOREM SegmentsZeroIsClean == ExtendsSafely => (Spec => []ZeroIsClean)
<1>1. Inv => ZeroIsClean
  BY InvZeroIsClean
<1> QED
  BY <1>1, SegmentsInvariance, PTL
=============================================================================
