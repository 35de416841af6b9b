---------------------------- MODULE BitmapProofs ----------------------------
(***************************************************************************)
(* Proofs about the atomic bitmaps, for any number of threads, fields and  *)
(* bits: what the scan of a field computes, that claims never overlap, and *)
(* that the one bits are exactly those somebody has.                       *)
(*                                                                         *)
(* The scan is a recursive function.  It equals FirstFrom, which satisfies *)
(* the same equation, as there is no least distance from the end of the    *)
(* field where the two differ (LeastNat, from the well-founded order).     *)
(*                                                                         *)
(* ClaimsDisjoint and BitmapExact are not inductive without ThreadOK: that *)
(* the range of a claim ends inside the bitmap, that each field it is at   *)
(* still has bits of the range, and that a compare-and-swap compares with  *)
(* a value that has no bit of the range.                                   *)
(***************************************************************************)
EXTENDS Bitmap, WellFoundedInduction, TLAPS

-----------------------------------------------------------------------------
(* Numbers.                                                                 *)

LEMMA Quotient ==
  ASSUME NEW a \in Nat, NEW d \in Nat \ {0}
  PROVE  /\ a \div d \in Nat /\ a % d \in 0..d - 1
         /\ a = (a \div d) * d + (a % d)
OBVIOUS

LEMMA LeastNat ==
  ASSUME NEW S \in SUBSET Nat, S # {}
  PROVE  \E x \in S : \A y \in S : x <= y
<1> DEFINE R == {p \in Nat \X Nat : p[1] < p[2]}
<1>1. IsWellFoundedOn(R, Nat)
  BY NatLessThanWellFounded DEF OpToRel
<1>2. PICK x \in S : \A y \in S : <<y, x>> \notin R
  BY <1>1, WFMin
<1>3. ASSUME NEW y \in S PROVE x <= y
  <2>1. <<y, x>> \notin R
    BY <1>2
  <2>2. y \in Nat /\ x \in Nat
    OBVIOUS
  <2>3. ~(y < x)
    BY <2>1, <2>2
  <2> QED
    BY <2>2, <2>3
<1> QED
  BY <1>3

LEMMA MinOf ==
  ASSUME NEW S \in SUBSET Nat, S # {}
  PROVE  Min(S) \in S /\ \A y \in S : Min(S) <= y
<1>1. \E x \in S : \A y \in S : x <= y
  BY LeastNat
<1> QED
  BY <1>1, Zenon DEF Min

LEMMA MaxOf ==
  ASSUME NEW n \in Nat, NEW S \in SUBSET (0..n), S # {}
  PROVE  Max(S) \in S /\ \A y \in S : Max(S) >= y
<1> DEFINE T == {n - x : x \in S}
<1>1. T \in SUBSET Nat /\ T # {}
  <2>1. \A x \in S : n - x \in Nat
    OBVIOUS
  <2> QED
    BY <2>1
<1>2. PICK z \in T : \A y \in T : z <= y
  <2> HIDE DEF T
  <2> QED
    BY <1>1, LeastNat
<1>3. PICK x \in S : z = n - x
  OBVIOUS
<1>4. \A y \in S : x >= y
  <2> SUFFICES ASSUME NEW y \in S PROVE x >= y
    OBVIOUS
  <2>1. n - x <= n - y
    BY <1>2, <1>3
  <2>2. x \in Nat /\ y \in Nat
    OBVIOUS
  <2> QED
    BY <2>1, <2>2
<1>5. \E x_ \in S : \A y \in S : x_ >= y
  BY <1>4
<1> QED
  BY <1>5, Zenon DEF Max

-----------------------------------------------------------------------------
(* The scan of a field.                                                     *)

\* The places in a field, from a bit on, where count bits are zero.
Runs(map, count, from) ==
  {bit \in from..FieldBits : bit + count <= FieldBits /\ map \cap Mask(count, bit) = {}}
FirstFrom(map, count, from) ==
  LET runs == Runs(map, count, from) IN IF runs = {} THEN FieldBits ELSE Min(runs)

LEMMA FirstFromIs ==
  ASSUME NEW map \in SUBSET Bits, NEW count \in Nat \ {0}, NEW from \in 0..FieldBits
  PROVE  LET x == FirstFrom(map, count, from)
         IN /\ x \in from..FieldBits
            /\ x # FieldBits => x + count <= FieldBits /\ map \cap Mask(count, x) = {}
            /\ \A y \in from..x - 1 : ~(y + count <= FieldBits /\ map \cap Mask(count, y) = {})
<1> DEFINE runs == Runs(map, count, from)
<1>0. FieldBits \in Nat \ {0}
  BY SizeAssumption
<1>1. runs \in SUBSET Nat /\ runs \subseteq from..FieldBits
  BY <1>0 DEF Runs
<1>2. CASE runs = {}
  BY <1>0, <1>2 DEF FirstFrom, Runs
<1>3. CASE runs # {}
  <2>1. Min(runs) \in runs /\ \A y \in runs : Min(runs) <= y
    <3> HIDE DEF runs
    <3> QED
      BY <1>1, <1>3, MinOf
  <2> DEFINE x == Min(runs)
  <2>2. FirstFrom(map, count, from) = x
    BY <1>3 DEF FirstFrom
  <2> HIDE DEF x
  <2>3. /\ x \in from..FieldBits /\ x + count <= FieldBits /\ map \cap Mask(count, x) = {}
    BY <2>1 DEF Runs, x
  <2>4. ASSUME NEW y \in from..x - 1, y + count <= FieldBits, map \cap Mask(count, y) = {}
        PROVE  FALSE
    <3>1. y \in runs
      BY <1>0, <2>3, <2>4 DEF Runs
    <3>2. x <= y
      BY <2>1, <3>1 DEF x
    <3> QED
      BY <1>0, <2>3, <3>2
  <2> QED
    BY <2>2, <2>3, <2>4
<1> QED
  BY <1>2, <1>3

\* The skip of the scan is sound: no run starts at or before the highest bit met.
LEMMA SkipSound ==
  ASSUME NEW map \in SUBSET Bits, NEW count \in Nat \ {0}, NEW bit \in 0..FieldBits,
         bit + count <= FieldBits, map \cap Mask(count, bit) # {}
  PROVE  LET m == Max(map \cap Mask(count, bit)) + 1
         IN /\ m \in bit + 1..FieldBits
            /\ Runs(map, count, bit) = Runs(map, count, m)
<1> DEFINE S == map \cap Mask(count, bit)
           x == Max(S)
<1>0. FieldBits \in Nat \ {0} /\ S \in SUBSET (0..FieldBits)
  <2>1. FieldBits \in Nat \ {0} /\ \A b \in Bits : b \in 0..FieldBits
    BY SizeAssumption DEF Bits
  <2>2. S \subseteq Bits
    OBVIOUS
  <2> QED
    BY <2>1, <2>2
<1>1. x \in S /\ \A y \in S : x >= y
  <2>1. S # {}
    OBVIOUS
  <2> HIDE DEF S
  <2> QED
    BY <1>0, <2>1, MaxOf
<1> HIDE DEF x
<1>2. x \in map /\ x \in bit..bit + count - 1 /\ x \in 0..FieldBits - 1
  BY <1>0, <1>1 DEF Mask, Bits
<1>3. ASSUME NEW y \in Nat, y >= bit, y <= x PROVE map \cap Mask(count, y) # {}
  BY <1>0, <1>2, <1>3 DEF Mask
<1>4. Runs(map, count, bit) = Runs(map, count, x + 1)
  BY <1>0, <1>2, <1>3 DEF Runs
<1> QED
  BY <1>0, <1>2, <1>4 DEF x

\* What the skipping scan computes, for every field value, count and start: the first
\* run from there on (_pa_bitmap_try_find_claim_field).
LEMMA ScanIs ==
  ASSUME NEW map \in SUBSET Bits, NEW count \in Nat \ {0}, NEW from \in 0..FieldBits
  PROVE  Scan(map, count, from) = FirstFrom(map, count, from)
<1> DEFINE F(g) == [bit \in 0..FieldBits |->
                      IF bit + count > FieldBits THEN FieldBits
                      ELSE IF map \cap Mask(count, bit) = {} THEN bit
                      ELSE g[Max(map \cap Mask(count, bit)) + 1]]
           next == CHOOSE g : g = F(g)
           W == [bit \in 0..FieldBits |-> FirstFrom(map, count, bit)]
<1>0. FieldBits \in Nat \ {0}
  BY SizeAssumption
<1>1. Scan(map, count, from) = next[from]
  BY DEF Scan
<1>2. W = F(W)
  <2> SUFFICES ASSUME NEW bit \in 0..FieldBits
               PROVE  W[bit] = IF bit + count > FieldBits THEN FieldBits
                               ELSE IF map \cap Mask(count, bit) = {} THEN bit
                               ELSE W[Max(map \cap Mask(count, bit)) + 1]
    OBVIOUS
  <2> DEFINE x == FirstFrom(map, count, bit)
  <2>0. /\ x \in bit..FieldBits
        /\ x # FieldBits => x + count <= FieldBits
        /\ \A y \in bit..x - 1 : ~(y + count <= FieldBits /\ map \cap Mask(count, y) = {})
    BY FirstFromIs
  <2> HIDE DEF x
  <2>1. CASE bit + count > FieldBits
    <3>1. x = FieldBits
      BY <1>0, <2>0, <2>1
    <3> QED
      BY <2>1, <3>1 DEF x
  <2>2. CASE bit + count <= FieldBits /\ map \cap Mask(count, bit) = {}
    <3>1. x = bit
      BY <1>0, <2>0, <2>2
    <3> QED
      BY <1>0, <2>2, <3>1 DEF x
  <2>3. CASE bit + count <= FieldBits /\ map \cap Mask(count, bit) # {}
    BY <1>0, <2>3, SkipSound DEF FirstFrom
  <2> QED
    BY <1>0, <2>1, <2>2, <2>3
<1>3. next = F(next)
  BY <1>2
<1> HIDE DEF next
<1>4. \A bit \in 0..FieldBits :
        next[bit] = IF bit + count > FieldBits THEN FieldBits
                    ELSE IF map \cap Mask(count, bit) = {} THEN bit
                    ELSE next[Max(map \cap Mask(count, bit)) + 1]
  BY <1>3
<1> DEFINE Wrong == {k \in Nat : k <= FieldBits /\ next[FieldBits - k] # W[FieldBits - k]}
<1>5. Wrong = {}
  <2> SUFFICES ASSUME Wrong # {} PROVE FALSE
    OBVIOUS
  <2>1. PICK k \in Wrong : \A j \in Wrong : k <= j
    <3>1. Wrong \in SUBSET Nat
      OBVIOUS
    <3> HIDE DEF Wrong
    <3> QED
      BY <3>1, LeastNat
  <2> DEFINE bit == FieldBits - k
             m == Max(map \cap Mask(count, bit)) + 1
  <2>2. k \in 0..FieldBits /\ bit \in 0..FieldBits /\ next[bit] # W[bit]
    BY <1>0
  <2>3. W[bit] = IF bit + count > FieldBits THEN FieldBits
                 ELSE IF map \cap Mask(count, bit) = {} THEN bit ELSE W[m]
    BY <1>2, <2>2
  <2>4. /\ bit + count <= FieldBits /\ map \cap Mask(count, bit) # {}
        /\ next[m] # W[m]
    <3>1. next[bit] = IF bit + count > FieldBits THEN FieldBits
                      ELSE IF map \cap Mask(count, bit) = {} THEN bit ELSE next[m]
      BY <1>4, <2>2
    <3>2. bit \in Int /\ count \in Int /\ FieldBits \in Int
      BY <1>0, <2>2
    <3> HIDE DEF W, bit, m
    <3> QED
      BY <2>2, <2>3, <3>1, <3>2
  <2>5. m \in bit + 1..FieldBits
    BY <2>2, <2>4, SkipSound
  <2> HIDE DEF m
  <2>6. FieldBits - m \in Nat /\ FieldBits - m < k /\ FieldBits - (FieldBits - m) = m
    BY <1>0, <2>2, <2>5
  <2>7. FieldBits - m \in Wrong
    BY <1>0, <2>4, <2>5, <2>6
  <2> QED
    BY <2>1, <2>2, <2>6, <2>7
<1>6. next[from] = W[from]
  <2>1. FieldBits - from \in Nat /\ FieldBits - from <= FieldBits
        /\ FieldBits - (FieldBits - from) = from
    BY <1>0
  <2>2. FieldBits - from \notin Wrong
    BY <1>5
  <2> QED
    BY <2>1, <2>2
<1> QED
  BY <1>1, <1>6

LEMMA CtzIs ==
  ASSUME NEW map \in SUBSET Bits
  PROVE  Ctz(map) \in 0..FieldBits /\ \A b \in Bits : b < Ctz(map) => b \in map
<1> DEFINE c == Ctz(map)
<1>0. FieldBits \in Nat \ {0}
  BY SizeAssumption
<1>1. c \in 0..FieldBits /\ \A b \in Bits : b < c => b \in map
  <2>1. CASE map = Full
    BY <1>0, <2>1 DEF Ctz, Full, Bits
  <2>2. CASE map # Full
    <3> DEFINE zeros == Full \ map
    <3>1. zeros # {} /\ zeros \in SUBSET Nat
      <4>1. zeros \subseteq Bits /\ zeros # {}
        BY <2>2 DEF Full
      <4>2. \A b \in Bits : b \in Nat
        BY <1>0 DEF Bits
      <4> QED
        BY <4>1, <4>2
    <3>2. c = Min(zeros)
      BY <2>2 DEF Ctz
    <3>3. c \in zeros /\ \A y \in zeros : c <= y
      <4> HIDE DEF zeros, c
      <4> QED
        BY <3>1, <3>2, MinOf
    <3> HIDE DEF c
    <3>4. c \in 0..FieldBits
      BY <1>0, <3>3 DEF Full, Bits
    <3>5. ASSUME NEW b \in Bits, b < c, b \notin map PROVE FALSE
      <4>1. b \in zeros /\ b \in Nat /\ c \in Nat
        BY <1>0, <3>4, <3>5 DEF Full, Bits
      <4> QED
        BY <3>3, <3>5, <4>1
    <3> QED
      BY <3>4, <3>5
  <2> QED
    BY <2>1, <2>2
<1> QED
  BY <1>1

LEMMA ClzIs ==
  ASSUME NEW map \in SUBSET Bits
  PROVE  Clz(map) \in 0..FieldBits
<1>0. FieldBits \in Nat \ {0}
  BY SizeAssumption
<1>1. CASE map = {}
  BY <1>0, <1>1 DEF Clz
<1>2. CASE map # {}
  <2>1. map \in SUBSET (0..FieldBits - 1) /\ FieldBits - 1 \in Nat
    BY <1>0 DEF Bits
  <2>2. Max(map) \in map
    BY <1>2, <2>1, MaxOf
  <2>3. Max(map) \in 0..FieldBits - 1
    BY <2>1, <2>2
  <2> QED
    BY <1>0, <1>2, <2>3 DEF Clz
<1> QED
  BY <1>1, <1>2

\* The scan starts at the first zero bit, before which there is no run.
LEMMA ScanFirstRun ==
  ASSUME NEW map \in SUBSET Bits, NEW count \in Nat \ {0}
  PROVE  Scan(map, count, Ctz(map)) = FirstRun(map, count)
<1> DEFINE c == Ctz(map)
           runs == {bit \in Bits : bit + count <= FieldBits /\ map \cap Mask(count, bit) = {}}
<1>0. FieldBits \in Nat \ {0}
  BY SizeAssumption
<1>1. c \in 0..FieldBits /\ \A b \in Bits : b < c => b \in map
  BY CtzIs
<1> HIDE DEF c
<1>2. runs = Runs(map, count, c)
  <2>1. ASSUME NEW b \in runs PROVE b \in Runs(map, count, c)
    <3>1. b \in Mask(count, b) /\ b \notin map
      BY <1>0, <2>1 DEF Mask, Bits
    <3> QED
      BY <1>0, <1>1, <3>1 DEF Runs, Bits
  <2>2. ASSUME NEW b \in Runs(map, count, c) PROVE b \in runs
    BY <1>0, <1>1, <2>2 DEF Runs, Bits
  <2> QED
    BY <2>1, <2>2
<1>3. FirstRun(map, count) = FirstFrom(map, count, c)
  BY <1>2 DEF FirstRun, FirstFrom
<1> QED
  BY <1>1, <1>3, ScanIs DEF c

\* Where the scan ends: at a place for count bits, or at the end of the field.
LEMMA ScanFinds ==
  ASSUME NEW map \in SUBSET Bits, NEW count \in Nat \ {0}, NEW from \in 0..FieldBits
  PROVE  LET bit == Scan(map, count, from)
         IN /\ bit \in 0..FieldBits
            /\ bit # FieldBits => bit + count <= FieldBits /\ map \cap Mask(count, bit) = {}
<1> DEFINE bit == Scan(map, count, from)
<1>1. /\ bit \in from..FieldBits
      /\ bit # FieldBits => bit + count <= FieldBits /\ map \cap Mask(count, bit) = {}
  BY ScanIs, FirstFromIs
<1>2. FieldBits \in Nat
  BY SizeAssumption
<1> HIDE DEF bit
<1>3. bit \in 0..FieldBits
  BY <1>1, <1>2
<1> QED
  BY <1>1, <1>3 DEF bit

-----------------------------------------------------------------------------
(* Ranges of bits in fields.                                                *)

LEMMA Widths ==
  /\ FieldBits \in Nat \ {0} /\ N \in Nat \ {0} /\ \A c \in Counts : c \in Nat \ {0}
  /\ \A f \in Fields : f \in Nat /\ f < N
  /\ \A b \in Bits : b \in Nat /\ b < FieldBits
BY SizeAssumption DEF Fields, Bits

LEMMA RangeFields ==
  ASSUME NEW r \in Ranges
  PROVE  /\ r.field \in Nat /\ r.field < N /\ r.bit \in Nat /\ r.bit < FieldBits
         /\ r.count \in Nat \ {0}
<1>1. r.field \in Fields /\ r.bit \in Bits /\ r.count \in Counts
  BY DEF Ranges
<1> QED
  BY <1>1, Widths

\* Equal sets.
LEMMA SameSet == ASSUME NEW S, NEW T, \A x \in S : x \in T, \A x \in T : x \in S PROVE S = T
OBVIOUS

LEMMA Offset ==
  ASSUME NEW i \in Int, NEW j \in Int
  PROVE  /\ i * FieldBits \in Int
         /\ i = 0 => i * FieldBits = 0
         /\ i < j => i * FieldBits + FieldBits <= j * FieldBits
         /\ i <= j => i * FieldBits <= j * FieldBits
         /\ (i + 1) * FieldBits = i * FieldBits + FieldBits
         /\ (i - 1) * FieldBits = i * FieldBits - FieldBits
<1>0. FieldBits \in Nat \ {0}
  BY SizeAssumption
<1>1. \A x \in Nat : x * FieldBits \in Nat
  BY <1>0
<1>2. i < j => (j - i - 1) * FieldBits \in Nat
  BY <1>1
<1>3. i <= j => (j - i) * FieldBits \in Nat
  BY <1>1
<1>4. i < j => i * FieldBits + FieldBits <= j * FieldBits
  BY <1>0, <1>2
<1>5. i <= j => i * FieldBits <= j * FieldBits
  BY <1>0, <1>3
<1> QED
  BY <1>0, <1>4, <1>5

\* A range within one field.
LEMMA BitsInField ==
  ASSUME NEW r \in Ranges, r.bit + r.count <= FieldBits, NEW f \in Fields
  PROVE  BitsOf(r, f) = IF f = r.field THEN Mask(r.count, r.bit) ELSE {}
<1> DEFINE i == f - r.field
           K == i * FieldBits
<1>0. /\ FieldBits \in Nat \ {0} /\ N \in Nat \ {0} /\ f \in Nat /\ r.field \in Nat
      /\ r.bit \in 0..FieldBits - 1 /\ r.count \in Nat \ {0}
  BY Widths, RangeFields
<1>1. i \in Int
  BY <1>0
<1>2. K \in Int /\ (i = 0 => K = 0) /\ (i > 0 => K >= FieldBits) /\ (i < 0 => K <= -FieldBits)
  <2>1. K \in Int /\ (i = 0 => K = 0)
    BY <1>1, Offset
  <2>2. 0 * FieldBits = 0
    BY <1>0
  <2>3. i > 0 => 0 * FieldBits + FieldBits <= K
    <3> HIDE DEF i
    <3> QED
      BY <1>1, Offset
  <2>4. i < 0 => K + FieldBits <= 0 * FieldBits
    <3> HIDE DEF i
    <3> QED
      BY <1>1, Offset
  <2> HIDE DEF K
  <2> QED
    BY <1>0, <2>1, <2>2, <2>3, <2>4
<1>3. BitsOf(r, f) = {b \in Bits : r.bit <= K + b /\ K + b < r.bit + r.count}
  BY DEF BitsOf
<1> HIDE DEF K
<1>4. CASE f = r.field
  <2>1. K = 0
    BY <1>0, <1>2, <1>4
  <2>2. \A b \in BitsOf(r, f) : b \in Mask(r.count, r.bit)
    BY <1>0, <1>3, <2>1 DEF Bits, Mask
  <2>3. \A b \in Mask(r.count, r.bit) : b \in BitsOf(r, f)
    BY <1>0, <1>3, <2>1 DEF Bits, Mask
  <2> QED
    BY <1>4, <2>2, <2>3, SameSet
<1>5. CASE f # r.field
  BY <1>0, <1>2, <1>3, <1>5 DEF Bits
<1> QED
  BY <1>4, <1>5

\* How many fields a range extends over.
LEMMA LastFieldIs ==
  ASSUME NEW r \in Ranges
  PROVE  LET last == LastField(r)
         IN /\ last \in Int /\ r.field <= last
            /\ r.bit + r.count <= (last - r.field) * FieldBits + FieldBits
            /\ (last - r.field) * FieldBits < r.bit + r.count
<1> DEFINE end == r.bit + r.count
           d == (end + FieldBits - 1) \div FieldBits
           m == (end + FieldBits - 1) % FieldBits
<1>0. /\ FieldBits \in Nat \ {0} /\ r.field \in Nat /\ r.bit \in Nat /\ r.count \in Nat \ {0}
      /\ end \in Nat \ {0} /\ end + FieldBits - 1 \in Nat
  BY Widths, RangeFields
<1>1. d \in Nat /\ m \in 0..FieldBits - 1 /\ end + FieldBits - 1 = d * FieldBits + m
  <2> HIDE DEF end
  <2> QED
    BY <1>0, Quotient
<1>2. LastField(r) = r.field + d - 1
  BY DEF LastField, DivideUp
<1> HIDE DEF end, d, m
<1>3. d * FieldBits >= end /\ d * FieldBits \in Int
  BY <1>0, <1>1, Offset
<1>4. d >= 1
  <2>1. CASE d = 0
    BY <1>0, <1>3, <2>1, Offset
  <2> QED
    BY <1>1, <2>1
<1>5. (d - 1) * FieldBits = d * FieldBits - FieldBits /\ (d - 1) * FieldBits \in Int
  BY <1>1, Offset
<1>6. LastField(r) - r.field = d - 1 /\ LastField(r) \in Int /\ r.field <= LastField(r)
  BY <1>0, <1>1, <1>2, <1>4
<1>7. end <= (d - 1) * FieldBits + FieldBits /\ (d - 1) * FieldBits < end
  BY <1>0, <1>1, <1>3, <1>5
<1> QED
  BY <1>6, <1>7 DEF end

\* It ends within the bitmap.
Inside(r) == r.bit + r.count <= (N - r.field) * FieldBits

LEMMA InsideLast ==
  ASSUME NEW r \in Ranges, Inside(r)
  PROVE  LastField(r) \in Fields /\ r.field <= LastField(r)
<1> DEFINE i == LastField(r) - r.field
           j == N - r.field
<1>0. /\ FieldBits \in Nat \ {0} /\ N \in Nat \ {0} /\ r.field \in Nat /\ r.bit \in Nat
      /\ r.count \in Nat
  BY Widths, RangeFields
<1>1. /\ LastField(r) \in Int /\ r.field <= LastField(r) /\ i \in Int /\ j \in Int
      /\ i * FieldBits < r.bit + r.count /\ r.bit + r.count <= j * FieldBits
  BY <1>0, LastFieldIs DEF Inside
<1> HIDE DEF i, j
<1>2. i < j
  <2>1. CASE j <= i
    <3>1. j * FieldBits <= i * FieldBits /\ j * FieldBits \in Int /\ i * FieldBits \in Int
      BY <1>1, <2>1, Offset
    <3> QED
      BY <1>0, <1>1, <3>1
  <2> QED
    BY <1>1, <2>1
<1>3. LastField(r) < N
  BY <1>0, <1>1, <1>2 DEF i, j
<1> QED
  BY <1>0, <1>1, <1>3 DEF Fields

\* The masks of _pa_bitmap_unclaim_across are the bits of the range, in every field.
LEMMA MaskAcrossIs ==
  ASSUME NEW r \in Ranges, NEW f \in Fields
  PROVE  MaskAcross(r, f) = BitsOf(r, f)
<1> DEFINE i == f - r.field
           K == i * FieldBits
           end == r.bit + r.count
           pre == FieldBits - r.bit
           rest == r.count - pre
           mid == rest \div FieldBits
           m == rest % FieldBits
<1>0. /\ FieldBits \in Nat \ {0} /\ f \in Nat /\ r.field \in Nat /\ r.bit \in Nat
      /\ r.bit < FieldBits /\ r.count \in Nat \ {0} /\ i \in Int
  BY Widths, RangeFields
<1>1. BitsOf(r, f) = {b \in Bits : r.bit <= K + b /\ K + b < end}
  BY DEF BitsOf
<1>2. CASE r.count <= pre
  <2>1. r.bit + r.count <= FieldBits
    BY <1>0, <1>2
  <2>2. MaskAcross(r, f) = IF f = r.field THEN Mask(r.count, r.bit) ELSE {}
    BY <1>0, <1>2 DEF MaskAcross
  <2> QED
    BY <2>1, <2>2, BitsInField
<1>3. CASE r.count > pre
  <2>1. rest \in Nat /\ rest = end - FieldBits
    BY <1>0, <1>3
  <2>2. mid \in Nat /\ m \in 0..FieldBits - 1 /\ rest = mid * FieldBits + m
    <3> HIDE DEF rest
    <3> QED
      BY <1>0, <2>1, Quotient
  <2>3. MaskAcross(r, f) = CASE f = r.field -> Mask(pre, r.bit)
                             [] f > r.field /\ f <= r.field + mid -> Full
                             [] f = r.field + mid + 1 -> Mask(m, 0)
                             [] OTHER -> {}
    BY <1>0, <1>3 DEF MaskAcross
  <2> DEFINE M == mid * FieldBits
  <2> HIDE DEF mid, m, rest
  <2>4. K \in Int /\ M \in Int
    BY <1>0, <2>2, Offset
  <2>5. CASE f = r.field
    <3>1. K = 0
      BY <1>0, <2>5, Offset
    <3> HIDE DEF K
    <3>2. \A b \in BitsOf(r, f) : b \in Mask(pre, r.bit)
      BY <1>0, <1>1, <1>3, <3>1 DEF Mask, Bits
    <3>3. \A b \in Mask(pre, r.bit) : b \in BitsOf(r, f)
      BY <1>0, <1>1, <1>3, <3>1 DEF Mask, Bits
    <3>4. MaskAcross(r, f) = Mask(pre, r.bit)
      <4> HIDE DEF pre
      <4> QED
        BY <1>0, <2>2, <2>3, <2>5
    <3> QED
      BY <3>2, <3>3, <3>4, SameSet
  <2>6. CASE f > r.field /\ f <= r.field + mid
    <3>1. 0 < i /\ i <= mid
      BY <1>0, <2>2, <2>6
    <3>2. K <= M /\ K >= FieldBits
      <4> HIDE DEF i
      <4>1. K <= M /\ 0 * FieldBits + FieldBits <= K
        BY <1>0, <2>2, <3>1, Offset
      <4> QED
        BY <1>0, <2>4, <4>1
    <3> HIDE DEF K, M
    <3>3. \A b \in Bits : r.bit <= K + b /\ K + b < end
      BY <1>0, <2>1, <2>2, <2>4, <3>2, Widths DEF M
    <3>4. BitsOf(r, f) = Full
      BY <1>1, <3>3 DEF Full
    <3> QED
      BY <1>0, <2>2, <2>3, <2>6, <3>4
  <2>7. CASE f = r.field + mid + 1
    <3>1. i = mid + 1
      BY <1>0, <2>2, <2>7
    <3>2. K = M + FieldBits
      <4>1. K = (mid + 1) * FieldBits
        BY <3>1
      <4> QED
        BY <2>2, <4>1, Offset
    <3> HIDE DEF K, M
    <3>3. \A b \in BitsOf(r, f) : b \in Mask(m, 0)
      BY <1>0, <1>1, <2>1, <2>2, <2>4, <3>2 DEF Mask, M, Bits
    <3>4. \A b \in Mask(m, 0) : b \in BitsOf(r, f)
      BY <1>0, <1>1, <2>1, <2>2, <2>4, <3>2 DEF Mask, M, Bits
    <3>5. MaskAcross(r, f) = Mask(m, 0)
      <4> HIDE DEF pre
      <4> QED
        BY <1>0, <2>2, <2>3, <2>7
    <3> QED
      BY <3>3, <3>4, <3>5, SameSet
  <2>8. CASE f < r.field
    <3>1. i < 0
      BY <1>0, <2>8
    <3>2. K <= -FieldBits
      <4> HIDE DEF i
      <4>1. K + FieldBits <= 0 * FieldBits
        BY <1>0, <3>1, Offset
      <4> QED
        BY <1>0, <2>4, <4>1
    <3> HIDE DEF K
    <3>3. BitsOf(r, f) = {}
      BY <1>0, <1>1, <2>4, <3>2, Widths
    <3> QED
      BY <1>0, <2>2, <2>3, <2>8, <3>3
  <2>9. CASE f > r.field + mid + 1
    <3>1. mid + 1 < i
      BY <1>0, <2>2, <2>9
    <3>2. K >= M + FieldBits + FieldBits
      <4> HIDE DEF i
      <4>1. (mid + 1) * FieldBits + FieldBits <= K /\ (mid + 1) * FieldBits = M + FieldBits
        BY <1>0, <2>2, <3>1, Offset
      <4> QED
        BY <1>0, <2>4, <4>1
    <3> HIDE DEF K, M
    <3>3. BitsOf(r, f) = {}
      BY <1>0, <1>1, <2>1, <2>2, <2>4, <3>2, Widths DEF M
    <3> QED
      BY <1>0, <2>2, <2>3, <2>9, <3>3
  <2> QED
    BY <1>0, <2>2, <2>5, <2>6, <2>7, <2>8, <2>9
<1> QED
  BY <1>0, <1>2, <1>3

\* No bits of a range lie before its first field or behind its last.
LEMMA BitsOutside ==
  ASSUME NEW r \in Ranges, NEW f \in Fields, f < r.field \/ f > LastField(r)
  PROVE  BitsOf(r, f) = {}
<1> DEFINE i == f - r.field
           j == LastField(r) - r.field
           K == i * FieldBits
           L == j * FieldBits
<1>0. /\ FieldBits \in Nat \ {0} /\ f \in Nat /\ r.field \in Nat /\ r.bit \in Nat
      /\ r.bit < FieldBits /\ r.count \in Nat \ {0} /\ i \in Int
  BY Widths, RangeFields
<1>1. /\ LastField(r) \in Int /\ r.field <= LastField(r) /\ j \in Int
      /\ r.bit + r.count <= L + FieldBits
  BY <1>0, LastFieldIs
<1>2. BitsOf(r, f) = {b \in Bits : r.bit <= K + b /\ K + b < r.bit + r.count}
  BY DEF BitsOf
<1>3. K \in Int /\ L \in Int
  BY <1>0, <1>1, Offset
<1>4. CASE f < r.field
  <2>1. i < 0
    BY <1>0, <1>4
  <2>2. K + FieldBits <= 0 * FieldBits
    <3> HIDE DEF i
    <3> QED
      BY <1>0, <2>1, Offset
  <2> HIDE DEF K
  <2> QED
    BY <1>0, <1>2, <1>3, <2>2, Widths
<1>5. CASE f > LastField(r)
  <2>1. j < i
    BY <1>0, <1>1, <1>5
  <2>2. L + FieldBits <= K
    <3> HIDE DEF i, j
    <3> QED
      BY <1>0, <1>1, <2>1, Offset
  <2> HIDE DEF K, L
  <2> QED
    BY <1>0, <1>1, <1>2, <1>3, <2>2, Widths
<1> QED
  BY <1>4, <1>5

-----------------------------------------------------------------------------
(* A claim across fields.                                                   *)

Claiming(th) == [field |-> th.idx, bit |-> FieldBits - th.initial, count |-> th.count]

\* The range starts in the zeros at the end of its first field and ends in the bitmap.
Spanning(th) ==
  /\ th.count \in Counts /\ 0 < th.initial /\ th.initial < th.count
  /\ Inside(Claiming(th))

LEMMA RecordFields ==
  ASSUME NEW th \in ThreadRecord
  PROVE  /\ th.idx \in Nat /\ th.idx < N /\ th.visited \in Nat /\ th.visited < N
         /\ th.map \in SUBSET Bits /\ th.bit \in Nat /\ th.bit <= FieldBits
         /\ th.initial \in Nat /\ th.initial <= FieldBits /\ th.field \in Nat /\ th.field <= N
         /\ th.retries \in 0..3 /\ th.idx \in Fields
<1>1. /\ th.idx \in Fields /\ th.visited \in Fields /\ th.map \in SUBSET Bits
      /\ th.bit \in 0..FieldBits /\ th.initial \in 0..FieldBits /\ th.field \in 0..N
      /\ th.retries \in 0..3
  BY DEF ThreadRecord
<1> QED
  BY <1>1, Widths

LEMMA ClaimingRange ==
  ASSUME NEW th \in ThreadRecord, Spanning(th)
  PROVE  Claiming(th) \in Ranges
<1>1. th.idx \in Fields /\ FieldBits - th.initial \in Bits /\ th.count \in Counts
  BY RecordFields, Widths DEF Spanning, Bits
<1> QED
  BY <1>1 DEF Claiming, Ranges

\* The part of the range in each field, relative to what comes before that field.
LEMMA ClaimingBits ==
  ASSUME NEW th \in ThreadRecord, Spanning(th), NEW f \in Fields
  PROVE  /\ Found(th, f) \in Int
         /\ f < th.idx => BitsOf(Claiming(th), f) = {}
         /\ f = th.idx => BitsOf(Claiming(th), f) = InitialMask(th)
         /\ f > th.idx => BitsOf(Claiming(th), f) = {b \in Bits : b < th.count - Found(th, f)}
<1> DEFINE i == f - th.idx
           K == i * FieldBits
<1>0. /\ FieldBits \in Nat \ {0} /\ f \in Nat /\ th.idx \in Nat /\ th.initial \in Nat
      /\ th.initial <= FieldBits /\ th.count \in Nat /\ 0 < th.initial /\ th.initial < th.count
      /\ i \in Int
  BY Widths, RecordFields DEF Spanning
<1>1. BitsOf(Claiming(th), f) =
        {b \in Bits : FieldBits - th.initial <= K + b
                      /\ K + b < FieldBits - th.initial + th.count}
  BY DEF BitsOf, Claiming
<1>2. K \in Int /\ Found(th, f) = th.initial + K - FieldBits
  <2>1. f - th.idx - 1 = i - 1
    BY <1>0
  <2>2. (i - 1) * FieldBits = K - FieldBits /\ K \in Int
    <3> HIDE DEF i
    <3> QED
      BY <1>0, Offset
  <2>3. Found(th, f) = th.initial + (K - FieldBits)
    BY <2>1, <2>2 DEF Found
  <2> HIDE DEF K
  <2> QED
    BY <1>0, <2>2, <2>3
<1>3. (i = 0 => K = 0) /\ (i > 0 => FieldBits <= K) /\ (i < 0 => K + FieldBits <= 0)
  <2> HIDE DEF i
  <2>1. /\ i > 0 => 0 * FieldBits + FieldBits <= K
        /\ i < 0 => K + FieldBits <= 0 * FieldBits
        /\ i = 0 => K = 0
    BY <1>0, Offset
  <2> HIDE DEF K
  <2> QED
    BY <1>0, <1>2, <2>1
<1> HIDE DEF K
<1>4. Found(th, f) \in Int
  BY <1>0, <1>2
<1>5. CASE f < th.idx
  <2>1. K + FieldBits <= 0
    BY <1>0, <1>3, <1>5
  <2>2. BitsOf(Claiming(th), f) = {}
    BY <1>0, <1>1, <1>2, <2>1, Widths
  <2> QED
    BY <1>0, <1>4, <1>5, <2>2
<1>6. CASE f = th.idx
  <2>1. K = 0
    BY <1>0, <1>3, <1>6
  <2>2. \A b \in BitsOf(Claiming(th), f) : b \in InitialMask(th)
    BY <1>0, <1>1, <2>1 DEF InitialMask, Mask, Bits
  <2>3. \A b \in InitialMask(th) : b \in BitsOf(Claiming(th), f)
    BY <1>0, <1>1, <2>1 DEF InitialMask, Mask, Bits
  <2>4. BitsOf(Claiming(th), f) = InitialMask(th)
    BY <2>2, <2>3, SameSet
  <2> QED
    BY <1>0, <1>4, <1>6, <2>4
<1>7. CASE f > th.idx
  <2>1. FieldBits <= K
    BY <1>0, <1>3, <1>7
  <2>2. \A b \in Bits : /\ FieldBits - th.initial <= K + b
                        /\ K + b < FieldBits - th.initial + th.count
                      <=> b < th.count - Found(th, f)
    BY <1>0, <1>2, <2>1, Widths
  <2>3. BitsOf(Claiming(th), f) = {b \in Bits : b < th.count - Found(th, f)}
    BY <1>1, <2>2
  <2> QED
    BY <1>0, <1>4, <1>7, <2>3
<1> QED
  BY <1>0, <1>5, <1>6, <1>7

LEMMA FoundAt ==
  ASSUME NEW th \in ThreadRecord, NEW f \in Int, NEW g \in Int
  PROVE  /\ Found(th, f) \in Int
         /\ Found(th, f + 1) = Found(th, f) + FieldBits
         /\ Found(th, th.idx + 1) = th.initial
         /\ f < g => Found(th, f) + FieldBits <= Found(th, g)
         /\ f <= g => Found(th, f) <= Found(th, g)
<1> DEFINE i == f - th.idx - 1
           j == g - th.idx - 1
           K == i * FieldBits
           L == j * FieldBits
<1>0. /\ FieldBits \in Nat \ {0} /\ th.idx \in Nat /\ th.initial \in Nat /\ i \in Int /\ j \in Int
  BY Widths, RecordFields
<1>1. /\ (f + 1) - th.idx - 1 = i + 1 /\ (th.idx + 1) - th.idx - 1 = 0
      /\ (f < g => i < j) /\ (f <= g => i <= j)
  BY <1>0
<1>2. /\ Found(th, f) = th.initial + K /\ Found(th, g) = th.initial + L
      /\ Found(th, f + 1) = th.initial + (i + 1) * FieldBits
      /\ Found(th, th.idx + 1) = th.initial + 0 * FieldBits
  <2>1. Found(th, f) = th.initial + K /\ Found(th, g) = th.initial + L
    BY DEF Found
  <2>2. /\ Found(th, f + 1) = th.initial + ((f + 1) - th.idx - 1) * FieldBits
        /\ Found(th, th.idx + 1) = th.initial + ((th.idx + 1) - th.idx - 1) * FieldBits
    BY DEF Found
  <2> HIDE DEF i
  <2> QED
    BY <1>1, <2>1, <2>2
<1> HIDE DEF i, j
<1>3. /\ K \in Int /\ L \in Int /\ (i + 1) * FieldBits = K + FieldBits
      /\ i < j => K + FieldBits <= L
      /\ i <= j => K <= L
  BY <1>0, Offset
<1>4. 0 * FieldBits = 0
  BY <1>0
<1> HIDE DEF K, L
<1>5. Found(th, f) \in Int /\ Found(th, f + 1) = Found(th, f) + FieldBits
  <2>1. Found(th, f + 1) = th.initial + (K + FieldBits) /\ Found(th, f) = th.initial + K
    BY <1>2, <1>3
  <2> QED
    BY <1>0, <1>3, <2>1
<1>6. Found(th, th.idx + 1) = th.initial
  BY <1>0, <1>2, <1>4
<1>7. f < g => Found(th, f) + FieldBits <= Found(th, g)
  BY <1>0, <1>1, <1>2, <1>3
<1>8. f <= g => Found(th, f) <= Found(th, g)
  BY <1>0, <1>1, <1>2, <1>3
<1> QED
  BY <1>5, <1>6, <1>7, <1>8

\* A field that the range reaches is one of the bitmap.
LEMMA FoundInside ==
  ASSUME NEW th \in ThreadRecord, Spanning(th), NEW f \in Nat, Found(th, f) < th.count
  PROVE  f < N
<1> DEFINE i == N - th.idx
           K == i * FieldBits
<1>0. /\ FieldBits \in Nat \ {0} /\ th.idx \in Nat /\ th.initial \in Nat /\ i \in Int /\ N \in Nat
      /\ th.count \in Nat
  BY Widths, RecordFields DEF Spanning
<1>1. FieldBits - th.initial + th.count <= K
  BY DEF Spanning, Inside, Claiming
<1>2. N - th.idx - 1 = i - 1
  BY <1>0
<1>3. Found(th, N) = th.initial + (i - 1) * FieldBits
  BY <1>2 DEF Found
<1> HIDE DEF i
<1>4. (i - 1) * FieldBits = K - FieldBits /\ K \in Int
  BY <1>0, Offset
<1> HIDE DEF K
<1>5. Found(th, N) >= th.count
  BY <1>0, <1>1, <1>3, <1>4
<1>6. N <= f => Found(th, N) <= Found(th, f)
  BY <1>0, FoundAt
<1>7. Found(th, N) \in Int /\ Found(th, f) \in Int
  BY <1>0, FoundAt
<1> QED
  BY <1>0, <1>5, <1>6, <1>7

\* What a claim sets in a field that it is at: all of it, or what the range has there.
LEMMA FieldMaskIs ==
  ASSUME NEW th \in ThreadRecord, Spanning(th), NEW f \in Fields, th.idx < f,
         Found(th, f) < th.count
  PROVE  /\ ~IsFinal(th, f) => FieldMask(th, f) = Full /\ Found(th, f + 1) < th.count
         /\ IsFinal(th, f) => FieldMask(th, f) = BitsOf(Claiming(th), f)
         /\ FieldMask(th, f) \subseteq Bits
<1> DEFINE F == Found(th, f)
<1>0. /\ FieldBits \in Nat \ {0} /\ f \in Nat /\ th.idx \in Nat /\ th.count \in Nat
      /\ F \in Int /\ F < th.count
  BY Widths, RecordFields, ClaimingBits DEF Spanning
<1>1. /\ FieldMask(th, f) = Mask(IF F + FieldBits <= th.count THEN FieldBits ELSE th.count - F, 0)
      /\ IsFinal(th, f) <=> F + FieldBits >= th.count
      /\ Found(th, f + 1) = F + FieldBits
      /\ BitsOf(Claiming(th), f) = {b \in Bits : b < th.count - F}
  BY <1>0, ClaimingBits, FoundAt DEF FieldMask, IsFinal
<1> HIDE DEF F
<1>2. ASSUME ~(F + FieldBits >= th.count) PROVE FieldMask(th, f) = Full /\ F + FieldBits < th.count
  BY <1>0, <1>1, <1>2 DEF Full, Bits, Mask
<1>3. ASSUME F + FieldBits >= th.count PROVE FieldMask(th, f) = {b \in Bits : b < th.count - F}
  <2>1. FieldMask(th, f) = Mask(th.count - F, 0)
    BY <1>0, <1>1, <1>3
  <2>2. \A b \in Mask(th.count - F, 0) : b \in {x \in Bits : x < th.count - F}
    BY <1>0, <1>3 DEF Bits, Mask
  <2>3. \A b \in {x \in Bits : x < th.count - F} : b \in Mask(th.count - F, 0)
    BY <1>0, <1>3 DEF Bits, Mask
  <2> QED
    BY <2>1, <2>2, <2>3, SameSet
<1> QED
  BY <1>0, <1>1, <1>2, <1>3 DEF Full

-----------------------------------------------------------------------------
(* The inductive invariant.                                                 *)

\* What a thread knows at each point of its call.
ThreadOK(th) ==
  /\ th.pc # "idle" => th.count \in Counts
  /\ th.pc = "cas" => th.bit + th.count <= FieldBits /\ th.map \cap Mask(th.count, th.bit) = {}
  /\ th.pc \in {"ahead", "first", "next", "roll"} => Spanning(th)
  /\ th.pc \in {"ahead", "next"} => th.idx < th.field /\ Found(th, th.field) < th.count
  /\ th.pc = "roll" => th.idx <= th.field /\ th.field < N
  /\ th.pc = "unclaim" =>
       /\ Releasing(th) \in Ranges /\ Inside(Releasing(th))
       /\ th.idx <= th.field /\ th.field <= LastField(Releasing(th))
  /\ th.result # "not_all_one" /\ (th.pc # "idle" => th.result = "none")

\* Taken, for a record of a thread.
TakenBy(th, f) ==
  CASE th.pc \in {"next", "roll"} ->
         IF f = th.idx THEN InitialMask(th)
         ELSE IF th.idx < f /\ (IF th.pc = "next" THEN f < th.field ELSE f <= th.field)
         THEN Full ELSE {}
    [] th.pc = "unclaim" -> IF f >= th.field THEN BitsOf(Releasing(th), f) ELSE {}
    [] OTHER -> {}

IInv ==
  /\ \A r \in held : Inside(r)
  /\ \A t \in Threads : ThreadOK(thread[t])
  /\ ClaimsDisjoint
  /\ BitmapExact

LEMMA TakenIs ==
  /\ \A t \in Threads, f \in Fields : Taken(t, f) = TakenBy(thread[t], f)
  /\ \A t \in Threads, f \in Fields : Taken(t, f)' = TakenBy(thread'[t], f)
BY DEF Taken, TakenBy, InitialMask, Mask, Releasing, BitsOf, Full, Bits

\* A bit that somebody has, and has alone.
Others(t, f) == bitmap[f] \ TakenBy(thread[t], f)

\* The bits of the others are those of the clients, the other threads and the leftover.
LEMMA OthersIs ==
  ASSUME IInv, NEW t \in Threads, NEW f \in Fields
  PROVE  /\ \A r \in held : BitsOf(r, f) \subseteq Others(t, f)
         /\ \A u \in Threads : u # t => TakenBy(thread[u], f) \subseteq Others(t, f)
         /\ LeftoverBits(f) \subseteq Others(t, f)
         /\ \A b \in Others(t, f) : \/ b \in LeftoverBits(f)
                                    \/ \E r \in held : b \in BitsOf(r, f)
                                    \/ \E u \in Threads : u # t /\ b \in TakenBy(thread[u], f)
         /\ \A r, s \in held : r # s => BitsOf(r, f) \cap BitsOf(s, f) = {}
         /\ \A u, v \in Threads : u # v => TakenBy(thread[u], f) \cap TakenBy(thread[v], f) = {}
         /\ \A u \in Threads : /\ TakenBy(thread[u], f) \cap LeftoverBits(f) = {}
                               /\ \A r \in held : TakenBy(thread[u], f) \cap BitsOf(r, f) = {}
         /\ \A r \in held : BitsOf(r, f) \cap LeftoverBits(f) = {}
         /\ \A u \in Threads : TakenBy(thread[u], f) \subseteq bitmap[f]
<1>1. /\ \A r, s \in held : r # s => BitsOf(r, f) \cap BitsOf(s, f) = {}
      /\ \A u \in Threads :
           /\ \A r \in held : TakenBy(thread[u], f) \cap BitsOf(r, f) = {}
           /\ \A v \in Threads : u # v => TakenBy(thread[u], f) \cap TakenBy(thread[v], f) = {}
           /\ TakenBy(thread[u], f) \cap LeftoverBits(f) = {}
      /\ \A r \in held : BitsOf(r, f) \cap LeftoverBits(f) = {}
  BY TakenIs DEF IInv, ClaimsDisjoint
<1>2. bitmap[f] = LeftoverBits(f) \cup (UNION {BitsOf(r, f) : r \in held})
                    \cup (UNION {TakenBy(thread[u], f) : u \in Threads})
  BY TakenIs DEF IInv, BitmapExact
<1>3. \A b : b \in bitmap[f] <=> \/ b \in LeftoverBits(f)
                                 \/ \E r \in held : b \in BitsOf(r, f)
                                 \/ \E u \in Threads : b \in TakenBy(thread[u], f)
  BY <1>2
<1> QED
  BY <1>1, <1>3 DEF Others

\* The two properties, bit by bit.
LEMMA OwnershipNext ==
  ASSUME \A t \in Threads : ThreadOK(thread'[t]),
         \A f \in Fields :
           /\ \A r, s \in held' : r # s => BitsOf(r, f) \cap BitsOf(s, f) = {}
           /\ \A u, v \in Threads : u # v => TakenBy(thread'[u], f) \cap TakenBy(thread'[v], f) = {}
           /\ \A u \in Threads : /\ TakenBy(thread'[u], f) \cap LeftoverBits(f) = {}
                                 /\ \A r \in held' : TakenBy(thread'[u], f) \cap BitsOf(r, f) = {}
           /\ \A r \in held' : BitsOf(r, f) \cap LeftoverBits(f) = {}
           /\ \A b : b \in bitmap'[f] <=> \/ b \in LeftoverBits(f)
                                          \/ \E r \in held' : b \in BitsOf(r, f)
                                          \/ \E u \in Threads : b \in TakenBy(thread'[u], f),
         bitmap' \in [Fields -> SUBSET Bits]
  PROVE  ClaimsDisjoint' /\ BitmapExact'
<1>0. /\ \A f : Fields' = Fields /\ LeftoverBits(f)' = LeftoverBits(f)
      /\ \A r, f : BitsOf(r, f)' = BitsOf(r, f)
  BY DEF Fields, LeftoverBits, Mask, BitsOf, Bits
<1>1. ClaimsDisjoint'
  BY <1>0, TakenIs DEF ClaimsDisjoint
<1>2. ASSUME NEW f \in Fields
      PROVE  bitmap'[f] = LeftoverBits(f) \cup (UNION {BitsOf(r, f) : r \in held'})
                            \cup (UNION {Taken(t, f)' : t \in Threads})
  <2>1. \A b : b \in bitmap'[f] <=> \/ b \in LeftoverBits(f)
                                    \/ \E r \in held' : b \in BitsOf(r, f)
                                    \/ \E u \in Threads : b \in Taken(u, f)'
    BY <1>2, TakenIs
  <2> QED
    BY <2>1
<1>3. \A t \in Threads : thread'[t].result # "not_all_one"
  BY DEF ThreadOK
<1> QED
  BY <1>1, <1>2, <1>3 DEF BitmapExact

\* A step in which thread t takes or gives back bits.
LEMMA OwnStep ==
  ASSUME TypeOK, IInv, NEW t \in Threads, NEW th \in ThreadRecord, ThreadOK(th),
         thread' = [thread EXCEPT ![t] = th], held' = held,
         bitmap' \in [Fields -> SUBSET Bits],
         \A f \in Fields : /\ TakenBy(th, f) \cap Others(t, f) = {}
                           /\ bitmap'[f] = Others(t, f) \cup TakenBy(th, f)
  PROVE  (TypeOK /\ IInv)'
<1>1. \A u \in Threads : thread'[u] = IF u = t THEN th ELSE thread[u]
  BY DEF TypeOK
<1>2. TypeOK'
  BY DEF TypeOK
<1>3. (\A r \in held : Inside(r))' /\ \A u \in Threads : ThreadOK(thread'[u])
  BY <1>1 DEF IInv, Inside
<1>4. ASSUME NEW f \in Fields
      PROVE  /\ \A r, s \in held' : r # s => BitsOf(r, f) \cap BitsOf(s, f) = {}
             /\ \A u, v \in Threads :
                  u # v => TakenBy(thread'[u], f) \cap TakenBy(thread'[v], f) = {}
             /\ \A u \in Threads : /\ TakenBy(thread'[u], f) \cap LeftoverBits(f) = {}
                                   /\ \A r \in held' : TakenBy(thread'[u], f) \cap BitsOf(r, f) = {}
             /\ \A r \in held' : BitsOf(r, f) \cap LeftoverBits(f) = {}
             /\ \A b : b \in bitmap'[f] <=> \/ b \in LeftoverBits(f)
                                            \/ \E r \in held' : b \in BitsOf(r, f)
                                            \/ \E u \in Threads : b \in TakenBy(thread'[u], f)
  <2>1. /\ \A u \in Threads : u # t => TakenBy(thread'[u], f) = TakenBy(thread[u], f)
        /\ TakenBy(thread'[t], f) = TakenBy(th, f)
    BY <1>1
  <2>2. /\ TakenBy(th, f) \cap Others(t, f) = {}
        /\ bitmap'[f] = Others(t, f) \cup TakenBy(th, f)
    BY <1>4
  <2>3. \A r, s \in held' : r # s => BitsOf(r, f) \cap BitsOf(s, f) = {}
    BY OthersIs
  <2>4. ASSUME NEW u \in Threads, NEW v \in Threads, u # v
        PROVE  TakenBy(thread'[u], f) \cap TakenBy(thread'[v], f) = {}
    BY <2>1, <2>2, <2>4, OthersIs
  <2>5. ASSUME NEW u \in Threads
        PROVE  /\ TakenBy(thread'[u], f) \cap LeftoverBits(f) = {}
               /\ \A r \in held' : TakenBy(thread'[u], f) \cap BitsOf(r, f) = {}
    BY <2>1, <2>2, OthersIs
  <2>6. \A r \in held' : BitsOf(r, f) \cap LeftoverBits(f) = {}
    BY OthersIs
  <2>7. ASSUME NEW b
        PROVE  b \in bitmap'[f] <=> \/ b \in LeftoverBits(f)
                                    \/ \E r \in held' : b \in BitsOf(r, f)
                                    \/ \E u \in Threads : b \in TakenBy(thread'[u], f)
    BY <2>1, <2>2, OthersIs
  <2> QED
    BY <2>3, <2>4, <2>5, <2>6, <2>7
<1>5. ClaimsDisjoint' /\ BitmapExact'
  BY <1>3, <1>4, OwnershipNext
<1> QED
  BY <1>2, <1>3, <1>5 DEF IInv, ThreadOK, Spanning, Inside, Claiming, Found, Mask, Releasing,
                          LastField, Ranges

\* Thread t hands a range to a client: the bits it had taken, and those it takes last.
LEMMA ToClient ==
  ASSUME TypeOK, IInv, NEW t \in Threads, NEW th \in ThreadRecord, ThreadOK(th),
         NEW r \in Ranges, Inside(r),
         thread' = [thread EXCEPT ![t] = th], held' = held \cup {r},
         bitmap' \in [Fields -> SUBSET Bits],
         \A f \in Fields : /\ TakenBy(th, f) = {} /\ BitsOf(r, f) \cap Others(t, f) = {}
                           /\ bitmap'[f] = Others(t, f) \cup BitsOf(r, f)
  PROVE  (TypeOK /\ IInv)'
<1>1. \A u \in Threads : thread'[u] = IF u = t THEN th ELSE thread[u]
  BY DEF TypeOK
<1>2. TypeOK'
  BY DEF TypeOK
<1>3. (\A s \in held : Inside(s))' /\ \A u \in Threads : ThreadOK(thread'[u])
  BY <1>1 DEF IInv, Inside
<1>4. ASSUME NEW f \in Fields
      PROVE  /\ \A s, z \in held' : s # z => BitsOf(s, f) \cap BitsOf(z, f) = {}
             /\ \A u, v \in Threads :
                  u # v => TakenBy(thread'[u], f) \cap TakenBy(thread'[v], f) = {}
             /\ \A u \in Threads : /\ TakenBy(thread'[u], f) \cap LeftoverBits(f) = {}
                                   /\ \A s \in held' : TakenBy(thread'[u], f) \cap BitsOf(s, f) = {}
             /\ \A s \in held' : BitsOf(s, f) \cap LeftoverBits(f) = {}
             /\ \A b : b \in bitmap'[f] <=> \/ b \in LeftoverBits(f)
                                            \/ \E s \in held' : b \in BitsOf(s, f)
                                            \/ \E u \in Threads : b \in TakenBy(thread'[u], f)
  <2>1. /\ \A u \in Threads : u # t => TakenBy(thread'[u], f) = TakenBy(thread[u], f)
        /\ TakenBy(thread'[t], f) = {}
    BY <1>1
  <2>2. /\ BitsOf(r, f) \cap Others(t, f) = {}
        /\ bitmap'[f] = Others(t, f) \cup BitsOf(r, f)
    BY <1>4
  <2>3. ASSUME NEW s \in held', NEW z \in held', s # z PROVE BitsOf(s, f) \cap BitsOf(z, f) = {}
    BY <2>2, <2>3, OthersIs
  <2>4. ASSUME NEW u \in Threads, NEW v \in Threads, u # v
        PROVE  TakenBy(thread'[u], f) \cap TakenBy(thread'[v], f) = {}
    BY <2>1, <2>4, OthersIs
  <2>5. ASSUME NEW u \in Threads
        PROVE  /\ TakenBy(thread'[u], f) \cap LeftoverBits(f) = {}
               /\ \A s \in held' : TakenBy(thread'[u], f) \cap BitsOf(s, f) = {}
    BY <2>1, <2>2, OthersIs
  <2>6. \A s \in held' : BitsOf(s, f) \cap LeftoverBits(f) = {}
    BY <2>2, OthersIs
  <2>7. ASSUME NEW b
        PROVE  b \in bitmap'[f] <=> \/ b \in LeftoverBits(f)
                                    \/ \E s \in held' : b \in BitsOf(s, f)
                                    \/ \E u \in Threads : b \in TakenBy(thread'[u], f)
    BY <2>1, <2>2, OthersIs
  <2> QED
    BY <2>3, <2>4, <2>5, <2>6, <2>7
<1>5. ClaimsDisjoint' /\ BitmapExact'
  BY <1>3, <1>4, OwnershipNext
<1> QED
  BY <1>2, <1>3, <1>5 DEF IInv, ThreadOK, Spanning, Inside, Claiming, Found, Mask, Releasing,
                          LastField, Ranges

\* Thread t takes the bits of a range from a client.
LEMMA FromClient ==
  ASSUME TypeOK, IInv, NEW t \in Threads, NEW th \in ThreadRecord, ThreadOK(th), NEW r \in held,
         thread' = [thread EXCEPT ![t] = th], held' = held \ {r}, bitmap' = bitmap,
         \A f \in Fields : TakenBy(thread[t], f) = {} /\ TakenBy(th, f) = BitsOf(r, f)
  PROVE  (TypeOK /\ IInv)'
<1>1. \A u \in Threads : thread'[u] = IF u = t THEN th ELSE thread[u]
  BY DEF TypeOK
<1>2. TypeOK'
  BY DEF TypeOK
<1>3. (\A s \in held : Inside(s))' /\ \A u \in Threads : ThreadOK(thread'[u])
  BY <1>1 DEF IInv, Inside
<1>4. ASSUME NEW f \in Fields
      PROVE  /\ \A s, z \in held' : s # z => BitsOf(s, f) \cap BitsOf(z, f) = {}
             /\ \A u, v \in Threads :
                  u # v => TakenBy(thread'[u], f) \cap TakenBy(thread'[v], f) = {}
             /\ \A u \in Threads : /\ TakenBy(thread'[u], f) \cap LeftoverBits(f) = {}
                                   /\ \A s \in held' : TakenBy(thread'[u], f) \cap BitsOf(s, f) = {}
             /\ \A s \in held' : BitsOf(s, f) \cap LeftoverBits(f) = {}
             /\ \A b : b \in bitmap'[f] <=> \/ b \in LeftoverBits(f)
                                            \/ \E s \in held' : b \in BitsOf(s, f)
                                            \/ \E u \in Threads : b \in TakenBy(thread'[u], f)
  <2>1. /\ \A u \in Threads : u # t => TakenBy(thread'[u], f) = TakenBy(thread[u], f)
        /\ TakenBy(thread'[t], f) = BitsOf(r, f) /\ TakenBy(thread[t], f) = {}
    BY <1>1, <1>4
  <2>2. \A s, z \in held' : s # z => BitsOf(s, f) \cap BitsOf(z, f) = {}
    BY OthersIs
  <2>3. ASSUME NEW u \in Threads, NEW v \in Threads, u # v
        PROVE  TakenBy(thread'[u], f) \cap TakenBy(thread'[v], f) = {}
    BY <2>1, <2>3, OthersIs
  <2>4. ASSUME NEW u \in Threads
        PROVE  /\ TakenBy(thread'[u], f) \cap LeftoverBits(f) = {}
               /\ \A s \in held' : TakenBy(thread'[u], f) \cap BitsOf(s, f) = {}
    BY <2>1, OthersIs
  <2>5. \A s \in held' : BitsOf(s, f) \cap LeftoverBits(f) = {}
    BY OthersIs
  <2>6. bitmap'[f] = Others(t, f)
    BY <2>1 DEF Others, TypeOK
  <2>7. ASSUME NEW b
        PROVE  b \in bitmap'[f] <=> \/ b \in LeftoverBits(f)
                                    \/ \E s \in held' : b \in BitsOf(s, f)
                                    \/ \E u \in Threads : b \in TakenBy(thread'[u], f)
    BY <2>1, <2>6, OthersIs
  <2> QED
    BY <2>2, <2>3, <2>4, <2>5, <2>7
<1>5. ClaimsDisjoint' /\ BitmapExact'
  BY <1>2, <1>3, <1>4, OwnershipNext DEF TypeOK
<1> QED
  BY <1>2, <1>3, <1>5 DEF IInv, ThreadOK, Spanning, Inside, Claiming, Found, Mask, Releasing,
                          LastField, Ranges

\* A thread that has taken nothing.
Free(th) == th.pc \notin {"next", "roll", "unclaim"}

LEMMA FreeTakes == ASSUME NEW th, Free(th), NEW f PROVE TakenBy(th, f) = {}
BY DEF Free, TakenBy

\* A thread moves on and takes nothing.
LEMMA FreeStep ==
  ASSUME TypeOK, IInv, NEW t \in Threads, NEW th \in ThreadRecord, ThreadOK(th), Free(th),
         Free(thread[t]), thread' = [thread EXCEPT ![t] = th], UNCHANGED <<bitmap, held>>
  PROVE  (TypeOK /\ IInv)'
<1>1. \A f \in Fields : TakenBy(th, f) = {} /\ TakenBy(thread[t], f) = {}
  BY FreeTakes
<1>2. \A f \in Fields : bitmap'[f] = Others(t, f) \cup TakenBy(th, f)
  BY <1>1 DEF Others, TypeOK
<1>3. bitmap' \in [Fields -> SUBSET Bits] /\ held' = held
  BY DEF TypeOK
<1> QED
  BY <1>1, <1>2, <1>3, OwnStep

-----------------------------------------------------------------------------
(* The steps of a call.                                                     *)

LEMMA IdleOK ==
  ASSUME NEW result \in {"none", "failed"}
  PROVE  /\ Idle(result) \in ThreadRecord /\ ThreadOK(Idle(result)) /\ Free(Idle(result))
<1>1. 0 \in Fields /\ 0 \in 0..FieldBits /\ 0 \in 0..N /\ {} \in SUBSET Bits
  BY SizeAssumption DEF Fields
<1> QED
  BY <1>1 DEF Idle, ThreadRecord, ThreadOK, Free

LEMMA SearchOK ==
  ASSUME NEW count \in Counts, NEW i \in Fields, NEW v \in Fields
  PROVE  LET th == [Idle("none") EXCEPT !.pc = Visit(count), !.count = count, !.visited = v, !.idx = i]
         IN th \in ThreadRecord /\ ThreadOK(th) /\ Free(th)
<1> DEFINE z == Idle("none")
           th == [z EXCEPT !.pc = Visit(count), !.count = count, !.visited = v, !.idx = i]
<1>1. z \in ThreadRecord /\ z.result = "none"
  BY IdleOK DEF Idle
<1>2. Visit(count) \in {"infield", "across"}
  BY DEF Visit
<1> HIDE DEF z
<1>3. /\ th \in ThreadRecord /\ th.pc \in {"infield", "across"} /\ th.count = count
      /\ th.result = "none"
  BY <1>1, <1>2 DEF ThreadRecord
<1> HIDE DEF th
<1>4. ThreadOK(th) /\ Free(th)
  BY <1>3 DEF ThreadOK, Free
<1> QED
  BY <1>3, <1>4 DEF th, z

LEMMA NextFieldOK ==
  ASSUME TypeOK, NEW t \in Threads, thread[t].count \in Counts
  PROVE  NextField(t) \in ThreadRecord /\ ThreadOK(NextField(t)) /\ Free(NextField(t))
<1> DEFINE th == thread[t]
           v == th.visited + 1
           i == IF th.idx + 1 = N THEN 0 ELSE th.idx + 1
           next == [Idle("none") EXCEPT !.pc = Visit(th.count), !.count = th.count,
                                        !.visited = v, !.idx = i]
<1>0. th \in ThreadRecord
  BY DEF TypeOK
<1>1. CASE v = N
  <2>1. NextField(t) = [Idle("failed") EXCEPT !.count = th.count]
    BY <1>1 DEF NextField
  <2>2. 0 \in Fields /\ 0 \in 0..FieldBits /\ 0 \in 0..N /\ {} \in SUBSET Bits
    BY SizeAssumption DEF Fields
  <2> QED
    BY <2>1, <2>2 DEF Idle, ThreadRecord, ThreadOK, Free
<1>2. CASE v # N
  <2>1. NextField(t) = next
    BY <1>2 DEF NextField
  <2>2. v \in Fields /\ i \in Fields
    BY <1>0, <1>2, RecordFields, Widths DEF Fields
  <2> HIDE DEF v, i
  <2>3. next \in ThreadRecord /\ ThreadOK(next) /\ Free(next)
    BY <2>2, SearchOK
  <2> QED
    BY <2>1, <2>3
<1> QED
  BY <1>1, <1>2

\* A thread as it enters a step of its call.
LEMMA AtStep ==
  ASSUME TypeOK, IInv, NEW t \in Threads
  PROVE  /\ thread[t] \in ThreadRecord /\ ThreadOK(thread[t])
         /\ thread[t].pc # "idle" => thread[t].count \in Counts /\ thread[t].count \in Nat \ {0}
         /\ thread[t].idx \in Fields /\ bitmap[thread[t].idx] \in SUBSET Bits
<1>1. thread[t] \in ThreadRecord /\ ThreadOK(thread[t]) /\ thread[t].idx \in Fields
  BY DEF TypeOK, IInv, ThreadRecord
<1>2. bitmap[thread[t].idx] \in SUBSET Bits
  BY <1>1 DEF TypeOK
<1> QED
  BY <1>1, <1>2, Widths DEF ThreadOK

LEMMA FindInOK ==
  ASSUME TypeOK, IInv, NEW t \in Threads, thread[t].pc \in {"infield", "cas"},
         NEW map \in SUBSET Bits, NEW from \in 0..FieldBits
  PROVE  /\ FindIn(t, map, from) \in ThreadRecord /\ ThreadOK(FindIn(t, map, from))
         /\ Free(FindIn(t, map, from))
<1> DEFINE bit == Scan(map, thread[t].count, from)
           th == [thread[t] EXCEPT !.pc = "cas", !.map = map, !.bit = bit]
<1>0. /\ thread[t] \in ThreadRecord /\ ThreadOK(thread[t])
      /\ thread[t].count \in Counts /\ thread[t].count \in Nat \ {0}
  BY AtStep
<1>1. /\ bit \in 0..FieldBits
      /\ bit # FieldBits => /\ bit + thread[t].count <= FieldBits
                            /\ map \cap Mask(thread[t].count, bit) = {}
  BY <1>0, ScanFinds
<1>2. FindIn(t, map, from) = IF bit = FieldBits THEN NextField(t) ELSE th
  BY <1>0 DEF FindIn, Step, ThreadRecord
<1> HIDE DEF bit
<1>3. th \in ThreadRecord /\ Free(th)
  BY <1>0, <1>1 DEF ThreadRecord, Free
<1>4. bit # FieldBits => ThreadOK(th)
  BY <1>0, <1>1 DEF ThreadRecord, ThreadOK
<1> QED
  BY <1>0, <1>2, <1>3, <1>4, NextFieldOK

LEMMA InFieldInside ==
  ASSUME NEW r \in Ranges, r.bit + r.count <= FieldBits
  PROVE  Inside(r)
<1> DEFINE j == N - r.field
<1>0. /\ FieldBits \in Nat \ {0} /\ r.field \in Nat /\ r.field < N /\ r.bit \in Nat
      /\ r.count \in Nat /\ j \in Int /\ 0 < j
  BY Widths, RangeFields
<1>1. 0 * FieldBits + FieldBits <= j * FieldBits /\ j * FieldBits \in Int
  <2> HIDE DEF j
  <2> QED
    BY <1>0, Offset
<1>2. 0 * FieldBits = 0
  BY <1>0
<1>3. r.bit + r.count <= j * FieldBits
  <2> DEFINE K == j * FieldBits
  <2> HIDE DEF K
  <2>1. FieldBits <= K /\ K \in Int
    BY <1>0, <1>1, <1>2 DEF K
  <2>2. r.bit + r.count <= K
    BY <1>0, <2>1
  <2> QED
    BY <2>2 DEF K
<1> QED
  BY <1>3 DEF Inside

\* A claim of bits of one field that are zero.
LEMMA ClaimInField ==
  ASSUME TypeOK, IInv, NEW t \in Threads, Free(thread[t]), NEW r \in Ranges,
         r.bit + r.count <= FieldBits, bitmap[r.field] \cap Mask(r.count, r.bit) = {},
         bitmap' = [bitmap EXCEPT ![r.field] = @ \cup Mask(r.count, r.bit)],
         held' = held \cup {r}, thread' = [thread EXCEPT ![t] = Idle("none")]
  PROVE  (TypeOK /\ IInv)'
<1> DEFINE th == Idle("none")
<1>0. th \in ThreadRecord /\ ThreadOK(th) /\ Free(th)
  BY IdleOK
<1>1. Inside(r) /\ r.field \in Fields
  BY InFieldInside DEF Ranges
<1>2. \A f \in Fields : bitmap'[f] = IF f = r.field THEN bitmap[f] \cup Mask(r.count, r.bit)
                                     ELSE bitmap[f]
  BY <1>1 DEF TypeOK
<1>3. Mask(r.count, r.bit) \subseteq Bits
  BY RangeFields, Widths DEF Mask, Bits
<1>4. bitmap' \in [Fields -> SUBSET Bits]
  BY <1>1, <1>3 DEF TypeOK
<1>5. \A f \in Fields : TakenBy(th, f) = {} /\ Others(t, f) = bitmap[f]
  BY <1>0, FreeTakes DEF Others, TypeOK
<1>6. \A f \in Fields : BitsOf(r, f) = IF f = r.field THEN Mask(r.count, r.bit) ELSE {}
  BY BitsInField
<1> HIDE DEF th
<1>7. \A f \in Fields : /\ TakenBy(th, f) = {} /\ BitsOf(r, f) \cap Others(t, f) = {}
                        /\ bitmap'[f] = Others(t, f) \cup BitsOf(r, f)
  BY <1>2, <1>5, <1>6
<1>8. thread' = [thread EXCEPT ![t] = th]
  BY DEF th
<1> QED
  BY <1>0, <1>1, <1>4, <1>7, <1>8, ToClient, ZenonT(60)

LEMMA FindClaimInv ==
  ASSUME TypeOK, IInv, NEW t \in Threads, NEW count \in Counts, NEW start \in Fields,
         FindClaim(t, count, start)
  PROVE  (TypeOK /\ IInv)'
<1> DEFINE z == Idle("none")
           th == [z EXCEPT !.pc = Visit(count), !.count = count, !.idx = start]
<1>1. z \in ThreadRecord /\ z.result = "none"
  BY IdleOK DEF Idle
<1>2. Visit(count) \in {"infield", "across"}
  BY DEF Visit
<1>3. thread' = [thread EXCEPT ![t] = th] /\ UNCHANGED <<bitmap, held>> /\ Free(thread[t])
  BY DEF FindClaim, Free
<1> HIDE DEF z
<1>4. /\ th \in ThreadRecord /\ th.pc \in {"infield", "across"} /\ th.count = count
      /\ th.result = "none"
  BY <1>1, <1>2 DEF ThreadRecord
<1> HIDE DEF th
<1>5. ThreadOK(th) /\ Free(th)
  BY <1>4 DEF ThreadOK, Free
<1> QED
  BY <1>3, <1>4, <1>5, FreeStep

LEMMA InFieldInv ==
  ASSUME TypeOK, IInv, NEW t \in Threads, InField(t)
  PROVE  (TypeOK /\ IInv)'
<1> DEFINE map == bitmap[thread[t].idx]
           th == FindIn(t, map, Ctz(map))
<1>1. map \in SUBSET Bits /\ thread[t].pc = "infield"
  BY AtStep DEF InField
<1>2. Ctz(map) \in 0..FieldBits
  BY <1>1, CtzIs
<1>3. th \in ThreadRecord /\ ThreadOK(th) /\ Free(th)
  BY <1>1, <1>2, FindInOK
<1>4. thread' = [thread EXCEPT ![t] = th] /\ UNCHANGED <<bitmap, held>> /\ Free(thread[t])
  BY <1>1 DEF InField, Free
<1> HIDE DEF th
<1> QED
  BY <1>3, <1>4, FreeStep

LEMMA CasFieldInv ==
  ASSUME TypeOK, IInv, NEW t \in Threads, CasField(t)
  PROVE  (TypeOK /\ IInv)'
<1> DEFINE th == thread[t]
           map == bitmap[th.idx]
<1>0. /\ th.pc = "cas" /\ th \in ThreadRecord /\ th.count \in Counts /\ th.count \in Nat \ {0}
      /\ th.idx \in Fields /\ map \in SUBSET Bits /\ th.bit \in Nat /\ th.bit <= FieldBits
      /\ th.bit + th.count <= FieldBits /\ th.map \cap Mask(th.count, th.bit) = {} /\ Free(th)
  BY AtStep, RecordFields DEF CasField, ThreadOK, Free
<1>1. CASE map = th.map
  <2> DEFINE r == [field |-> th.idx, bit |-> th.bit, count |-> th.count]
  <2>1. r.field = th.idx /\ r.bit = th.bit /\ r.count = th.count
    OBVIOUS
  <2>2. th.bit \in Bits
    BY <1>0, Widths DEF Bits
  <2>3. r \in Ranges
    BY <1>0, <2>2 DEF Ranges
  <2>4. /\ bitmap' = [bitmap EXCEPT ![th.idx] = map \cup Mask(th.count, th.bit)]
        /\ held' = held \cup {r} /\ thread' = [thread EXCEPT ![t] = Idle("none")]
    BY <1>1 DEF CasField, Claimed
  <2> HIDE DEF r
  <2>5. bitmap' = [bitmap EXCEPT ![r.field] = @ \cup Mask(r.count, r.bit)]
    BY <2>1, <2>4
  <2>6. r.bit + r.count <= FieldBits /\ bitmap[r.field] \cap Mask(r.count, r.bit) = {}
    BY <1>0, <1>1, <2>1
  <2> QED
    BY <1>0, <2>3, <2>4, <2>5, <2>6, ClaimInField
<1>2. CASE map # th.map
  <2> DEFINE new == FindIn(t, map, th.bit)
  <2>1. thread' = [thread EXCEPT ![t] = new] /\ UNCHANGED <<bitmap, held>>
    BY <1>2 DEF CasField
  <2>2. th.bit \in 0..FieldBits
    BY <1>0, Widths
  <2>3. new \in ThreadRecord /\ ThreadOK(new) /\ Free(new)
    BY <1>0, <2>2, FindInOK
  <2> HIDE DEF new
  <2> QED
    BY <1>0, <2>1, <2>3, FreeStep
<1> QED
  BY <1>1, <1>2

LEMMA TryClaimInv ==
  ASSUME TypeOK, IInv, NEW t \in Threads, NEW r \in Ranges, TryClaim(t, r)
  PROVE  (TypeOK /\ IInv)'
<1>1. Free(thread[t])
  BY DEF TryClaim, Free
<1> QED
  BY <1>1, ClaimInField DEF TryClaim

\* The fields that a range needs behind its first are there.
LEMMA AcrossFits ==
  ASSUME NEW i \in Fields, NEW initial \in 1..FieldBits, NEW count \in Counts, initial < count,
         DivideUp(count - initial, FieldBits) < N - i
  PROVE  FieldBits - initial + count <= (N - i) * FieldBits
<1> DEFINE c == count - initial
           a == c + FieldBits - 1
           d == a \div FieldBits
           m == a % FieldBits
           j == N - i
           K == d * FieldBits
           L == j * FieldBits
<1>0. /\ FieldBits \in Nat \ {0} /\ N \in Nat /\ i \in Nat /\ i < N /\ count \in Nat /\ initial \in Nat
      /\ c \in Nat /\ a \in Nat /\ j \in Int
  BY Widths
<1>1. d < j
  BY DEF DivideUp
<1>2. d \in Nat /\ m \in 0..FieldBits - 1 /\ a = K + m
  <2> HIDE DEF a
  <2> QED
    BY <1>0, Quotient
<1> HIDE DEF d, m, j
<1>3. K + FieldBits <= L /\ K \in Int /\ L \in Int
  BY <1>0, <1>1, <1>2, Offset
<1> HIDE DEF K, L
<1>4. FieldBits - initial + count <= L
  BY <1>0, <1>2, <1>3
<1> QED
  BY <1>4 DEF L, j

LEMMA AcrossInv ==
  ASSUME TypeOK, IInv, NEW t \in Threads, Across(t)
  PROVE  (TypeOK /\ IInv)'
<1> DEFINE th == thread[t]
           initial == Clz(bitmap[th.idx])
           ahead == [th EXCEPT !.pc = "ahead", !.initial = initial, !.field = th.idx + 1]
           infield == [th EXCEPT !.pc = "infield"]
<1>0. /\ th.pc = "across" /\ th \in ThreadRecord /\ ThreadOK(th) /\ th.count \in Counts
      /\ th.count \in Nat \ {0} /\ th.idx \in Fields /\ bitmap[th.idx] \in SUBSET Bits /\ Free(th)
      /\ th.idx \in Nat /\ th.idx < N
  BY AtStep, RecordFields DEF Across, Free
<1>1. initial \in 0..FieldBits
  BY <1>0, ClzIs
<1>2. PICK new : /\ thread' = [thread EXCEPT ![t] = new] /\ UNCHANGED <<bitmap, held>>
                 /\ \/ new = NextField(t)
                    \/ new = infield
                    \/ /\ 0 < initial /\ initial < th.count
                       /\ ~(DivideUp(th.count - initial, FieldBits) >= N - th.idx)
                       /\ new = ahead
  <2> DEFINE new == CASE initial = 0 -> NextField(t)
                      [] initial >= th.count -> Step(t, "infield")
                      [] 0 < initial /\ initial < th.count ->
                           IF DivideUp(th.count - initial, FieldBits) >= N - th.idx THEN NextField(t)
                           ELSE [Step(t, "ahead") EXCEPT !.initial = initial, !.field = th.idx + 1]
  <2>1. thread' = [thread EXCEPT ![t] = new] /\ UNCHANGED <<bitmap, held>>
    BY DEF Across
  <2>2. Step(t, "infield") = infield
    BY DEF Step
  <2>3. [Step(t, "ahead") EXCEPT !.initial = initial, !.field = th.idx + 1] = ahead
    BY <1>0 DEF Step, ThreadRecord
  <2>4. \/ new = NextField(t)
        \/ new = infield
        \/ /\ 0 < initial /\ initial < th.count
           /\ ~(DivideUp(th.count - initial, FieldBits) >= N - th.idx)
           /\ new = ahead
    <3> HIDE DEF initial, ahead, infield
    <3>1. initial \in Nat /\ th.count \in Nat \ {0} /\ FieldBits \in Nat
      BY <1>0, <1>1, Widths
    <3>2. CASE initial = 0
      BY <3>1, <3>2
    <3>3. CASE initial >= th.count
      BY <2>2, <3>1, <3>3
    <3>4. CASE 0 < initial /\ initial < th.count
      BY <2>3, <3>1, <3>4
    <3> QED
      BY <3>1, <3>2, <3>3, <3>4
  <2> HIDE DEF new
  <2> QED
    BY <2>1, <2>4
<1> HIDE DEF initial
<1>3. infield \in ThreadRecord /\ ThreadOK(infield) /\ Free(infield)
  BY <1>0 DEF ThreadRecord, ThreadOK, Free
<1>4. ASSUME 0 < initial, initial < th.count, ~(DivideUp(th.count - initial, FieldBits) >= N - th.idx)
      PROVE  ahead \in ThreadRecord /\ ThreadOK(ahead) /\ Free(ahead)
  <2>0. FieldBits \in Nat \ {0} /\ N \in Nat \ {0} /\ initial \in 1..FieldBits
    BY <1>1, <1>4, Widths
  <2>1. th.idx + 1 \in 0..N
    BY <1>0, <2>0
  <2>2. /\ ahead \in ThreadRecord /\ ahead.idx = th.idx /\ ahead.count = th.count
        /\ ahead.initial = initial /\ ahead.field = th.idx + 1 /\ ahead.pc = "ahead"
        /\ ahead.result = th.result
    BY <1>0, <1>1, <2>1 DEF ThreadRecord
  <2>3. DivideUp(th.count - initial, FieldBits) < N - th.idx
    <3>1. /\ th.count - initial + FieldBits - 1 \in Nat
      BY <1>0, <1>4, <2>0
    <3>2. (th.count - initial + FieldBits - 1) \div FieldBits \in Nat
      BY <2>0, <3>1, Quotient
    <3> QED
      BY <1>0, <1>4, <2>0, <3>2 DEF DivideUp
  <2>4. FieldBits - initial + th.count <= (N - th.idx) * FieldBits
    BY <1>0, <1>4, <2>0, <2>3, AcrossFits
  <2> HIDE DEF ahead
  <2>5. Spanning(ahead)
    BY <1>0, <1>4, <2>2, <2>4 DEF Spanning, Inside, Claiming
  <2>6. ahead.idx < ahead.field /\ Found(ahead, ahead.field) < ahead.count
    <3>1. Found(ahead, ahead.field) = ahead.initial
      BY <1>0, <2>2, FoundAt
    <3> QED
      BY <1>0, <1>4, <2>2, <3>1
  <2>7. ahead.result # "not_all_one"
    BY <1>0, <2>2 DEF ThreadOK
  <2> QED
    BY <1>0, <2>2, <2>5, <2>6, <2>7 DEF ThreadOK, Free
<1>5. new \in ThreadRecord /\ ThreadOK(new) /\ Free(new)
  BY <1>0, <1>2, <1>3, <1>4, NextFieldOK
<1> QED
  BY <1>0, <1>2, <1>5, FreeStep

\* What depends on the first field, the bits in it and the count only.
LEMMA SameClaim ==
  ASSUME NEW a, NEW b, a.idx = b.idx, a.initial = b.initial, a.count = b.count
  PROVE  /\ Spanning(a) <=> Spanning(b)
         /\ InitialMask(a) = InitialMask(b)
         /\ \A f : Found(a, f) = Found(b, f)
BY DEF Spanning, Claiming, InitialMask, Found

LEMMA RetryOK ==
  ASSUME TypeOK, IInv, NEW t \in Threads, thread[t].pc \in {"first", "roll"}
  PROVE  Retry(t) \in ThreadRecord /\ ThreadOK(Retry(t)) /\ Free(Retry(t))
<1> DEFINE th == thread[t]
           new == [th EXCEPT !.pc = "across", !.retries = th.retries + 1, !.initial = 0, !.field = 0]
<1>0. /\ th \in ThreadRecord /\ ThreadOK(th) /\ th.count \in Counts /\ th.retries \in 0..3
  BY AtStep, RecordFields
<1>1. CASE th.retries <= 2
  <2>1. Retry(t) = new
    BY <1>0, <1>1 DEF Retry, Step, ThreadRecord
  <2>2. th.retries + 1 \in 0..3 /\ 0 \in 0..FieldBits /\ 0 \in 0..N
    BY <1>0, <1>1, Widths
  <2>3. /\ new \in ThreadRecord /\ new.pc = "across" /\ new.count = th.count
        /\ new.result = th.result
    BY <1>0, <2>2 DEF ThreadRecord
  <2> HIDE DEF new
  <2>4. ThreadOK(new) /\ Free(new)
    BY <1>0, <2>3 DEF ThreadOK, Free
  <2> QED
    BY <2>1, <2>3, <2>4
<1>2. CASE ~(th.retries <= 2)
  <2>1. Retry(t) = NextField(t)
    BY <1>2 DEF Retry
  <2> QED
    BY <1>0, <2>1, NextFieldOK
<1> QED
  BY <1>1, <1>2

\* A thread moves on and keeps what it has taken.
LEMMA SameStep ==
  ASSUME TypeOK, IInv, NEW t \in Threads, NEW th \in ThreadRecord, ThreadOK(th),
         \A f \in Fields : TakenBy(th, f) = TakenBy(thread[t], f),
         thread' = [thread EXCEPT ![t] = th], UNCHANGED <<bitmap, held>>
  PROVE  (TypeOK /\ IInv)'
<1>1. \A f \in Fields : TakenBy(thread[t], f) \subseteq bitmap[f]
  BY OthersIs
<1>2. \A f \in Fields : /\ TakenBy(th, f) \cap Others(t, f) = {}
                        /\ bitmap'[f] = Others(t, f) \cup TakenBy(th, f)
  BY <1>1 DEF Others, TypeOK
<1>3. bitmap' \in [Fields -> SUBSET Bits] /\ held' = held
  BY DEF TypeOK
<1> QED
  BY <1>2, <1>3, OwnStep

LEMMA AheadInv ==
  ASSUME TypeOK, IInv, NEW t \in Threads, Ahead(t)
  PROVE  (TypeOK /\ IInv)'
<1> DEFINE th == thread[t]
           first == [th EXCEPT !.pc = "first"]
           on == [th EXCEPT !.field = th.field + 1]
<1>0. /\ th.pc = "ahead" /\ th \in ThreadRecord /\ ThreadOK(th) /\ th.count \in Counts
      /\ th.count \in Nat /\ Spanning(th) /\ th.idx < th.field /\ Found(th, th.field) < th.count
      /\ th.idx \in Nat /\ th.field \in Nat /\ Free(th) /\ th.result = "none"
  BY AtStep, RecordFields DEF Ahead, ThreadOK, Free
<1>1. th.field < N /\ th.field \in Fields /\ N \in Nat
  <2>1. th.field < N
    BY <1>0, FoundInside
  <2> QED
    BY <1>0, <2>1, Widths DEF Fields
<1>2. PICK new : /\ thread' = [thread EXCEPT ![t] = new] /\ UNCHANGED <<bitmap, held>>
                 /\ \/ new = NextField(t)
                    \/ new = first
                    \/ ~IsFinal(th, th.field) /\ new = on
  <2> DEFINE new == IF bitmap[th.field] \cap FieldMask(th, th.field) # {} THEN NextField(t)
                    ELSE IF IsFinal(th, th.field) THEN Step(t, "first") ELSE on
  <2>1. thread' = [thread EXCEPT ![t] = new] /\ UNCHANGED <<bitmap, held>>
    BY DEF Ahead
  <2>2. new = NextField(t) \/ new = first \/ (~IsFinal(th, th.field) /\ new = on)
    BY DEF Step
  <2> HIDE DEF new
  <2> QED
    BY <2>1, <2>2
<1>3. first \in ThreadRecord /\ ThreadOK(first) /\ Free(first)
  <2>1. /\ first \in ThreadRecord /\ first.pc = "first" /\ first.count = th.count
        /\ first.idx = th.idx /\ first.initial = th.initial /\ first.result = "none"
    BY <1>0 DEF ThreadRecord
  <2> HIDE DEF first
  <2>2. Spanning(first)
    BY <1>0, <2>1, SameClaim
  <2> QED
    BY <1>0, <2>1, <2>2 DEF ThreadOK, Free
<1>4. ASSUME ~IsFinal(th, th.field) PROVE on \in ThreadRecord /\ ThreadOK(on) /\ Free(on)
  <2>0. th.field + 1 \in 0..N /\ th.idx < th.field + 1
    BY <1>0, <1>1
  <2>1. /\ on \in ThreadRecord /\ on.pc = "ahead" /\ on.count = th.count /\ on.idx = th.idx
        /\ on.initial = th.initial /\ on.result = "none" /\ on.field = th.field + 1
    BY <1>0, <2>0 DEF ThreadRecord
  <2>2. Found(th, th.field + 1) < th.count
    BY <1>0, <1>1, <1>4, FieldMaskIs
  <2> HIDE DEF on
  <2>3. Spanning(on) /\ Found(on, on.field) < on.count
    BY <1>0, <2>1, <2>2, SameClaim
  <2> QED
    BY <1>0, <2>0, <2>1, <2>3 DEF ThreadOK, Free
<1>5. new \in ThreadRecord /\ ThreadOK(new) /\ Free(new)
  BY <1>0, <1>2, <1>3, <1>4, NextFieldOK
<1> QED
  BY <1>0, <1>2, <1>5, FreeStep

LEMMA InitialBits ==
  ASSUME NEW th \in ThreadRecord
  PROVE  InitialMask(th) \subseteq Bits
BY RecordFields, Widths DEF InitialMask, Mask, Bits

LEMMA ClaimFirstInv ==
  ASSUME TypeOK, IInv, NEW t \in Threads, ClaimFirst(t)
  PROVE  (TypeOK /\ IInv)'
<1> DEFINE th == thread[t]
           new == [th EXCEPT !.pc = "next", !.field = th.idx + 1]
<1>0. /\ th.pc = "first" /\ th \in ThreadRecord /\ ThreadOK(th) /\ th.count \in Counts
      /\ th.count \in Nat /\ Spanning(th) /\ th.idx \in Fields /\ th.idx \in Nat /\ th.idx < N
      /\ Free(th) /\ th.result = "none" /\ th.initial \in Nat
  BY AtStep, RecordFields DEF ClaimFirst, ThreadOK, Free
<1>1. CASE bitmap[th.idx] \cap InitialMask(th) # {}
  <2>1. thread' = [thread EXCEPT ![t] = Retry(t)] /\ UNCHANGED <<bitmap, held>>
    BY <1>1 DEF ClaimFirst
  <2> QED
    BY <1>0, <2>1, RetryOK, FreeStep
<1>2. CASE bitmap[th.idx] \cap InitialMask(th) = {}
  <2>1. /\ bitmap' = [bitmap EXCEPT ![th.idx] = @ \cup InitialMask(th)]
        /\ thread' = [thread EXCEPT ![t] = new] /\ held' = held
    BY <1>0, <1>2 DEF ClaimFirst, Step, ThreadRecord
  <2>2. th.idx + 1 \in 0..N /\ th.idx < th.idx + 1
    BY <1>0, Widths
  <2>3. /\ new \in ThreadRecord /\ new.pc = "next" /\ new.count = th.count /\ new.idx = th.idx
        /\ new.initial = th.initial /\ new.result = "none" /\ new.field = th.idx + 1
    BY <1>0, <2>2 DEF ThreadRecord
  <2> HIDE DEF new
  <2>4. Spanning(new) /\ InitialMask(new) = InitialMask(th)
    BY <1>0, <2>3, SameClaim
  <2>5. Found(new, new.field) < new.count
    <3>1. Found(new, new.field) = new.initial
      BY <1>0, <2>3, FoundAt
    <3> QED
      BY <2>4, <3>1 DEF Spanning
  <2>6. ThreadOK(new)
    BY <1>0, <2>2, <2>3, <2>4, <2>5 DEF ThreadOK
  <2>7. ASSUME NEW f \in Fields PROVE TakenBy(new, f) = IF f = th.idx THEN InitialMask(th) ELSE {}
    <3>1. ~(th.idx < f /\ f < th.idx + 1)
      BY <1>0, Widths
    <3> QED
      BY <2>3, <2>4, <3>1 DEF TakenBy
  <2>8. \A f \in Fields : bitmap'[f] = IF f = th.idx THEN bitmap[f] \cup InitialMask(th) ELSE bitmap[f]
    BY <1>0, <2>1 DEF TypeOK
  <2>9. \A f \in Fields : Others(t, f) = bitmap[f]
    BY <1>0, FreeTakes DEF Others, TypeOK
  <2>10. \A f \in Fields : /\ TakenBy(new, f) \cap Others(t, f) = {}
                           /\ bitmap'[f] = Others(t, f) \cup TakenBy(new, f)
    BY <1>2, <2>7, <2>8, <2>9, ZenonT(60)
  <2>11. bitmap' \in [Fields -> SUBSET Bits]
    BY <1>0, <2>1, InitialBits DEF TypeOK
  <2> QED
    BY <2>1, <2>3, <2>6, <2>10, <2>11, OwnStep
<1> QED
  BY <1>1, <1>2

\* What a claim across fields has, and what it claims, differ in the field it is at.
LEMMA ClaimedSoFar ==
  ASSUME NEW th \in ThreadRecord, ThreadOK(th), th.pc = "next", NEW f \in Fields
  PROVE  /\ f # th.field /\ IsFinal(th, th.field) => BitsOf(Claiming(th), f) = TakenBy(th, f)
         /\ TakenBy(th, th.field) = {}
<1>0. /\ Spanning(th) /\ th.idx < th.field /\ Found(th, th.field) < th.count /\ th.idx \in Nat
      /\ th.field \in Nat /\ f \in Nat /\ FieldBits \in Nat \ {0} /\ th.count \in Nat
      /\ th.idx \in Fields
  BY RecordFields, Widths DEF ThreadOK, Spanning
<1>1. /\ f < th.idx => BitsOf(Claiming(th), f) = {}
      /\ f = th.idx => BitsOf(Claiming(th), f) = InitialMask(th)
      /\ f > th.idx => BitsOf(Claiming(th), f) = {b \in Bits : b < th.count - Found(th, f)}
  BY <1>0, ClaimingBits
<1>2. TakenBy(th, f) = IF f = th.idx THEN InitialMask(th)
                       ELSE IF th.idx < f /\ f < th.field THEN Full ELSE {}
  BY DEF TakenBy
<1>3. TakenBy(th, th.field) = {}
  BY <1>0 DEF TakenBy
<1>4. Found(th, f) \in Int /\ Found(th, th.field) \in Int
  BY <1>0, FoundAt
<1>5. ASSUME th.idx < f, f < th.field PROVE BitsOf(Claiming(th), f) = Full
  <2>1. Found(th, f) + FieldBits <= Found(th, th.field)
    BY <1>0, <1>5, FoundAt
  <2>2. \A b \in Bits : b < th.count - Found(th, f)
    BY <1>0, <1>4, <2>1, Widths
  <2> QED
    BY <1>0, <1>1, <1>5, <2>2 DEF Full
<1>6. ASSUME th.field < f, IsFinal(th, th.field) PROVE BitsOf(Claiming(th), f) = {}
  <2>1. Found(th, th.field) + FieldBits <= Found(th, f) /\ Found(th, th.field) + FieldBits >= th.count
    BY <1>0, <1>6, FoundAt DEF IsFinal
  <2>2. \A b \in Bits : ~(b < th.count - Found(th, f))
    BY <1>0, <1>4, <2>1, Widths
  <2>3. f > th.idx
    BY <1>0, <1>6
  <2> QED
    BY <1>1, <2>2, <2>3
<1> QED
  BY <1>0, <1>1, <1>2, <1>3, <1>5, <1>6

LEMMA ClaimNextInv ==
  ASSUME TypeOK, IInv, NEW t \in Threads, ClaimNext(t)
  PROVE  (TypeOK /\ IInv)'
<1> DEFINE th == thread[t]
           mask == FieldMask(th, th.field)
<1>0. /\ th.pc = "next" /\ th \in ThreadRecord /\ ThreadOK(th) /\ th.count \in Counts
      /\ th.count \in Nat /\ Spanning(th) /\ th.idx \in Nat /\ th.idx < th.field
      /\ Found(th, th.field) < th.count /\ th.result = "none" /\ th.field \in Nat
  BY AtStep, RecordFields DEF ClaimNext, ThreadOK
<1>1. th.field < N /\ th.field \in Fields /\ N \in Nat
  <2>1. th.field < N
    BY <1>0, FoundInside
  <2> QED
    BY <1>0, <2>1, Widths DEF Fields
<1>2. /\ ~IsFinal(th, th.field) => mask = Full /\ Found(th, th.field + 1) < th.count
      /\ IsFinal(th, th.field) => mask = BitsOf(Claiming(th), th.field)
      /\ mask \subseteq Bits
  BY <1>0, <1>1, FieldMaskIs
<1>3. \A f \in Fields : TakenBy(th, f) = IF f = th.idx THEN InitialMask(th)
                                         ELSE IF th.idx < f /\ f < th.field THEN Full ELSE {}
  BY <1>0 DEF TakenBy
<1>4. TakenBy(th, th.field) = {} /\ \A f \in Fields : TakenBy(th, f) \subseteq bitmap[f]
  BY <1>0, <1>1, ClaimedSoFar, OthersIs
<1>5. CASE bitmap[th.field] \cap mask # {}
  <2> DEFINE new == [th EXCEPT !.pc = "roll", !.field = th.field - 1]
  <2>1. thread' = [thread EXCEPT ![t] = new] /\ UNCHANGED <<bitmap, held>>
    BY <1>0, <1>5 DEF ClaimNext, Step, ThreadRecord
  <2>2. th.field - 1 \in 0..N /\ th.idx <= th.field - 1 /\ th.field - 1 < N
    BY <1>0, <1>1
  <2>3. /\ new \in ThreadRecord /\ new.pc = "roll" /\ new.count = th.count /\ new.idx = th.idx
        /\ new.initial = th.initial /\ new.result = "none" /\ new.field = th.field - 1
    BY <1>0, <2>2 DEF ThreadRecord
  <2> HIDE DEF new
  <2>4. Spanning(new) /\ InitialMask(new) = InitialMask(th)
    BY <1>0, <2>3, SameClaim
  <2>5. ThreadOK(new)
    BY <1>0, <2>2, <2>3, <2>4 DEF ThreadOK
  <2>6. ASSUME NEW f \in Fields PROVE TakenBy(new, f) = TakenBy(th, f)
    <3>1. f <= th.field - 1 <=> f < th.field
      BY <1>0, Widths
    <3>2. TakenBy(new, f) = IF f = th.idx THEN InitialMask(th)
                            ELSE IF th.idx < f /\ f <= th.field - 1 THEN Full ELSE {}
      BY <2>3, <2>4 DEF TakenBy
    <3> QED
      BY <1>3, <3>1, <3>2
  <2> QED
    BY <2>1, <2>3, <2>5, <2>6, SameStep
<1>6. CASE bitmap[th.field] \cap mask = {}
  <2> HIDE DEF mask
  <2>1. bitmap' = [bitmap EXCEPT ![th.field] = @ \cup mask]
    BY <1>6 DEF ClaimNext, mask
  <2>2. bitmap' \in [Fields -> SUBSET Bits]
    BY <1>1, <1>2, <2>1 DEF TypeOK
  <2>3. \A f \in Fields : bitmap'[f] = IF f = th.field THEN bitmap[f] \cup mask ELSE bitmap[f]
    BY <1>1, <2>1 DEF TypeOK
  <2>4. CASE IsFinal(th, th.field)
    <3> DEFINE r == Claiming(th)
               new == Idle("none")
    <3>1. held' = held \cup {r} /\ thread' = [thread EXCEPT ![t] = new]
      BY <1>6, <2>4 DEF ClaimNext, Claimed, Claiming, mask
    <3>2. r \in Ranges /\ Inside(r)
      BY <1>0, ClaimingRange DEF Spanning
    <3>3. new \in ThreadRecord /\ ThreadOK(new) /\ Free(new)
      BY IdleOK
    <3>4. \A f \in Fields : BitsOf(r, f) = IF f = th.field THEN mask ELSE TakenBy(th, f)
      BY <1>0, <1>2, <2>4, ClaimedSoFar
    <3>5. \A f \in Fields : TakenBy(new, f) = {}
      BY <3>3, FreeTakes
    <3> HIDE DEF r, new
    <3>6. \A f \in Fields : /\ TakenBy(new, f) = {} /\ BitsOf(r, f) \cap Others(t, f) = {}
                            /\ bitmap'[f] = Others(t, f) \cup BitsOf(r, f)
      BY <1>4, <1>6, <2>3, <3>4, <3>5 DEF Others
    <3> QED
      BY <2>2, <3>1, <3>2, <3>3, <3>6, ToClient
  <2>5. CASE ~IsFinal(th, th.field)
    <3> DEFINE new == [th EXCEPT !.field = th.field + 1]
    <3>1. held' = held /\ thread' = [thread EXCEPT ![t] = new]
      BY <1>6, <2>5 DEF ClaimNext, mask
    <3>2. th.field + 1 \in 0..N /\ th.idx < th.field + 1
      BY <1>0, <1>1
    <3>3. /\ new \in ThreadRecord /\ new.pc = "next" /\ new.count = th.count /\ new.idx = th.idx
          /\ new.initial = th.initial /\ new.result = "none" /\ new.field = th.field + 1
      BY <1>0, <3>2 DEF ThreadRecord
    <3> HIDE DEF new
    <3>4. Spanning(new) /\ InitialMask(new) = InitialMask(th) /\ Found(new, new.field) < new.count
      BY <1>0, <1>2, <2>5, <3>3, SameClaim
    <3>5. ThreadOK(new)
      BY <1>0, <3>2, <3>3, <3>4 DEF ThreadOK
    <3>6. ASSUME NEW f \in Fields
          PROVE  TakenBy(new, f) = IF f = th.field THEN mask ELSE TakenBy(th, f)
      <4>1. f < th.field + 1 <=> (f < th.field \/ f = th.field)
        BY <1>0, Widths
      <4>2. TakenBy(new, f) = IF f = th.idx THEN InitialMask(th)
                              ELSE IF th.idx < f /\ f < th.field + 1 THEN Full ELSE {}
        BY <3>3, <3>4 DEF TakenBy
      <4>3. th.field # th.idx /\ th.idx < th.field /\ mask = Full
        BY <1>0, <1>2, <2>5
      <4> QED
        BY <1>3, <4>1, <4>2, <4>3
    <3>7. \A f \in Fields : /\ TakenBy(new, f) \cap Others(t, f) = {}
                            /\ bitmap'[f] = Others(t, f) \cup TakenBy(new, f)
      BY <1>4, <1>6, <2>3, <3>6 DEF Others
    <3> QED
      BY <2>2, <3>1, <3>3, <3>5, <3>7, OwnStep
  <2> QED
    BY <2>4, <2>5
<1> QED
  BY <1>5, <1>6

LEMMA RollbackInv ==
  ASSUME TypeOK, IInv, NEW t \in Threads, Rollback(t)
  PROVE  (TypeOK /\ IInv)'
<1> DEFINE th == thread[t]
<1>0. /\ th.pc = "roll" /\ th \in ThreadRecord /\ ThreadOK(th) /\ th.count \in Counts
      /\ Spanning(th) /\ th.idx \in Nat /\ th.idx <= th.field /\ th.field < N
      /\ th.result = "none" /\ th.field \in Nat /\ N \in Nat /\ th.idx \in Fields
  BY AtStep, RecordFields, Widths DEF Rollback, ThreadOK
<1>1. \A f \in Fields : TakenBy(th, f) = IF f = th.idx THEN InitialMask(th)
                                         ELSE IF th.idx < f /\ f <= th.field THEN Full ELSE {}
  BY <1>0 DEF TakenBy
<1>2. \A f \in Fields : TakenBy(th, f) \subseteq bitmap[f] /\ bitmap[f] \subseteq Full
  BY OthersIs DEF TypeOK, Full
<1>3. CASE th.field > th.idx
  <2> DEFINE new == [th EXCEPT !.field = th.field - 1]
  <2>1. /\ bitmap' = [bitmap EXCEPT ![th.field] = {}] /\ held' = held
        /\ thread' = [thread EXCEPT ![t] = new]
    BY <1>3 DEF Rollback
  <2>2. /\ th.field - 1 \in 0..N /\ th.idx <= th.field - 1 /\ th.field - 1 < N
        /\ th.field \in Fields /\ th.field # th.idx
    BY <1>0, <1>3 DEF Fields
  <2>3. /\ new \in ThreadRecord /\ new.pc = "roll" /\ new.count = th.count /\ new.idx = th.idx
        /\ new.initial = th.initial /\ new.result = "none" /\ new.field = th.field - 1
    BY <1>0, <2>2 DEF ThreadRecord
  <2> HIDE DEF new
  <2>4. Spanning(new) /\ InitialMask(new) = InitialMask(th)
    BY <1>0, <2>3, SameClaim
  <2>5. ThreadOK(new)
    BY <1>0, <2>2, <2>3, <2>4 DEF ThreadOK
  <2>6. ASSUME NEW f \in Fields
        PROVE  TakenBy(new, f) = IF f = th.field THEN {} ELSE TakenBy(th, f)
    <3>1. f <= th.field - 1 <=> f <= th.field /\ f # th.field
      BY <1>0, Widths
    <3>2. TakenBy(new, f) = IF f = th.idx THEN InitialMask(th)
                            ELSE IF th.idx < f /\ f <= th.field - 1 THEN Full ELSE {}
      BY <2>3, <2>4 DEF TakenBy
    <3> QED
      BY <1>1, <2>2, <3>1, <3>2
  <2>7. \A f \in Fields : bitmap'[f] = IF f = th.field THEN {} ELSE bitmap[f]
    BY <2>1, <2>2 DEF TypeOK
  <2>8. TakenBy(th, th.field) = Full
    BY <1>0, <1>1, <1>3, <2>2
  <2>9. \A f \in Fields : /\ TakenBy(new, f) \cap Others(t, f) = {}
                          /\ bitmap'[f] = Others(t, f) \cup TakenBy(new, f)
    BY <1>2, <2>6, <2>7, <2>8 DEF Others
  <2>10. bitmap' \in [Fields -> SUBSET Bits]
    BY <2>1, <2>2 DEF TypeOK
  <2> QED
    BY <2>1, <2>3, <2>5, <2>9, <2>10, OwnStep
<1>4. CASE ~(th.field > th.idx)
  <2> DEFINE new == Retry(t)
  <2>1. /\ bitmap' = [bitmap EXCEPT ![th.idx] = @ \ InitialMask(th)] /\ held' = held
        /\ thread' = [thread EXCEPT ![t] = new]
    BY <1>4 DEF Rollback
  <2>2. new \in ThreadRecord /\ ThreadOK(new) /\ Free(new)
    BY <1>0, RetryOK
  <2> HIDE DEF new
  <2>3. \A f \in Fields : TakenBy(new, f) = {}
    BY <2>2, FreeTakes
  <2>4. \A f \in Fields : bitmap'[f] = IF f = th.idx THEN bitmap[f] \ InitialMask(th) ELSE bitmap[f]
    BY <1>0, <2>1 DEF TypeOK
  <2>5. \A f \in Fields : TakenBy(th, f) = IF f = th.idx THEN InitialMask(th) ELSE {}
    BY <1>0, <1>1, <1>4, Widths
  <2>6. \A f \in Fields : /\ TakenBy(new, f) \cap Others(t, f) = {}
                          /\ bitmap'[f] = Others(t, f) \cup TakenBy(new, f)
    BY <2>3, <2>4, <2>5 DEF Others
  <2>7. bitmap' \in [Fields -> SUBSET Bits]
    BY <1>0, <2>1 DEF TypeOK
  <2> QED
    BY <2>1, <2>2, <2>6, <2>7, OwnStep
<1> QED
  BY <1>3, <1>4

LEMMA UnclaimInv ==
  ASSUME TypeOK, IInv, NEW t \in Threads, NEW r \in held, Unclaim(t, r)
  PROVE  (TypeOK /\ IInv)'
<1> DEFINE z == Idle("none")
           new == [z EXCEPT !.pc = "unclaim", !.count = r.count, !.idx = r.field, !.bit = r.bit,
                            !.field = r.field]
<1>0. r \in Ranges /\ Inside(r) /\ Free(thread[t])
  BY DEF TypeOK, IInv, Unclaim, Free
<1>1. /\ r.field \in Fields /\ r.bit \in 0..FieldBits /\ r.field \in 0..N /\ r.count \in Counts
      /\ r = [field |-> r.field, bit |-> r.bit, count |-> r.count]
  BY <1>0, RangeFields, Widths DEF Ranges
<1>2. z \in ThreadRecord /\ z.result = "none"
  BY IdleOK DEF Idle
<1>3. thread' = [thread EXCEPT ![t] = new] /\ held' = held \ {r} /\ bitmap' = bitmap
  BY DEF Unclaim
<1> HIDE DEF z
<1>4. /\ new \in ThreadRecord /\ new.pc = "unclaim" /\ new.count = r.count /\ new.idx = r.field
      /\ new.bit = r.bit /\ new.field = r.field /\ new.result = "none"
  BY <1>1, <1>2 DEF ThreadRecord
<1> HIDE DEF new
<1>5. Releasing(new) = r
  BY <1>1, <1>4 DEF Releasing
<1>6. r.field <= LastField(r) /\ r.field <= r.field
  BY <1>0, InsideLast, RangeFields
<1>7. ThreadOK(new)
  BY <1>0, <1>1, <1>4, <1>5, <1>6 DEF ThreadOK
<1>8. ASSUME NEW f \in Fields PROVE TakenBy(thread[t], f) = {} /\ TakenBy(new, f) = BitsOf(r, f)
  <2>1. TakenBy(new, f) = IF f >= r.field THEN BitsOf(r, f) ELSE {}
    BY <1>4, <1>5 DEF TakenBy
  <2>2. ~(f >= r.field) => f < r.field
    BY <1>0, RangeFields, Widths
  <2> QED
    BY <1>0, <2>1, <2>2, FreeTakes, BitsOutside
<1> QED
  BY <1>3, <1>4, <1>7, <1>8, FromClient

LEMMA UnclaimFieldInv ==
  ASSUME TypeOK, IInv, NEW t \in Threads, UnclaimField(t)
  PROVE  (TypeOK /\ IInv)'
<1> DEFINE th == thread[t]
           r == Releasing(th)
           mask == MaskAcross(r, th.field)
           on == [th EXCEPT !.field = th.field + 1, !.result = "none"]
           new == IF th.field = LastField(r) THEN Idle("none") ELSE on
<1>0. /\ th.pc = "unclaim" /\ th \in ThreadRecord /\ ThreadOK(th) /\ r \in Ranges /\ Inside(r)
      /\ th.idx <= th.field /\ th.field <= LastField(r) /\ th.result = "none"
      /\ th.field \in Nat /\ th.count \in Counts /\ th.idx \in Nat
  BY AtStep, RecordFields DEF UnclaimField, ThreadOK
<1>1. LastField(r) \in Fields /\ LastField(r) \in Nat /\ N \in Nat /\ LastField(r) < N
  BY <1>0, InsideLast, Widths
<1>2. th.field \in Fields /\ r.field = th.idx
  BY <1>0, <1>1 DEF Fields, Releasing
<1>3. \A f \in Fields : TakenBy(th, f) = IF f >= th.field THEN BitsOf(r, f) ELSE {}
  BY <1>0 DEF TakenBy
<1>4. mask = BitsOf(r, th.field) /\ mask = TakenBy(th, th.field) /\ mask \subseteq bitmap[th.field]
  <2>1. mask = BitsOf(r, th.field)
    BY <1>0, <1>2, MaskAcrossIs
  <2>2. mask = TakenBy(th, th.field)
    BY <1>0, <1>2, <1>3, <2>1
  <2> QED
    BY <1>2, <2>1, <2>2, OthersIs
<1>5. /\ bitmap' = [bitmap EXCEPT ![th.field] = @ \ mask] /\ held' = held
      /\ thread' = [thread EXCEPT ![t] = new]
  BY <1>0, <1>4 DEF UnclaimField
<1> HIDE DEF mask
<1>6. \A f \in Fields : bitmap'[f] = IF f = th.field THEN bitmap[f] \ mask ELSE bitmap[f]
  BY <1>2, <1>5 DEF TypeOK
<1>7. bitmap' \in [Fields -> SUBSET Bits]
  BY <1>2, <1>5 DEF TypeOK
<1>8. \A f \in Fields : TakenBy(th, f) \subseteq bitmap[f]
  BY OthersIs
<1>9. /\ new \in ThreadRecord /\ ThreadOK(new)
      /\ \A f \in Fields : TakenBy(new, f) = IF f = th.field THEN {} ELSE TakenBy(th, f)
  <2>1. CASE th.field = LastField(r)
    <3>1. Idle("none") \in ThreadRecord /\ ThreadOK(Idle("none")) /\ Free(Idle("none"))
      BY IdleOK
    <3>2. ASSUME NEW f \in Fields, f # th.field PROVE TakenBy(th, f) = {}
      <4>1. f >= th.field => f > LastField(r)
        BY <1>0, <2>1, <3>2, Widths
      <4> QED
        BY <1>0, <1>3, <4>1, BitsOutside
    <3> QED
      BY <2>1, <3>1, <3>2, FreeTakes
  <2>2. CASE th.field # LastField(r)
    <3>1. th.field + 1 \in 0..N /\ th.idx <= th.field + 1 /\ th.field + 1 <= LastField(r)
      BY <1>0, <1>1, <2>2
    <3>2. /\ on \in ThreadRecord /\ on.pc = "unclaim" /\ on.count = th.count /\ on.idx = th.idx
          /\ on.bit = th.bit /\ on.result = "none" /\ on.field = th.field + 1
      BY <1>0, <3>1 DEF ThreadRecord
    <3>3. new = on
      BY <2>2
    <3> HIDE DEF on, new
    <3>4. Releasing(on) = r
      BY <3>2 DEF Releasing
    <3> HIDE DEF r
    <3>5. ThreadOK(on)
      BY <1>0, <3>1, <3>2, <3>4 DEF ThreadOK
    <3>6. ASSUME NEW f \in Fields
          PROVE  TakenBy(on, f) = IF f = th.field THEN {} ELSE TakenBy(th, f)
      <4>1. f >= th.field + 1 <=> f >= th.field /\ f # th.field
        BY <1>0, Widths
      <4>2. TakenBy(on, f) = IF f >= th.field + 1 THEN BitsOf(r, f) ELSE {}
        BY <3>2, <3>4 DEF TakenBy
      <4> QED
        BY <1>3, <4>1, <4>2
    <3> QED
      BY <3>2, <3>3, <3>5, <3>6
  <2> QED
    BY <2>1, <2>2
<1> HIDE DEF new
<1>10. \A f \in Fields : /\ TakenBy(new, f) \cap Others(t, f) = {}
                         /\ bitmap'[f] = Others(t, f) \cup TakenBy(new, f)
  BY <1>4, <1>6, <1>8, <1>9 DEF Others
<1> QED
  BY <1>5, <1>7, <1>9, <1>10, OwnStep

-----------------------------------------------------------------------------
(* The theorems.                                                            *)

LEMMA InitInv == Init => TypeOK /\ IInv
<1> SUFFICES ASSUME Init PROVE TypeOK /\ IInv
  OBVIOUS
<1>0. Idle("none") \in ThreadRecord /\ ThreadOK(Idle("none")) /\ Free(Idle("none"))
  BY IdleOK
<1>1. \A t \in Threads : thread[t] = Idle("none")
  BY DEF Init
<1>2. \A f \in Fields : bitmap[f] = LeftoverBits(f) /\ LeftoverBits(f) \subseteq Bits
  <2>1. Mask(Leftover, FieldBits - Leftover) \subseteq Bits
    BY SizeAssumption DEF Mask, Bits
  <2> QED
    BY <2>1 DEF Init, LeftoverBits
<1>3. held = {} /\ bitmap \in [Fields -> SUBSET Bits] /\ thread \in [Threads -> ThreadRecord]
  <2>1. bitmap = [f \in Fields |-> bitmap[f]] /\ thread = [t \in Threads |-> thread[t]]
    BY DEF Init
  <2> QED
    BY <1>0, <1>1, <1>2, <2>1 DEF Init
<1>4. \A t \in Threads, f \in Fields : Taken(t, f) = {}
  BY <1>0, <1>1, TakenIs, FreeTakes
<1>5. ClaimsDisjoint
  BY <1>3, <1>4 DEF ClaimsDisjoint
<1>6. BitmapExact
  <2>1. \A t \in Threads : thread[t].result # "not_all_one"
    BY <1>0, <1>1 DEF ThreadOK
  <2>2. ASSUME NEW f \in Fields
        PROVE  bitmap[f] = LeftoverBits(f) \cup (UNION {BitsOf(r, f) : r \in held})
                             \cup (UNION {Taken(t, f) : t \in Threads})
    BY <1>2, <1>3, <1>4
  <2> QED
    BY <2>1, <2>2 DEF BitmapExact
<1> QED
  BY <1>0, <1>1, <1>3, <1>5, <1>6 DEF TypeOK, IInv

LEMMA NextInv == TypeOK /\ IInv /\ [Next]_vars => (TypeOK /\ IInv)'
<1> SUFFICES ASSUME TypeOK, IInv, [Next]_vars PROVE (TypeOK /\ IInv)'
  OBVIOUS
<1>1. CASE UNCHANGED vars
  <2>0. bitmap' = bitmap /\ held' = held /\ thread' = thread
    BY <1>1 DEF vars
  <2>1. TypeOK'
    BY <2>0 DEF TypeOK
  <2>2. (\A r \in held : Inside(r))' /\ \A t \in Threads : ThreadOK(thread'[t])
    BY <2>0 DEF IInv, Inside
  <2>3. \A t \in Threads, f \in Fields : Taken(t, f)' = Taken(t, f)
    BY <2>0, TakenIs
  <2>4. ClaimsDisjoint' /\ BitmapExact'
    <3>1. \A r, f : BitsOf(r, f)' = BitsOf(r, f) /\ LeftoverBits(f)' = LeftoverBits(f)
      BY DEF BitsOf, LeftoverBits
    <3>2. ClaimsDisjoint'
      BY <2>0, <2>3, <3>1 DEF IInv, ClaimsDisjoint
    <3>3. BitmapExact'
      BY <2>0, <2>3, <3>1 DEF IInv, BitmapExact
    <3> QED
      BY <3>2, <3>3
  <2> QED
    BY <2>1, <2>2, <2>4 DEF IInv, ThreadOK, Spanning, Inside, Claiming, Found, Mask, Releasing,
                            LastField, Ranges
<1>2. ASSUME NEW t \in Threads, ThreadStep(t) PROVE (TypeOK /\ IInv)'
  BY <1>2, InFieldInv, CasFieldInv, AcrossInv, AheadInv, ClaimFirstInv, ClaimNextInv, RollbackInv,
     UnclaimFieldInv DEF ThreadStep
<1>3. ASSUME NEW t \in Threads, NEW count \in Counts, NEW start \in Fields,
             FindClaim(t, count, start)
      PROVE  (TypeOK /\ IInv)'
  BY <1>3, FindClaimInv
<1>4. ASSUME NEW t \in Threads, NEW r \in Ranges, TryClaim(t, r) PROVE (TypeOK /\ IInv)'
  BY <1>4, TryClaimInv
<1>5. ASSUME NEW t \in Threads, NEW r \in held, Unclaim(t, r) PROVE (TypeOK /\ IInv)'
  BY <1>5, UnclaimInv
<1> QED
  BY <1>1, <1>2, <1>3, <1>4, <1>5 DEF Next

\* The records of the threads, the fields and the claimed ranges stay in their
\* types, and the inductive invariant holds, in every state of bitmap.c's claims
\* and releases, for any number of threads, fields, and bits in a field.
THEOREM Invariance == Spec => [](TypeOK /\ IInv)
<1>1. Init => TypeOK /\ IInv
  BY InitInv
<1>2. TypeOK /\ IInv /\ [Next]_vars => (TypeOK /\ IInv)'
  BY NextInv
<1> QED
  BY <1>1, <1>2, PTL DEF Spec

\* Two claims of _pa_bitmap_try_find_from_claim_across, _pa_bitmap_try_find_claim
\* and _pa_bitmap_try_claim never give out the same bit, whoever claims, rolls
\* back or releases at the same time.
THEOREM ClaimsNeverOverlap == Spec => []ClaimsDisjoint
<1>1. TypeOK /\ IInv => ClaimsDisjoint
  BY DEF IInv
<1> QED
  BY <1>1, Invariance, PTL

\* The one bits are those of the claimed ranges, of claims, rollbacks and releases
\* in progress, and the leftover: the rollback of a claim across fields leaves
\* nothing behind and clears nothing of others, and _pa_bitmap_unclaim_across
\* finds every bit of its range set.
THEOREM BitmapIsExact == Spec => []BitmapExact
<1>1. TypeOK /\ IInv => BitmapExact
  BY DEF IInv
<1> QED
  BY <1>1, Invariance, PTL

\* The scan of _pa_bitmap_try_find_claim_field, which skips to behind the last one
\* bit of the window, misses no run of zeros: it finds the first one.
THEOREM ScanCorrect == Spec => []ScanFindsFirst
<1>1. TypeOK /\ IInv => ScanFindsFirst
  <2> SUFFICES ASSUME TypeOK, NEW f \in Fields, NEW count \in Counts
               PROVE  Scan(bitmap[f], count, Ctz(bitmap[f])) = FirstRun(bitmap[f], count)
    BY DEF ScanFindsFirst
  <2>1. bitmap[f] \in SUBSET Bits /\ count \in Nat \ {0}
    BY Widths DEF TypeOK
  <2> QED
    BY <2>1, ScanFirstRun
<1> QED
  BY <1>1, Invariance, PTL
=============================================================================
