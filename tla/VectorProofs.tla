---------------------------- MODULE VectorProofs ----------------------------
(***************************************************************************)
(* Proofs about the vector allocators: for any number of threads, sizes,   *)
(* slabs, pages and blocks, the memory of a vector is its own and can be   *)
(* used, and a batch frees each of its blocks once.                        *)
(*                                                                         *)
(* The allocators share no state, so each has an invariant of its own:     *)
(*   PomaiInv  what a thread has bumped and not yet returned is its own    *)
(*   VecInv    the watermark, the used part and the reservation            *)
(*   PoolInv   bitmaps and counts of the slabs and what clients have       *)
(*   BatchInv  who has a block, and who may move the blocks of a page      *)
(***************************************************************************)
EXTENDS VectorApi, FiniteSetTheorems, WellFoundedInduction, TLAPS

-----------------------------------------------------------------------------
(* Numbers.                                                                 *)

LEMMA Quotient ==
  ASSUME NEW a \in Nat, NEW d \in Nat \ {0}
  PROVE  /\ a \div d \in Nat /\ a % d \in 0..d - 1
         /\ a = (a \div d) * d + (a % d)
OBVIOUS

\* A quotient is unique.
LEMMA QuotientUnique ==
  ASSUME NEW d \in Nat \ {0}, NEW q \in Int, NEW p \in Int, NEW r \in 0..d - 1, NEW s \in 0..d - 1,
         q * d + r = p * d + s
  PROVE  q = p /\ r = s
<1>1. (q - p) * d = s - r
  OBVIOUS
<1>2. ASSUME q - p >= 1 PROVE FALSE
  <2>1. (q - p) * d >= d
    BY <1>2
  <2> QED
    BY <1>1, <2>1
<1>3. ASSUME q - p <= -1 PROVE FALSE
  <2>1. (q - p) * d <= -d
    BY <1>3
  <2> QED
    BY <1>1, <2>1
<1>4. q = p
  BY <1>2, <1>3
<1> QED
  BY <1>1, <1>4

LEMMA Multiple ==
  ASSUME NEW k \in Nat, NEW d \in Nat \ {0}
  PROVE  (k * d) % d = 0
<1> DEFINE a == k * d
<1>1. a \in Nat
  OBVIOUS
<1> HIDE DEF a
<1>2. /\ a \div d \in Int /\ a % d \in 0..d - 1
      /\ a = (a \div d) * d + (a % d)
  BY <1>1, Quotient
<1>3. k * d + 0 = (a \div d) * d + (a % d)
  <2>1. a = k * d /\ k * d + 0 = k * d
    BY DEF a
  <2> QED
    BY <1>2, <2>1
<1>4. 0 \in 0..d - 1 /\ k \in Int
  OBVIOUS
<1> QED
  BY <1>2, <1>3, <1>4, QuotientUnique DEF a

LEMMA Divides ==
  ASSUME NEW a \in Nat, NEW d \in Nat \ {0}
  PROVE  a % d = 0 <=> \E k \in Nat : a = k * d
<1>1. a % d = 0 => a = (a \div d) * d /\ a \div d \in Nat
  BY Quotient
<1>2. ASSUME NEW k \in Nat, a = k * d PROVE a % d = 0
  BY <1>2, Multiple
<1> QED
  BY <1>1, <1>2

LEMMA DividesSum ==
  ASSUME NEW a \in Nat, NEW b \in Nat, NEW d \in Nat \ {0}, a % d = 0, b % d = 0
  PROVE  (a + b) % d = 0
<1>1. PICK k \in Nat : a = k * d
  BY Divides
<1>2. PICK m \in Nat : b = m * d
  BY Divides
<1>3. a + b = (k + m) * d /\ k + m \in Nat
  BY <1>1, <1>2
<1> QED
  BY <1>3, Multiple

LEMMA DividesTransitive ==
  ASSUME NEW a \in Nat, NEW b \in Nat \ {0}, NEW d \in Nat \ {0}, a % b = 0, b % d = 0
  PROVE  a % d = 0
<1>1. PICK k \in Nat : a = k * b
  BY Divides
<1>2. PICK m \in Nat : b = m * d
  BY Divides
<1>3. a = (k * m) * d /\ k * m \in Nat
  BY <1>1, <1>2
<1> QED
  BY <1>3, Multiple

LEMMA DividesProduct ==
  ASSUME NEW a \in Nat, NEW k \in Nat, NEW d \in Nat \ {0}, a % d = 0
  PROVE  k * a \in Nat /\ (k * a) % d = 0
<1>1. PICK m \in Nat : a = m * d
  BY Divides
<1>2. k * m \in Nat
  OBVIOUS
<1>3. k * a = (k * m) * d
  BY <1>1
<1>4. ((k * m) * d) % d = 0
  BY <1>2, Multiple
<1>5. k * a \in Nat
  OBVIOUS
<1> QED
  BY <1>3, <1>4, <1>5

\* What the rounding of size_t returns: a multiple of the alignment that is zero or not
\* below the number, and is not zero unless it wraps.
LEMMA RoundUpIs ==
  ASSUME NEW n \in Nat, NEW a \in Nat \ {0}, (SIZE_MAX + 1) % a = 0
  PROVE  /\ RoundUp(n, a) \in 0..SIZE_MAX
         /\ RoundUp(n, a) % a = 0
         /\ n <= SIZE_MAX /\ RoundUp(n, a) # 0 => RoundUp(n, a) >= n
         /\ n + a - 1 <= SIZE_MAX => RoundUp(n, a) >= n /\ RoundUp(n, a) <= n + a - 1
<1> DEFINE M == SIZE_MAX + 1
           q == (n + a - 1) \div a
           c == q * a
           k == c \div M
           r == c % M
<1>0. SIZE_MAX \in Nat \ {0} /\ M \in Nat \ {0}
  BY ParamAssumption
<1>1. RoundUp(n, a) = r
  BY DEF RoundUp
<1>2. /\ q \in Nat /\ (n + a - 1) % a \in 0..a - 1
      /\ n + a - 1 = q * a + ((n + a - 1) % a)
  <2>1. n + a - 1 \in Nat
    OBVIOUS
  <2> QED
    BY <2>1, Quotient
<1>3. c \in Nat /\ c >= n /\ c <= n + a - 1
  BY <1>2
<1> HIDE DEF q
<1>4. PICK m \in Nat : M = m * a
  BY <1>0, Divides
<1>5. k \in Nat /\ r \in 0..M - 1 /\ c = k * M + r
  <2> HIDE DEF c, M
  <2> QED
    BY <1>0, <1>3, Quotient
<1> HIDE DEF r, k
<1>6. r = (q - k * m) * a
  <2>1. k * M = (k * m) * a
    BY <1>4, <1>5
  <2> QED
    BY <1>2, <1>5, <2>1
<1>7. q - k * m \in Nat
  <2>1. q - k * m \in Int
    BY <1>2, <1>4, <1>5
  <2>2. ASSUME q - k * m < 0 PROVE FALSE
    <3>1. (q - k * m) * a < 0
      BY <2>1, <2>2
    <3> QED
      BY <1>5, <1>6, <3>1, <1>0
  <2> QED
    BY <2>1, <2>2
<1>8. r % a = 0
  BY <1>6, <1>7, Multiple
<1>9. n + a - 1 <= SIZE_MAX => r = c
  <2> SUFFICES ASSUME n + a - 1 <= SIZE_MAX PROVE r = c
    OBVIOUS
  <2>1. c \in 0..M - 1
    BY <1>0, <1>3
  <2>2. 0 * M + c = k * M + r
    BY <1>5, <1>3, <1>0
  <2> HIDE DEF c, M
  <2> QED
    BY <1>0, <1>5, <2>1, <2>2, QuotientUnique
<1>10. ASSUME n <= SIZE_MAX, r # 0 PROVE r >= n
  <2>1. CASE k = 0
    BY <1>0, <1>3, <1>5, <2>1
  <2>2. CASE k >= 1
    <3>1. k * M >= M
      BY <1>0, <1>5, <2>2
    <3>2. r <= c - M
      BY <1>0, <1>3, <1>5, <3>1
    <3>3. r < a
      BY <1>0, <1>3, <1>10, <3>2, <1>5
    <3>4. q - k * m # 0
      BY <1>6, <1>10
    <3>5. (q - k * m) * a >= a
      BY <1>7, <3>4
    <3> QED
      BY <1>6, <3>3, <3>5, <1>5, <1>0
  <2> QED
    BY <1>5, <2>1, <2>2
<1> QED
  BY <1>0, <1>1, <1>3, <1>5, <1>8, <1>9, <1>10

-----------------------------------------------------------------------------
(* The vector arena of Pomai: its invariant.                                *)

PomaiPcs == {"idle", "bump", "check", "lock", "locked", "store", "rollback"}
PomaiRecords == [total : Nat \ {0}, capacity : Nat, shared : BOOLEAN, use_os_reserve : BOOLEAN,
                 offset : Nat, committed : Nat, commit_lock : BOOLEAN]
PomaiThreads == [pc : PomaiPcs, size : Nat, old : Nat, new : Nat]

PomaiTypeOK ==
  /\ pomai \in PomaiRecords \cup {NoPomai}
  /\ pomai_live \subseteq Nat \X Nat
  /\ pomai_th \in [Threads -> PomaiThreads]

\* A thread between its bump of the pointer and its return has the range it bumped over.
PomaiOwning == {"check", "lock", "locked", "store", "rollback"}
PomaiOwns(t) == pomai_th[t].pc \in PomaiOwning

Aligned(n) == n % ALIGN = 0
Apart(i, m, j, n) == i + m <= j \/ j + n <= i
InPomai(i, n) == i >= PAGE /\ n > 0 /\ Aligned(i) /\ i + n <= pomai.offset

\* The ranges of vectors and of threads are apart, behind the header and below the pointer.
PomaiApart ==
  /\ \A v, w \in pomai_live : v # w => Apart(v[1], v[2], w[1], w[2])
  /\ \A t \in Threads : PomaiOwns(t) =>
       \A v \in pomai_live : Apart(pomai_th[t].old, pomai_th[t].size, v[1], v[2])
  /\ \A t, u \in Threads : PomaiOwns(t) /\ PomaiOwns(u) /\ t # u =>
       Apart(pomai_th[t].old, pomai_th[t].size, pomai_th[u].old, pomai_th[u].size)

PomaiPlaced ==
  /\ \A v \in pomai_live : InPomai(v[1], v[2])
  /\ \A t \in Threads : PomaiOwns(t) => InPomai(pomai_th[t].old, pomai_th[t].size)

\* What a thread in a call knows, of an arena and the committed offsets.
PomaiCallOK(th, arena, os) ==
  /\ th.size > 0 /\ Aligned(th.size) /\ th.old >= PAGE /\ Aligned(th.old)
  /\ th.new = th.old + th.size /\ th.new <= PAGE + arena.capacity
  /\ th.pc \in PomaiOwning => arena.use_os_reserve
  /\ th.pc = "store" => PAGE..Smaller(RoundUp(th.new, GRAIN), arena.total) - 1 \subseteq os

PomaiCalls ==
  \A t \in Threads : pomai_th[t].pc # "idle" => PomaiCallOK(pomai_th[t], pomai, pomai_os)

\* The memory below the watermark is committed, and so is that of every vector.
PomaiMemory ==
  /\ PAGE + pomai.capacity <= pomai.total
  /\ pomai.offset >= PAGE /\ pomai.offset <= PAGE + pomai.capacity /\ Aligned(pomai.offset)
  /\ PAGE..pomai.committed - 1 \subseteq pomai_os
  /\ ~pomai.use_os_reserve => pomai.committed = pomai.total
  /\ \A v \in pomai_live : PAGE..v[1] + v[2] - 1 \subseteq pomai_os

PomaiInv ==
  /\ PomaiTypeOK
  /\ PomaiCreated => PomaiApart /\ PomaiPlaced /\ PomaiCalls /\ PomaiMemory
  /\ ~PomaiCreated => pomai_live = {} /\ PomaiQuiet

LEMMA PomaiSizes ==
  /\ PAGE \in Nat \ {0} /\ GRAIN \in Nat \ {0} /\ SIZE_MAX \in Nat \ {0} /\ ALIGN \in Nat \ {0}
  /\ (SIZE_MAX + 1) % GRAIN = 0 /\ (SIZE_MAX + 1) % PAGE = 0 /\ (SIZE_MAX + 1) % ALIGN = 0
  /\ Aligned(PAGE)
<1>1. /\ PAGE \in Nat \ {0} /\ GRAIN \in Nat \ {0} /\ SIZE_MAX \in Nat \ {0} /\ ALIGN \in Nat \ {0}
      /\ SIZE_MAX + 1 \in Nat
  BY ParamAssumption, PomaiAssumption
<1>2. (SIZE_MAX + 1) % GRAIN = 0 /\ GRAIN % PAGE = 0 /\ PAGE % ALIGN = 0
  BY ParamAssumption, PomaiAssumption
<1>3. (SIZE_MAX + 1) % PAGE = 0
  BY <1>1, <1>2, DividesTransitive
<1>4. (SIZE_MAX + 1) % ALIGN = 0
  BY <1>1, <1>2, <1>3, DividesTransitive
<1> QED
  BY <1>1, <1>2, <1>3, <1>4 DEF Aligned

LEMMA AlignedSum ==
  ASSUME NEW i \in Nat, NEW n \in Nat, Aligned(i), Aligned(n)
  PROVE  Aligned(i + n)
BY PomaiSizes, DividesSum DEF Aligned

\* The size of a vector that passes the checks.
LEMMA PomaiFits ==
  ASSUME NEW r \in Requests, VectorFits(r[1], r[2])
  PROVE  LET size == RoundUp(VectorSize(r[1], r[2]), ALIGN)
         IN size \in Nat \ {0} /\ Aligned(size)
<1> DEFINE n == VectorSize(r[1], r[2])
           size == RoundUp(n, ALIGN)
<1>1. n \in Nat
  BY PomaiSizes, PomaiAssumption DEF VectorSize
<1>2. n # 0 /\ size >= n
  BY DEF VectorFits
<1> HIDE DEF n
<1>3. size \in 0..SIZE_MAX /\ size % ALIGN = 0
  BY <1>1, PomaiSizes, RoundUpIs
<1> QED
  BY <1>1, <1>2, <1>3, PomaiSizes DEF Aligned, n

LEMMA NewCommittedIs ==
  ASSUME PomaiTypeOK, PomaiCreated, NEW need \in Nat, need <= pomai.total
  PROVE  /\ NewCommitted(need) \in Nat /\ NewCommitted(need) <= pomai.total
         /\ CommitFits(need) => NewCommitted(need) >= need
<1>1. RoundUp(need, GRAIN) \in Nat
  BY PomaiSizes, RoundUpIs
<1>2. pomai.total \in Nat
  BY DEF PomaiTypeOK, PomaiRecords, PomaiCreated
<1> QED
  BY <1>1, <1>2 DEF NewCommitted, CommitFits, Smaller

-----------------------------------------------------------------------------
(* The ranges under the steps of a thread.                                  *)

\* The thread keeps its range, or lets it go, or has none.
LEMMA PomaiKeeps ==
  ASSUME PomaiTypeOK, PomaiApart, PomaiPlaced, NEW t \in Threads, NEW r \in PomaiThreads,
         pomai_th' = [pomai_th EXCEPT ![t] = r], pomai_live' = pomai_live,
         pomai'.offset = pomai.offset,
         r.pc \in PomaiOwning => /\ PomaiOwns(t)
                                 /\ r.old = pomai_th[t].old /\ r.size = pomai_th[t].size
  PROVE  PomaiApart' /\ PomaiPlaced'
<1>1. \A u \in Threads : pomai_th'[u] = IF u = t THEN r ELSE pomai_th[u]
  BY DEF PomaiTypeOK
<1>2. \A u \in Threads : PomaiOwns(u)' =>
        PomaiOwns(u) /\ pomai_th'[u].old = pomai_th[u].old /\ pomai_th'[u].size = pomai_th[u].size
  BY <1>1 DEF PomaiOwns
<1>3. \A i, n : InPomai(i, n)' <=> InPomai(i, n)
  BY DEF InPomai, Aligned
<1>4. PomaiApart'
  BY <1>2 DEF PomaiApart, Apart
<1>5. PomaiPlaced'
  BY <1>2, <1>3 DEF PomaiPlaced
<1> QED
  BY <1>4, <1>5

\* The thread returns its range to the client.
LEMMA PomaiGives ==
  ASSUME PomaiTypeOK, PomaiApart, PomaiPlaced, NEW t \in Threads, PomaiOwns(t),
         pomai_th' = [pomai_th EXCEPT ![t] = PomaiIdle],
         pomai_live' = pomai_live \cup {<<pomai_th[t].old, pomai_th[t].size>>},
         pomai'.offset = pomai.offset
  PROVE  PomaiApart' /\ PomaiPlaced'
<1>1. \A u \in Threads : pomai_th'[u] = IF u = t THEN PomaiIdle ELSE pomai_th[u]
  BY DEF PomaiTypeOK
<1>2. \A u \in Threads : PomaiOwns(u)' => u # t /\ PomaiOwns(u) /\ pomai_th'[u] = pomai_th[u]
  BY <1>1 DEF PomaiOwns, PomaiOwning, PomaiIdle
<1>3. \A i, n : InPomai(i, n)' <=> InPomai(i, n)
  BY DEF InPomai, Aligned
<1> DEFINE new == <<pomai_th[t].old, pomai_th[t].size>>
<1>4. new[1] = pomai_th[t].old /\ new[2] = pomai_th[t].size
  OBVIOUS
<1> HIDE DEF new
<1>5. pomai_live' = pomai_live \cup {new}
  BY DEF new
<1>6. \A v, w \in pomai_live' : v # w => Apart(v[1], v[2], w[1], w[2])
  <2>1. \A v \in pomai_live : Apart(new[1], new[2], v[1], v[2]) /\ Apart(v[1], v[2], new[1], new[2])
    BY <1>4 DEF PomaiApart, Apart
  <2> QED
    BY <1>5, <2>1 DEF PomaiApart
<1>7. PomaiApart'
  <2>1. \A u \in Threads : PomaiOwns(u)' => \A v \in pomai_live' :
          Apart(pomai_th'[u].old, pomai_th'[u].size, v[1], v[2])
    BY <1>2, <1>4, <1>5 DEF PomaiApart
  <2>2. \A u, x \in Threads : PomaiOwns(u)' /\ PomaiOwns(x)' /\ u # x =>
       Apart(pomai_th'[u].old, pomai_th'[u].size, pomai_th'[x].old, pomai_th'[x].size)
    BY <1>2 DEF PomaiApart
  <2> QED
    BY <1>6, <2>1, <2>2 DEF PomaiApart, Apart
<1>8. PomaiPlaced'
  BY <1>2, <1>3, <1>4, <1>5 DEF PomaiPlaced
<1> QED
  BY <1>7, <1>8

\* The pointer moves over a new range, which the thread has then.
LEMMA PomaiTakes ==
  ASSUME PomaiTypeOK, PomaiTypeOK', PomaiApart, PomaiPlaced, NEW t \in Threads,
         NEW r \in PomaiThreads, ~PomaiOwns(t),
         pomai_th' = [pomai_th EXCEPT ![t] = r], pomai_live' = pomai_live,
         pomai.offset \in Nat, pomai.offset >= PAGE, Aligned(pomai.offset),
         r.old = pomai.offset, r.size > 0, pomai'.offset = pomai.offset + r.size
  PROVE  PomaiApart' /\ PomaiPlaced'
<1>1. \A u \in Threads : pomai_th'[u] = IF u = t THEN r ELSE pomai_th[u]
  BY DEF PomaiTypeOK
<1>2. r.old \in Nat /\ r.size \in Nat /\ PAGE \in Nat
  BY PomaiSizes DEF PomaiThreads
<1>3. /\ \A v \in pomai_live : v[1] \in Nat /\ v[2] \in Nat /\ v[1] + v[2] <= r.old /\ InPomai(v[1], v[2])
      /\ \A u \in Threads : PomaiOwns(u) =>
           /\ pomai_th[u].old \in Nat /\ pomai_th[u].size \in Nat
           /\ pomai_th[u].old + pomai_th[u].size <= r.old
           /\ InPomai(pomai_th[u].old, pomai_th[u].size)
  BY DEF PomaiPlaced, InPomai, PomaiTypeOK, PomaiThreads
<1>4. InPomai(r.old, r.size)'
  BY <1>2 DEF InPomai, Aligned
<1>5. \A i, n \in Nat : InPomai(i, n) => InPomai(i, n)'
  BY <1>2 DEF InPomai, Aligned
<1>6. \A u \in Threads : u # t => (PomaiOwns(u)' <=> PomaiOwns(u))
  BY <1>1 DEF PomaiOwns
<1>7. PomaiPlaced'
  BY <1>1, <1>3, <1>4, <1>5, <1>6 DEF PomaiPlaced
<1>8. \A i, n \in Nat : i + n <= r.old => Apart(i, n, r.old, r.size) /\ Apart(r.old, r.size, i, n)
  BY <1>2 DEF Apart
<1>9. PomaiApart'
  <2>1. \A u \in Threads : PomaiOwns(u)' => \A v \in pomai_live :
          Apart(pomai_th'[u].old, pomai_th'[u].size, v[1], v[2])
    BY <1>1, <1>3, <1>6, <1>8 DEF PomaiApart
  <2>2. \A u, x \in Threads : PomaiOwns(u)' /\ PomaiOwns(x)' /\ u # x =>
       Apart(pomai_th'[u].old, pomai_th'[u].size, pomai_th'[x].old, pomai_th'[x].size)
    BY <1>1, <1>3, <1>6, <1>8 DEF PomaiApart
  <2> QED
    BY <2>1, <2>2 DEF PomaiApart, Apart
<1> QED
  BY <1>7, <1>9

\* The pointer moves over a new range that goes to the client at once.
LEMMA PomaiHands ==
  ASSUME PomaiTypeOK, PomaiApart, PomaiPlaced, NEW size \in Nat \ {0},
         pomai_live' = pomai_live \cup {<<pomai.offset, size>>},
         \A u \in Threads : PomaiOwns(u)' => PomaiOwns(u) /\ pomai_th'[u] = pomai_th[u],
         pomai.offset \in Nat, pomai.offset >= PAGE, Aligned(pomai.offset),
         pomai'.offset = pomai.offset + size
  PROVE  PomaiApart' /\ PomaiPlaced'
<1>2. pomai.offset \in Nat /\ PAGE \in Nat
  BY PomaiSizes
<1>3. /\ \A v \in pomai_live : v[1] \in Nat /\ v[2] \in Nat /\ v[1] + v[2] <= pomai.offset /\ InPomai(v[1], v[2])
      /\ \A u \in Threads : PomaiOwns(u) =>
           /\ pomai_th[u].old \in Nat /\ pomai_th[u].size \in Nat
           /\ pomai_th[u].old + pomai_th[u].size <= pomai.offset
           /\ InPomai(pomai_th[u].old, pomai_th[u].size)
  BY DEF PomaiPlaced, InPomai, PomaiTypeOK, PomaiThreads
<1>4. \A i \in Nat : i = pomai.offset => InPomai(i, size)'
  BY <1>2 DEF InPomai, Aligned
<1>5. \A i, n \in Nat : InPomai(i, n) => InPomai(i, n)'
  BY <1>2 DEF InPomai, Aligned
<1> DEFINE new == <<pomai.offset, size>>
<1>6. new[1] = pomai.offset /\ new[2] = size
  OBVIOUS
<1> HIDE DEF new
<1>7. pomai_live' = pomai_live \cup {new}
  BY DEF new
<1>8. PomaiPlaced'
  <2>1. \A v \in Nat \X Nat : v = new => InPomai(v[1], v[2])'
    BY <1>4, <1>6
  <2>2. \A v \in pomai_live : InPomai(v[1], v[2])'
    BY <1>3, <1>5
  <2>3. \A u \in Threads : PomaiOwns(u)' => InPomai(pomai_th[u].old, pomai_th[u].size)'
    BY <1>3, <1>5
  <2> QED
    BY <1>7, <2>1, <2>2, <2>3 DEF PomaiPlaced, InPomai, new
<1>9. \A i, n \in Nat : i + n <= pomai.offset =>
        Apart(i, n, new[1], new[2]) /\ Apart(new[1], new[2], i, n)
  BY <1>2, <1>6 DEF Apart
<1>10. PomaiApart'
  <2>1. \A v, w \in pomai_live' : v # w => Apart(v[1], v[2], w[1], w[2])
    BY <1>3, <1>7, <1>9 DEF PomaiApart
  <2>2. \A u \in Threads : PomaiOwns(u)' => \A v \in pomai_live' :
          Apart(pomai_th[u].old, pomai_th[u].size, v[1], v[2])
    BY <1>3, <1>7, <1>9 DEF PomaiApart
  <2>3. \A u, x \in Threads : PomaiOwns(u)' /\ PomaiOwns(x)' /\ u # x =>
       Apart(pomai_th[u].old, pomai_th[u].size, pomai_th[x].old, pomai_th[x].size)
    BY DEF PomaiApart
  <2> QED
    BY <2>1, <2>2, <2>3 DEF PomaiApart, Apart
<1> QED
  BY <1>8, <1>10

\* The pointer is set back over the range of the thread, if nobody bumped it after it.
LEMMA PomaiTakesBack ==
  ASSUME PomaiTypeOK, PomaiApart, PomaiPlaced, NEW t \in Threads, PomaiOwns(t),
         pomai_th' = [pomai_th EXCEPT ![t] = PomaiIdle], pomai_live' = pomai_live,
         pomai.offset \in Nat, pomai.offset = pomai_th[t].old + pomai_th[t].size,
         pomai'.offset = pomai_th[t].old
  PROVE  PomaiApart' /\ PomaiPlaced'
<1>1. \A u \in Threads : pomai_th'[u] = IF u = t THEN PomaiIdle ELSE pomai_th[u]
  BY DEF PomaiTypeOK
<1>2. \A u \in Threads : PomaiOwns(u)' => u # t /\ PomaiOwns(u) /\ pomai_th'[u] = pomai_th[u]
  BY <1>1 DEF PomaiOwns, PomaiOwning, PomaiIdle
<1>3. PomaiApart'
  BY <1>2 DEF PomaiApart, Apart
<1>4. pomai_th[t].old \in Nat /\ pomai_th[t].size \in Nat /\ PAGE \in Nat
  BY PomaiSizes DEF PomaiTypeOK, PomaiThreads
<1>5. ASSUME NEW i \in Nat, NEW n \in Nat, InPomai(i, n), Apart(pomai_th[t].old, pomai_th[t].size, i, n)
      PROVE  InPomai(i, n)'
  BY <1>4, <1>5 DEF InPomai, Apart, Aligned
<1>6. PomaiPlaced'
  <2>1. \A v \in pomai_live : v[1] \in Nat /\ v[2] \in Nat
    BY DEF PomaiTypeOK
  <2>2. \A u \in Threads : pomai_th[u].old \in Nat /\ pomai_th[u].size \in Nat
    BY DEF PomaiTypeOK, PomaiThreads
  <2>3. \A v \in pomai_live : InPomai(v[1], v[2])'
    BY <1>5, <2>1 DEF PomaiApart, PomaiPlaced
  <2>4. \A u \in Threads : PomaiOwns(u)' => InPomai(pomai_th[u].old, pomai_th[u].size)'
    BY <1>2, <1>5, <2>2 DEF PomaiApart, PomaiPlaced
  <2> QED
    BY <1>2, <2>3, <2>4 DEF PomaiPlaced, InPomai
<1> QED
  BY <1>3, <1>6

-----------------------------------------------------------------------------
(* The steps.                                                               *)

\* The calls of the other threads go on when the arena keeps its size, and the OS
\* takes no memory back.
LEMMA PomaiCallsKept ==
  ASSUME PomaiTypeOK, PomaiCalls, NEW t \in Threads, NEW r \in PomaiThreads,
         pomai_th' = [pomai_th EXCEPT ![t] = r],
         pomai'.capacity = pomai.capacity, pomai'.total = pomai.total,
         pomai'.use_os_reserve = pomai.use_os_reserve, pomai_os \subseteq pomai_os',
         r.pc # "idle" => PomaiCallOK(r, pomai', pomai_os')
  PROVE  PomaiCalls'
<1>1. \A u \in Threads : pomai_th'[u] = IF u = t THEN r ELSE pomai_th[u]
  BY DEF PomaiTypeOK
<1>2. \A th \in PomaiThreads : PomaiCallOK(th, pomai, pomai_os) => PomaiCallOK(th, pomai', pomai_os')
  BY DEF PomaiCallOK
<1>3. \A u \in Threads : pomai_th[u] \in PomaiThreads
  BY DEF PomaiTypeOK
<1> QED
  BY <1>1, <1>2, <1>3 DEF PomaiCalls

LEMMA PomaiIdleIs ==
  PomaiIdle \in PomaiThreads /\ PomaiIdle.pc = "idle" /\ PomaiIdle.pc \notin PomaiOwning
BY DEF PomaiIdle, PomaiThreads, PomaiPcs, PomaiOwning

\* The arena while it is created.
LEMMA PomaiRecordIs ==
  ASSUME PomaiTypeOK, PomaiCreated
  PROVE  /\ pomai \in PomaiRecords
         /\ pomai.total \in Nat \ {0} /\ pomai.capacity \in Nat /\ pomai.offset \in Nat
         /\ pomai.committed \in Nat
         /\ \A rec \in PomaiRecords : rec # NoPomai
<1>1. \A rec \in PomaiRecords : rec.total # 0
  BY DEF PomaiRecords
<1>2. NoPomai.total = 0
  BY DEF NoPomai
<1> QED
  BY <1>1, <1>2 DEF PomaiTypeOK, PomaiCreated, PomaiRecords

LEMMA PomaiAllocInv ==
  ASSUME PomaiInv, NEW t \in Threads, NEW q \in Requests, PomaiAlloc(t, q[1], q[2])
  PROVE  PomaiInv'
<1> DEFINE size == RoundUp(VectorSize(q[1], q[2]), ALIGN)
           r == [pc |-> "bump", size |-> size, old |-> pomai.offset, new |-> pomai.offset + size]
<1>0. /\ PomaiCreated /\ pomai_th[t].pc = "idle" /\ VectorFits(q[1], q[2]) /\ Bumps(pomai.offset, size)
      /\ pomai_th' = [pomai_th EXCEPT ![t] = r]
      /\ pomai' = pomai /\ pomai_os' = pomai_os /\ pomai_live' = pomai_live
  BY DEF PomaiAlloc, PomaiAt
<1>1. size \in Nat \ {0} /\ Aligned(size)
  BY <1>0, PomaiFits
<1> HIDE DEF size
<1>2. PomaiTypeOK /\ PomaiApart /\ PomaiPlaced /\ PomaiCalls /\ PomaiMemory
  BY <1>0 DEF PomaiInv
<1>3. /\ r \in PomaiThreads /\ r.pc = "bump" /\ r.size = size /\ r.old = pomai.offset
      /\ r.new = pomai.offset + size
  BY <1>0, <1>1, <1>2, PomaiRecordIs DEF PomaiThreads, PomaiPcs
<1>4. pomai.offset + size <= PAGE + pomai.capacity
  BY <1>0, <1>1, <1>2, PomaiRecordIs, PomaiSizes DEF Bumps, PomaiLimit, PayloadStart
<1>5. PomaiCallOK(r, pomai', pomai_os')
  BY <1>0, <1>1, <1>2, <1>3, <1>4 DEF PomaiCallOK, PomaiMemory, PomaiOwning
<1> HIDE DEF r
<1>6. PomaiTypeOK'
  BY <1>0, <1>2, <1>3 DEF PomaiTypeOK
<1>7. PomaiCalls'
  BY <1>0, <1>2, <1>3, <1>5, PomaiCallsKept
<1>8. PomaiApart' /\ PomaiPlaced'
  BY <1>0, <1>2, <1>3, PomaiKeeps DEF PomaiOwning
<1>9. PomaiMemory'
  BY <1>0, <1>2 DEF PomaiMemory, Aligned
<1> QED
  BY <1>0, <1>6, <1>7, <1>8, <1>9 DEF PomaiInv, PomaiCreated

LEMMA PomaiAllocSingleInv ==
  ASSUME PomaiInv, NEW t \in Threads, NEW q \in Requests, PomaiAllocSingle(t, q[1], q[2])
  PROVE  PomaiInv'
<1> DEFINE size == RoundUp(VectorSize(q[1], q[2]), ALIGN)
           new == pomai.offset + size
           enough == ~pomai.use_os_reserve \/ new <= pomai.committed
           C == IF enough THEN pomai.committed ELSE NewCommitted(new)
<1>0. /\ PomaiCreated /\ PomaiQuiet /\ VectorFits(q[1], q[2]) /\ Bumps(pomai.offset, size)
      /\ pomai' = [pomai EXCEPT !.offset = new, !.committed = C]
      /\ IF enough THEN pomai_os' = pomai_os ELSE CommitFits(new) /\ PrimCommits(pomai.committed, NewCommitted(new))
      /\ pomai_live' = pomai_live \cup {<<pomai.offset, size>>} /\ pomai_th' = pomai_th
  BY DEF PomaiAllocSingle
<1>1. size \in Nat \ {0} /\ Aligned(size)
  BY <1>0, PomaiFits
<1> HIDE DEF size
<1>2. PomaiTypeOK /\ PomaiApart /\ PomaiPlaced /\ PomaiCalls /\ PomaiMemory
  BY <1>0 DEF PomaiInv
<1>3. /\ pomai \in PomaiRecords /\ pomai.offset \in Nat /\ pomai.capacity \in Nat /\ pomai.total \in Nat
      /\ pomai.committed \in Nat /\ PAGE \in Nat
  BY <1>0, <1>2, PomaiRecordIs, PomaiSizes
<1>4. new \in Nat /\ new <= PAGE + pomai.capacity /\ new <= pomai.total
  BY <1>0, <1>1, <1>2, <1>3 DEF Bumps, PomaiLimit, PayloadStart, PomaiMemory
<1>5. C \in Nat /\ (~enough => C >= new)
  BY <1>0, <1>2, <1>3, <1>4, NewCommittedIs
<1>6. /\ pomai' \in PomaiRecords /\ pomai'.offset = new /\ pomai'.committed = C
      /\ pomai'.capacity = pomai.capacity /\ pomai'.total = pomai.total
      /\ pomai'.use_os_reserve = pomai.use_os_reserve
  BY <1>0, <1>3, <1>4, <1>5 DEF PomaiRecords
<1>7. PomaiTypeOK'
  BY <1>0, <1>1, <1>2, <1>3, <1>6 DEF PomaiTypeOK
<1>8. PomaiApart' /\ PomaiPlaced'
  <2>1. \A u \in Threads : PomaiOwns(u)' => PomaiOwns(u) /\ pomai_th'[u] = pomai_th[u]
    BY <1>0 DEF PomaiOwns
  <2> QED
    BY <1>0, <1>1, <1>2, <1>3, <1>6, <2>1, PomaiHands DEF PomaiMemory
<1>9. PomaiCalls'
  BY <1>0 DEF PomaiCalls, PomaiQuiet
<1>10. Aligned(new)
  BY <1>1, <1>2, <1>3, AlignedSum DEF PomaiMemory
<1>11. /\ pomai_os \subseteq pomai_os' /\ PAGE..C - 1 \subseteq pomai_os'
       /\ PAGE..new - 1 \subseteq pomai_os'
  <2>1. CASE enough
    <3>1. C = pomai.committed /\ pomai_os' = pomai_os
      BY <1>0, <2>1
    <3>2. new <= pomai.committed
      BY <1>2, <1>3, <1>4, <2>1 DEF PomaiMemory
    <3> QED
      BY <1>2, <1>3, <1>4, <3>1, <3>2 DEF PomaiMemory
  <2>2. CASE ~enough
    <3>1. C = NewCommitted(new) /\ pomai_os' = pomai_os \cup Extent(pomai.committed, C - pomai.committed)
      BY <1>0, <2>2 DEF PrimCommits
    <3>2. pomai.committed..C - 1 \subseteq pomai_os'
      BY <3>1, <1>3, <1>5 DEF Extent
    <3>3. PAGE..C - 1 \subseteq (PAGE..pomai.committed - 1) \cup (pomai.committed..C - 1)
      BY <1>3, <1>5
    <3>4. PAGE..new - 1 \subseteq PAGE..C - 1
      BY <1>3, <1>4, <1>5, <2>2
    <3>5. PAGE..pomai.committed - 1 \subseteq pomai_os'
      BY <1>2, <3>1 DEF PomaiMemory
    <3>6. PAGE..C - 1 \subseteq pomai_os'
      BY <3>2, <3>3, <3>5
    <3> QED
      BY <3>1, <3>4, <3>6
  <2> QED
    BY <2>1, <2>2
<1>12. PomaiMemory'
  <2>1. \A v \in pomai_live' : PAGE..v[1] + v[2] - 1 \subseteq pomai_os'
    <3>1. \A v \in pomai_live : PAGE..v[1] + v[2] - 1 \subseteq pomai_os'
      BY <1>2, <1>11 DEF PomaiMemory
    <3>2. \A v : v = <<pomai.offset, size>> => v[1] + v[2] = new
      OBVIOUS
    <3>3. PAGE..new - 1 \subseteq pomai_os' /\ pomai_live' = pomai_live \cup {<<pomai.offset, size>>}
      BY <1>0, <1>11
    <3> HIDE DEF new
    <3>4. ASSUME NEW v \in pomai_live' PROVE PAGE..v[1] + v[2] - 1 \subseteq pomai_os'
      <4>1. CASE v \in pomai_live
        BY <3>1, <4>1
      <4>2. CASE v = <<pomai.offset, size>>
        <5>1. v[1] + v[2] = new /\ v[1] \in Nat /\ v[2] \in Nat
          BY <1>1, <1>3, <3>2, <4>2
        <5>2. PAGE..v[1] + v[2] - 1 = PAGE..new - 1
          BY <5>1
        <5> QED
          BY <3>3, <5>2
      <4> QED
        BY <3>3, <4>1, <4>2
    <3> QED
      BY <3>4
  <2>2. ~pomai'.use_os_reserve => pomai'.committed = pomai'.total
    BY <1>2, <1>6 DEF PomaiMemory
  <2>3. pomai'.offset >= PAGE /\ pomai'.offset <= PAGE + pomai'.capacity
    BY <1>2, <1>1, <1>3, <1>4, <1>6 DEF PomaiMemory
  <2>4. Aligned(pomai.offset)'
    BY <1>6, <1>10 DEF Aligned
  <2> HIDE DEF C, new
  <2> QED
    BY <1>2, <1>6, <1>11, <2>1, <2>2, <2>3, <2>4 DEF PomaiMemory
<1>13. PomaiCreated'
  BY <1>0, <1>2, <1>6, PomaiRecordIs DEF PomaiCreated
<1> QED
  BY <1>7, <1>8, <1>9, <1>12, <1>13 DEF PomaiInv

LEMMA PomaiBumpInv ==
  ASSUME PomaiInv, NEW t \in Threads, PomaiBump(t)
  PROVE  PomaiInv'
<1> DEFINE r == pomai_th[t]
<1>0. PomaiCreated /\ r.pc = "bump" /\ pomai_os' = pomai_os
  BY DEF PomaiBump, PomaiAt
<1>1. PomaiTypeOK /\ PomaiApart /\ PomaiPlaced /\ PomaiCalls /\ PomaiMemory
  BY <1>0 DEF PomaiInv
<1>2. /\ pomai \in PomaiRecords /\ pomai.offset \in Nat /\ pomai.capacity \in Nat /\ pomai.total \in Nat
      /\ pomai.committed \in Nat /\ PAGE \in Nat
  BY <1>0, <1>1, PomaiRecordIs, PomaiSizes
<1>3. r \in PomaiThreads /\ PomaiCallOK(r, pomai, pomai_os) /\ ~PomaiOwns(t)
  BY <1>0, <1>1 DEF PomaiTypeOK, PomaiCalls, PomaiOwns, PomaiOwning
<1>4. /\ r.size \in Nat \ {0} /\ Aligned(r.size) /\ r.old \in Nat /\ r.new \in Nat
      /\ r.new = r.old + r.size /\ r.new <= PAGE + pomai.capacity
  BY <1>3 DEF PomaiCallOK, PomaiThreads
<1> HIDE DEF r
<1>5. CASE pomai.offset = r.old
  <2>0. pomai' = [pomai EXCEPT !.offset = r.new]
    BY <1>5 DEF PomaiBump, r
  <2>1. /\ pomai' \in PomaiRecords /\ pomai'.offset = r.new /\ pomai'.committed = pomai.committed
        /\ pomai'.capacity = pomai.capacity /\ pomai'.total = pomai.total
        /\ pomai'.use_os_reserve = pomai.use_os_reserve
    BY <1>2, <1>4, <2>0 DEF PomaiRecords
  <2>2. Aligned(r.new) /\ r.new >= PAGE
    BY <1>1, <1>2, <1>4, <1>5, AlignedSum DEF PomaiMemory
  <2>3. PomaiCreated'
    BY <1>0, <1>1, <2>1, PomaiRecordIs DEF PomaiCreated
  <2>4. CASE pomai.use_os_reserve
    <3> DEFINE n == [r EXCEPT !.pc = "check"]
    <3>0. pomai_th' = [pomai_th EXCEPT ![t] = n] /\ pomai_live' = pomai_live
      BY <1>5, <2>4, <1>1 DEF PomaiBump, PomaiGo, r, PomaiTypeOK
    <3>1. n \in PomaiThreads /\ n.pc = "check" /\ n.old = r.old /\ n.size = r.size /\ n.new = r.new
      BY <1>3 DEF PomaiThreads, PomaiPcs
    <3> HIDE DEF n
    <3>2. PomaiTypeOK'
      BY <1>1, <2>1, <3>0, <3>1 DEF PomaiTypeOK
    <3>3. PomaiApart' /\ PomaiPlaced'
      <4>1. /\ pomai.offset >= PAGE /\ Aligned(pomai.offset) /\ n.old = pomai.offset
            /\ n.size > 0 /\ pomai'.offset = pomai.offset + n.size
        BY <1>1, <1>4, <1>5, <2>1, <3>1 DEF PomaiMemory
      <4> QED
        BY <1>1, <1>2, <1>3, <3>0, <3>1, <3>2, <4>1, PomaiTakes
    <3>4. PomaiCallOK(n, pomai', pomai_os')
      BY <1>3, <2>1, <2>4, <3>1 DEF PomaiCallOK
    <3>5. PomaiCalls'
      BY <1>0, <1>1, <2>1, <3>0, <3>1, <3>4, PomaiCallsKept
    <3>6. Aligned(pomai.offset)'
      BY <2>1, <2>2 DEF Aligned
    <3>7. PomaiMemory'
      BY <1>0, <1>1, <1>4, <2>1, <2>2, <3>0, <3>6 DEF PomaiMemory
    <3> QED
      BY <2>3, <3>2, <3>3, <3>5, <3>7 DEF PomaiInv
  <2>5. CASE ~pomai.use_os_reserve
    <3>0. /\ pomai_th' = [pomai_th EXCEPT ![t] = PomaiIdle]
          /\ pomai_live' = pomai_live \cup {<<r.old, r.size>>}
      BY <1>5, <2>5 DEF PomaiBump, PomaiReturn, PomaiReturnNull, r
    <3>1. \A u \in Threads : pomai_th'[u] = IF u = t THEN PomaiIdle ELSE pomai_th[u]
      BY <1>1, <3>0 DEF PomaiTypeOK
    <3>2. PomaiTypeOK'
      BY <1>1, <1>4, <2>1, <3>0, PomaiIdleIs DEF PomaiTypeOK
    <3>3. PomaiApart' /\ PomaiPlaced'
      <4>1. \A u \in Threads : PomaiOwns(u)' => PomaiOwns(u) /\ pomai_th'[u] = pomai_th[u]
        BY <3>1, PomaiIdleIs DEF PomaiOwns
      <4> QED
        BY <1>1, <1>2, <1>4, <1>5, <2>1, <3>0, <4>1, PomaiHands DEF PomaiMemory
    <3>4. PomaiCalls'
      BY <1>0, <1>1, <2>1, <3>0, PomaiIdleIs, PomaiCallsKept
    <3>5. Aligned(pomai.offset)'
      BY <2>1, <2>2 DEF Aligned
    <3>6. PAGE..r.new - 1 \subseteq pomai_os
      BY <1>1, <1>2, <1>4, <2>5 DEF PomaiMemory
    <3>7. \A v \in pomai_live' : PAGE..v[1] + v[2] - 1 \subseteq pomai_os'
      BY <1>0, <1>1, <1>4, <3>0, <3>6 DEF PomaiMemory
    <3>8. PomaiMemory'
      BY <1>0, <1>1, <1>4, <2>1, <2>2, <3>5, <3>7 DEF PomaiMemory
    <3> QED
      BY <2>3, <3>2, <3>3, <3>4, <3>8 DEF PomaiInv
  <2> QED
    BY <2>4, <2>5
<1>6. CASE pomai.offset # r.old
  <2> DEFINE n == IF Bumps(pomai.offset, r.size)
                    THEN [r EXCEPT !.old = pomai.offset, !.new = pomai.offset + r.size]
                    ELSE PomaiIdle
  <2>0. pomai_th' = [pomai_th EXCEPT ![t] = n] /\ pomai' = pomai /\ pomai_live' = pomai_live
    BY <1>6, <1>1 DEF PomaiBump, PomaiReturnNull, r, PomaiTypeOK
  <2>1. n \in PomaiThreads /\ n.pc \notin PomaiOwning
    <3>1. r.pc = "bump"
      BY <1>0 DEF r
    <3>2. pomai.offset \in Nat /\ pomai.offset + r.size \in Nat
      BY <1>2, <1>4
    <3>3. /\ [r EXCEPT !.old = pomai.offset, !.new = pomai.offset + r.size] \in PomaiThreads
          /\ [r EXCEPT !.old = pomai.offset, !.new = pomai.offset + r.size].pc = "bump"
      BY <1>3, <3>1, <3>2 DEF PomaiThreads
    <3> QED
      BY <3>3, PomaiIdleIs DEF PomaiOwning
  <2>2. n.pc # "idle" => PomaiCallOK(n, pomai', pomai_os')
    <3>1. SUFFICES ASSUME Bumps(pomai.offset, r.size) PROVE PomaiCallOK(n, pomai', pomai_os')
      BY PomaiIdleIs
    <3>2. pomai.offset + r.size <= PAGE + pomai.capacity
      BY <1>2, <1>4, <3>1 DEF Bumps, PomaiLimit, PayloadStart
    <3>3. /\ n.pc = "bump" /\ n.size = r.size /\ n.old = pomai.offset
          /\ n.new = pomai.offset + r.size
      BY <1>0, <1>3, <3>1 DEF PomaiThreads, r
    <3> HIDE DEF n
    <3> QED
      BY <1>1, <1>4, <2>0, <3>2, <3>3 DEF PomaiCallOK, PomaiOwning, PomaiMemory
  <2> HIDE DEF n
  <2>3. PomaiTypeOK'
    BY <1>1, <2>0, <2>1 DEF PomaiTypeOK
  <2>4. PomaiApart' /\ PomaiPlaced'
    BY <1>1, <2>0, <2>1, PomaiKeeps
  <2>5. PomaiCalls'
    BY <1>0, <1>1, <2>0, <2>1, <2>2, PomaiCallsKept
  <2>6. PomaiMemory'
    BY <1>0, <1>1, <2>0 DEF PomaiMemory, Aligned
  <2> QED
    BY <1>0, <2>0, <2>3, <2>4, <2>5, <2>6 DEF PomaiInv, PomaiCreated
<1> QED
  BY <1>5, <1>6

\* A thread whose range is committed returns it.
LEMMA PomaiReturnInv ==
  ASSUME PomaiInv, PomaiCreated, NEW t \in Threads, PomaiOwns(t), PomaiReturn(t),
         pomai.committed >= pomai_th[t].new, pomai_os' = pomai_os,
         pomai' \in PomaiRecords, pomai'.offset = pomai.offset, pomai'.capacity = pomai.capacity,
         pomai'.total = pomai.total, pomai'.use_os_reserve = pomai.use_os_reserve,
         pomai'.committed = pomai.committed
  PROVE  PomaiInv'
<1>1. PomaiTypeOK /\ PomaiApart /\ PomaiPlaced /\ PomaiCalls /\ PomaiMemory
  BY DEF PomaiInv
<1>2. /\ pomai_th' = [pomai_th EXCEPT ![t] = PomaiIdle]
      /\ pomai_live' = pomai_live \cup {<<pomai_th[t].old, pomai_th[t].size>>}
  BY DEF PomaiReturn, PomaiReturnNull
<1>3. pomai_th[t] \in PomaiThreads /\ PomaiCallOK(pomai_th[t], pomai, pomai_os)
  BY <1>1 DEF PomaiTypeOK, PomaiCalls, PomaiOwns, PomaiOwning
<1>4. /\ pomai_th[t].old \in Nat /\ pomai_th[t].size \in Nat
      /\ pomai_th[t].new = pomai_th[t].old + pomai_th[t].size
      /\ pomai.committed \in Nat /\ PAGE \in Nat
  BY <1>1, <1>3, PomaiSizes, PomaiRecordIs DEF PomaiThreads, PomaiCallOK
<1>5. PomaiTypeOK'
  BY <1>1, <1>2, <1>4, PomaiIdleIs DEF PomaiTypeOK
<1>6. PomaiApart' /\ PomaiPlaced'
  BY <1>1, <1>2, PomaiGives
<1>7. PomaiCalls'
  BY <1>1, <1>2, PomaiIdleIs, PomaiCallsKept
<1>8. PAGE..pomai_th[t].old + pomai_th[t].size - 1 \subseteq pomai_os'
  <2>1. PAGE..pomai_th[t].old + pomai_th[t].size - 1 \subseteq PAGE..pomai.committed - 1
    BY <1>4
  <2> QED
    BY <1>1, <2>1 DEF PomaiMemory
<1>9. \A v \in pomai_live' : PAGE..v[1] + v[2] - 1 \subseteq pomai_os'
  BY <1>1, <1>2, <1>8 DEF PomaiMemory
<1>10. PomaiMemory'
  BY <1>1, <1>9 DEF PomaiMemory, Aligned
<1>11. PomaiCreated'
  BY <1>1, PomaiRecordIs DEF PomaiCreated
<1> QED
  BY <1>5, <1>6, <1>7, <1>10, <1>11 DEF PomaiInv

\* A thread that has bumped the pointer goes on.
LEMMA PomaiGoInv ==
  ASSUME PomaiInv, PomaiCreated, NEW t \in Threads, PomaiOwns(t),
         NEW pc \in PomaiOwning, pomai_th' = [pomai_th EXCEPT ![t].pc = pc], pomai_live' = pomai_live,
         pomai' \in PomaiRecords, pomai'.offset = pomai.offset, pomai'.capacity = pomai.capacity,
         pomai'.total = pomai.total, pomai'.use_os_reserve = pomai.use_os_reserve,
         pomai_os \subseteq pomai_os', PAGE..pomai'.committed - 1 \subseteq pomai_os',
         pc = "store" => PAGE..NewCommitted(pomai_th[t].new) - 1 \subseteq pomai_os',
         ~pomai.use_os_reserve => pomai'.committed = pomai.committed
  PROVE  PomaiInv'
<1> DEFINE n == [pomai_th[t] EXCEPT !.pc = pc]
<1>1. PomaiTypeOK /\ PomaiApart /\ PomaiPlaced /\ PomaiCalls /\ PomaiMemory
  BY DEF PomaiInv
<1>2. pomai_th[t] \in PomaiThreads /\ PomaiCallOK(pomai_th[t], pomai, pomai_os)
  BY <1>1 DEF PomaiTypeOK, PomaiCalls, PomaiOwns, PomaiOwning
<1>3. pomai_th' = [pomai_th EXCEPT ![t] = n]
  BY <1>1 DEF PomaiTypeOK
<1>4. /\ n \in PomaiThreads /\ n.pc = pc /\ n.old = pomai_th[t].old
      /\ n.size = pomai_th[t].size /\ n.new = pomai_th[t].new
  BY <1>2 DEF PomaiThreads, PomaiPcs, PomaiOwning
<1> HIDE DEF n
<1>5. PomaiTypeOK'
  BY <1>1, <1>3, <1>4 DEF PomaiTypeOK
<1>6. PomaiApart' /\ PomaiPlaced'
  BY <1>1, <1>3, <1>4, PomaiKeeps
<1>7. PomaiCallOK(n, pomai', pomai_os')
  BY <1>2, <1>4, PomaiOwns(t) DEF PomaiCallOK, NewCommitted, PomaiOwns
<1>8. PomaiCalls'
  BY <1>1, <1>3, <1>4, <1>7, PomaiCallsKept
<1>9. PomaiMemory'
  BY <1>1 DEF PomaiMemory, Aligned
<1>10. PomaiCreated'
  BY <1>1, PomaiRecordIs DEF PomaiCreated
<1> QED
  BY <1>5, <1>6, <1>8, <1>9, <1>10 DEF PomaiInv

\* A step of a call after the bump.
LEMMA PomaiCommitSteps ==
  ASSUME PomaiInv, NEW t \in Threads,
         \/ PomaiCheck(t) \/ PomaiLock(t) \/ PomaiCommit(t) \/ PomaiCommitFails(t)
         \/ PomaiStore(t) \/ PomaiUnlock(t)
  PROVE  PomaiInv'
<1>0. PomaiCreated /\ PomaiOwns(t)
  BY DEF PomaiCheck, PomaiLock, PomaiCommit, PomaiCommitFails, PomaiStore, PomaiUnlock, PomaiAt,
         PomaiOwns, PomaiOwning
<1>1. PomaiTypeOK /\ PomaiCalls /\ PomaiMemory
  BY <1>0 DEF PomaiInv
<1>2. /\ pomai \in PomaiRecords /\ pomai.committed \in Nat /\ pomai.total \in Nat
      /\ pomai.capacity \in Nat /\ PAGE \in Nat
  BY <1>0, <1>1, PomaiRecordIs, PomaiSizes
<1>3. pomai_th[t] \in PomaiThreads /\ PomaiCallOK(pomai_th[t], pomai, pomai_os)
  BY <1>0, <1>1 DEF PomaiTypeOK, PomaiCalls, PomaiOwns, PomaiOwning
<1>4. /\ pomai_th[t].new \in Nat /\ pomai_th[t].new <= pomai.total
      /\ pomai.use_os_reserve
  BY <1>0, <1>1, <1>2, <1>3 DEF PomaiThreads, PomaiCallOK, PomaiMemory, PomaiOwns
<1>5. PAGE..pomai.committed - 1 \subseteq pomai_os
  BY <1>1 DEF PomaiMemory
<1>6. {"lock", "locked", "store", "rollback"} \subseteq PomaiOwning
  BY DEF PomaiOwning
<1>7. \A b \in BOOLEAN : LET p == [pomai EXCEPT !.commit_lock = b]
      IN /\ p \in PomaiRecords /\ p.offset = pomai.offset /\ p.capacity = pomai.capacity
         /\ p.total = pomai.total /\ p.use_os_reserve = pomai.use_os_reserve
         /\ p.committed = pomai.committed
  BY <1>2 DEF PomaiRecords
<1>8. CASE PomaiCheck(t)
  <2>1. CASE pomai.committed >= pomai_th[t].new
    BY <1>0, <1>2, <1>8, <2>1, PomaiReturnInv DEF PomaiCheck
  <2>2. CASE ~(pomai.committed >= pomai_th[t].new)
    <3>1. /\ pomai_th' = [pomai_th EXCEPT ![t].pc = "lock"] /\ pomai' = pomai /\ pomai_os' = pomai_os
          /\ pomai_live' = pomai_live
      BY <1>8, <2>2 DEF PomaiCheck, PomaiGo
    <3> QED
      BY <1>0, <1>2, <1>5, <1>6, <3>1, PomaiGoInv
  <2> QED
    BY <2>1, <2>2
<1>9. CASE PomaiLock(t)
  <2>1. CASE pomai.commit_lock
    BY <1>0, <1>2, <1>9, <2>1, PomaiReturnInv DEF PomaiLock
  <2>2. CASE ~pomai.commit_lock
    <3>1. /\ pomai_th' = [pomai_th EXCEPT ![t].pc = "locked"]
          /\ pomai' = [pomai EXCEPT !.commit_lock = TRUE]
          /\ pomai_os' = pomai_os /\ pomai_live' = pomai_live
      BY <1>9, <2>2 DEF PomaiLock, PomaiGo
    <3> QED
      BY <1>0, <1>5, <1>6, <1>7, <3>1, PomaiGoInv
  <2> QED
    BY <2>1, <2>2
<1>10. CASE PomaiCommit(t)
  <2> DEFINE C == NewCommitted(pomai_th[t].new)
  <2>1. /\ pomai_th' = [pomai_th EXCEPT ![t].pc = "store"] /\ pomai' = pomai
        /\ pomai_os' = pomai_os \cup Extent(pomai.committed, C - pomai.committed)
        /\ pomai_live' = pomai_live
    BY <1>10 DEF PomaiCommit, PrimCommits
  <2>2. C \in Nat
    BY <1>0, <1>1, <1>4, NewCommittedIs
  <2> HIDE DEF C
  <2>3. pomai.committed..C - 1 \subseteq pomai_os'
    BY <1>2, <2>1, <2>2 DEF Extent
  <2>4. PAGE..C - 1 \subseteq (PAGE..pomai.committed - 1) \cup (pomai.committed..C - 1)
    BY <1>2, <2>2
  <2>5. pomai_os \subseteq pomai_os' /\ PAGE..pomai.committed - 1 \subseteq pomai_os'
    BY <1>5, <2>1
  <2>6. PAGE..C - 1 \subseteq pomai_os'
    BY <2>3, <2>4, <2>5
  <2>7. PAGE..NewCommitted(pomai_th[t].new) - 1 \subseteq pomai_os'
    BY <2>6 DEF C
  <2> QED
    BY <1>0, <1>2, <1>6, <2>1, <2>5, <2>7, PomaiGoInv
<1>11. CASE PomaiCommitFails(t)
  <2>1. /\ pomai_th' = [pomai_th EXCEPT ![t].pc = "rollback"]
        /\ pomai' = [pomai EXCEPT !.commit_lock = FALSE]
        /\ pomai_os' = pomai_os /\ pomai_live' = pomai_live
    BY <1>11 DEF PomaiCommitFails, PomaiGo
  <2> QED
    BY <1>0, <1>5, <1>6, <1>7, <2>1, PomaiGoInv
<1>12. CASE PomaiStore(t)
  <2> DEFINE C == NewCommitted(pomai_th[t].new)
  <2>1. /\ pomai_th' = [pomai_th EXCEPT ![t].pc = "locked"] /\ pomai' = [pomai EXCEPT !.committed = C]
        /\ pomai_os' = pomai_os /\ pomai_live' = pomai_live /\ pomai_th[t].pc = "store"
    BY <1>12 DEF PomaiStore, PomaiGo, PomaiAt
  <2>2. C \in Nat
    BY <1>0, <1>1, <1>4, NewCommittedIs
  <2>3. PAGE..C - 1 \subseteq pomai_os
    BY <1>3, <2>1 DEF PomaiCallOK, NewCommitted
  <2> HIDE DEF C
  <2>4. /\ pomai' \in PomaiRecords /\ pomai'.offset = pomai.offset /\ pomai'.capacity = pomai.capacity
        /\ pomai'.total = pomai.total /\ pomai'.use_os_reserve = pomai.use_os_reserve
        /\ pomai'.committed = C
    BY <1>2, <2>1, <2>2 DEF PomaiRecords
  <2>5. pomai_os \subseteq pomai_os' /\ PAGE..pomai'.committed - 1 \subseteq pomai_os'
    BY <2>1, <2>3, <2>4
  <2> QED
    BY <1>0, <1>4, <1>6, <2>1, <2>4, <2>5, PomaiGoInv
<1>13. CASE PomaiUnlock(t)
  BY <1>0, <1>7, <1>13, PomaiReturnInv DEF PomaiUnlock
<1> QED
  BY <1>8, <1>9, <1>10, <1>11, <1>12, <1>13

\* One compare-and-swap takes a bump back.
LEMMA PomaiRollbackInv ==
  ASSUME PomaiInv, NEW t \in Threads, PomaiRollback(t)
  PROVE  PomaiInv'
<1> DEFINE off == IF pomai.offset = pomai_th[t].new THEN pomai_th[t].old ELSE pomai.offset
<1>0. /\ PomaiCreated /\ PomaiOwns(t) /\ pomai_th[t].pc # "idle"
      /\ pomai' = [pomai EXCEPT !.offset = off] /\ pomai_os' = pomai_os
      /\ pomai_th' = [pomai_th EXCEPT ![t] = PomaiIdle] /\ pomai_live' = pomai_live
  BY DEF PomaiRollback, PomaiAt, PomaiReturnNull, PomaiOwns, PomaiOwning
<1>1. PomaiTypeOK /\ PomaiApart /\ PomaiPlaced /\ PomaiCalls /\ PomaiMemory
  BY <1>0 DEF PomaiInv
<1>2. pomai \in PomaiRecords /\ pomai.offset \in Nat /\ pomai.capacity \in Nat /\ PAGE \in Nat
  BY <1>0, <1>1, PomaiRecordIs, PomaiSizes
<1>3. pomai_th[t] \in PomaiThreads /\ PomaiCallOK(pomai_th[t], pomai, pomai_os)
  BY <1>0, <1>1 DEF PomaiTypeOK, PomaiCalls
<1>4. /\ pomai_th[t].old \in Nat /\ pomai_th[t].size \in Nat /\ pomai_th[t].old >= PAGE
      /\ pomai_th[t].new = pomai_th[t].old + pomai_th[t].size /\ Aligned(pomai_th[t].old)
      /\ pomai_th[t].new <= PAGE + pomai.capacity
  BY <1>3 DEF PomaiThreads, PomaiCallOK
<1>5. off \in Nat /\ off >= PAGE /\ off <= PAGE + pomai.capacity /\ Aligned(off)
  BY <1>1, <1>2, <1>4 DEF PomaiMemory
<1>6. /\ pomai' \in PomaiRecords /\ pomai'.offset = off /\ pomai'.committed = pomai.committed
      /\ pomai'.capacity = pomai.capacity /\ pomai'.total = pomai.total
      /\ pomai'.use_os_reserve = pomai.use_os_reserve
  BY <1>0, <1>2, <1>5 DEF PomaiRecords
<1>7. PomaiTypeOK'
  BY <1>0, <1>1, <1>6, PomaiIdleIs DEF PomaiTypeOK
<1>8. PomaiApart' /\ PomaiPlaced'
  <2>1. CASE pomai.offset = pomai_th[t].new
    BY <1>0, <1>1, <1>2, <1>4, <1>6, <2>1, PomaiTakesBack
  <2>2. CASE pomai.offset # pomai_th[t].new
    BY <1>0, <1>1, <1>6, <2>2, PomaiIdleIs, PomaiKeeps
  <2> QED
    BY <2>1, <2>2
<1> HIDE DEF off
<1>9. PomaiCalls'
  BY <1>0, <1>1, <1>6, PomaiIdleIs, PomaiCallsKept
<1>10. Aligned(pomai.offset)'
  BY <1>5, <1>6 DEF Aligned
<1>11. PomaiMemory'
  BY <1>0, <1>1, <1>5, <1>6, <1>10 DEF PomaiMemory
<1>12. PomaiCreated'
  BY <1>0, <1>1, <1>6, PomaiRecordIs DEF PomaiCreated
<1> QED
  BY <1>7, <1>8, <1>9, <1>11, <1>12 DEF PomaiInv

\* An arena without vectors and calls.
LEMMA PomaiFresh ==
  ASSUME pomai' \in PomaiRecords, pomai'.offset = PAGE, PAGE + pomai'.capacity <= pomai'.total,
         PAGE..pomai'.committed - 1 \subseteq pomai_os',
         ~pomai'.use_os_reserve => pomai'.committed = pomai'.total,
         pomai_live' = {}, pomai_th' \in [Threads -> PomaiThreads],
         \A t \in Threads : pomai_th'[t].pc = "idle"
  PROVE  PomaiInv'
<1>1. PomaiTypeOK'
  BY DEF PomaiTypeOK
<1>2. PomaiApart' /\ PomaiPlaced' /\ PomaiCalls'
  BY DEF PomaiApart, PomaiPlaced, PomaiCalls, PomaiOwns, PomaiOwning
<1>3. PAGE \in Nat /\ pomai'.capacity \in Nat
  BY PomaiSizes DEF PomaiRecords
<1>4. Aligned(pomai.offset)'
  BY PomaiSizes DEF Aligned
<1>5. PomaiMemory'
  BY <1>3, <1>4 DEF PomaiMemory
<1>6. PomaiCreated'
  <2>1. pomai'.total # 0 /\ NoPomai.total = 0
    BY DEF PomaiRecords, NoPomai
  <2> QED
    BY <2>1 DEF PomaiCreated
<1> QED
  BY <1>1, <1>2, <1>5, <1>6 DEF PomaiInv

LEMMA PomaiCreateInv ==
  ASSUME PomaiInv, NEW capacity \in Capacities, NEW shared \in BOOLEAN, NEW can_reserve \in BOOLEAN,
         PomaiCreate(capacity, shared, can_reserve)
  PROVE  PomaiInv'
<1> DEFINE total == RoundUp(PAGE + capacity, PAGE)
           first == RoundUp(PAGE + GRAIN, PAGE)
           committed == IF can_reserve /\ first < total THEN first ELSE total
<1>0. /\ ~PomaiCreated /\ capacity <= SIZE_MAX - PAGE /\ total # 0
      /\ pomai' = [total |-> total, capacity |-> capacity, shared |-> shared,
                   use_os_reserve |-> can_reserve, offset |-> PAGE,
                   committed |-> committed, commit_lock |-> FALSE]
      /\ pomai_os' = Extent(0, committed) /\ pomai_live' = pomai_live /\ pomai_th' = pomai_th
  BY DEF PomaiCreate, PayloadStart
<1>1. /\ PAGE \in Nat \ {0} /\ GRAIN \in Nat /\ SIZE_MAX \in Nat /\ capacity \in Nat
      /\ (SIZE_MAX + 1) % PAGE = 0
  BY PomaiSizes, PomaiAssumption
<1>2. PAGE + capacity \in Nat /\ PAGE + capacity <= SIZE_MAX /\ PAGE + GRAIN \in Nat
  BY <1>0, <1>1
<1>3. total \in Nat /\ first \in Nat
  BY <1>1, <1>2, RoundUpIs
<1>4. total >= PAGE + capacity
  BY <1>0, <1>1, <1>2, RoundUpIs
<1> HIDE DEF total, first
<1>5. committed \in Nat
  BY <1>3
<1>6. ~can_reserve => committed = total
  OBVIOUS
<1> HIDE DEF committed
<1>7. /\ pomai' \in PomaiRecords /\ pomai'.offset = PAGE /\ pomai'.capacity = capacity
      /\ pomai'.total = total /\ pomai'.committed = committed /\ pomai'.use_os_reserve = can_reserve
  BY <1>0, <1>1, <1>3, <1>5 DEF PomaiRecords
<1>8. PAGE..committed - 1 \subseteq pomai_os'
  BY <1>0, <1>1, <1>5 DEF Extent
<1>9. /\ pomai_live' = {} /\ pomai_th' \in [Threads -> PomaiThreads]
      /\ \A t \in Threads : pomai_th'[t].pc = "idle"
  BY <1>0 DEF PomaiInv, PomaiTypeOK, PomaiQuiet
<1> QED
  BY <1>4, <1>6, <1>7, <1>8, <1>9, PomaiFresh

\* p_arena_reset takes the memory behind the header back.
LEMMA PomaiResetInv ==
  ASSUME PomaiInv, PomaiReset
  PROVE  PomaiInv'
<1> DEFINE C == IF pomai.use_os_reserve THEN PAGE ELSE pomai.committed
<1>0. /\ PomaiCreated /\ PomaiQuiet /\ pomai' = [pomai EXCEPT !.offset = PAGE, !.committed = C]
      /\ ~pomai.use_os_reserve => pomai_os' = pomai_os
      /\ pomai_live' = {} /\ pomai_th' = pomai_th
  BY DEF PomaiReset, PayloadStart
<1>1. PomaiTypeOK /\ PomaiMemory
  BY <1>0 DEF PomaiInv
<1>2. /\ pomai \in PomaiRecords /\ pomai.committed \in Nat /\ PAGE \in Nat
  BY <1>0, <1>1, PomaiRecordIs, PomaiSizes
<1>3. /\ pomai' \in PomaiRecords /\ pomai'.offset = PAGE /\ pomai'.committed = C
      /\ pomai'.capacity = pomai.capacity /\ pomai'.total = pomai.total
      /\ pomai'.use_os_reserve = pomai.use_os_reserve
  BY <1>0, <1>2 DEF PomaiRecords
<1>4. PAGE..C - 1 \subseteq pomai_os'
  <2>1. CASE pomai.use_os_reserve
    BY <1>2, <2>1
  <2>2. CASE ~pomai.use_os_reserve
    BY <1>0, <1>1, <2>2 DEF PomaiMemory
  <2> QED
    BY <2>1, <2>2
<1>5. ~pomai'.use_os_reserve => pomai'.committed = pomai'.total
  BY <1>1, <1>3 DEF PomaiMemory
<1>6. PAGE + pomai'.capacity <= pomai'.total
  BY <1>1, <1>3 DEF PomaiMemory
<1>7. pomai_th' \in [Threads -> PomaiThreads] /\ \A t \in Threads : pomai_th'[t].pc = "idle"
  BY <1>0, <1>1 DEF PomaiTypeOK, PomaiQuiet
<1> HIDE DEF C
<1> QED
  BY <1>0, <1>3, <1>4, <1>5, <1>6, <1>7, PomaiFresh

LEMMA PomaiInitially == PomaiInit => PomaiInv
<1> SUFFICES ASSUME PomaiInit PROVE PomaiInv
  OBVIOUS
<1>1. PomaiTypeOK
  BY PomaiIdleIs DEF PomaiInit, PomaiTypeOK
<1> QED
  BY <1>1, PomaiIdleIs DEF PomaiInit, PomaiInv, PomaiCreated, PomaiQuiet

LEMMA PomaiPreserved == PomaiInv /\ [PomaiNext]_pomaiVars => PomaiInv'
<1> SUFFICES ASSUME PomaiInv, [PomaiNext]_pomaiVars PROVE PomaiInv'
  OBVIOUS
<1>1. ASSUME NEW capacity \in Capacities, NEW shared \in BOOLEAN, NEW can_reserve \in BOOLEAN,
             PomaiCreate(capacity, shared, can_reserve)
      PROVE  PomaiInv'
  BY <1>1, PomaiCreateInv
<1>2. ASSUME NEW t \in Threads, PomaiStep(t) PROVE PomaiInv'
  <2>1. ASSUME NEW q \in Requests, PomaiAllocSingle(t, q[1], q[2]) PROVE PomaiInv'
    BY <2>1, PomaiAllocSingleInv
  <2>2. ASSUME NEW q \in Requests, PomaiAlloc(t, q[1], q[2]) PROVE PomaiInv'
    BY <2>2, PomaiAllocInv
  <2> QED
    BY <1>2, <2>1, <2>2, PomaiBumpInv, PomaiCommitSteps, PomaiRollbackInv DEF PomaiStep
<1>3. CASE PomaiReset
  BY <1>3, PomaiResetInv
<1>4. CASE PomaiDestroy
  <2>1. pomai' = NoPomai /\ pomai_live' = {} /\ pomai_th' = pomai_th /\ PomaiQuiet
    BY <1>4 DEF PomaiDestroy
  <2>2. PomaiTypeOK'
    BY <2>1 DEF PomaiInv, PomaiTypeOK
  <2> QED
    BY <2>1, <2>2 DEF PomaiInv, PomaiCreated, PomaiQuiet
<1>5. CASE UNCHANGED pomaiVars
  <2>1. pomai' = pomai /\ pomai_os' = pomai_os /\ pomai_live' = pomai_live /\ pomai_th' = pomai_th
    BY <1>5 DEF pomaiVars
  <2>2. PomaiTypeOK' <=> PomaiTypeOK
    BY <2>1 DEF PomaiTypeOK
  <2>3. (PomaiApart' <=> PomaiApart) /\ (PomaiPlaced' <=> PomaiPlaced)
    BY <2>1 DEF PomaiApart, PomaiPlaced, PomaiOwns, InPomai, Apart, Aligned
  <2>4. (PomaiCalls' <=> PomaiCalls) /\ (PomaiMemory' <=> PomaiMemory)
    BY <2>1 DEF PomaiCalls, PomaiMemory, PomaiCallOK, Aligned
  <2> QED
    BY <2>1, <2>2, <2>3, <2>4 DEF PomaiInv, PomaiCreated, PomaiQuiet
<1> QED
  BY <1>1, <1>2, <1>3, <1>4, <1>5 DEF PomaiNext

\* Ranges that are apart have no unit in common.
LEMMA ApartExtents ==
  ASSUME NEW i \in Nat, NEW m \in Nat, NEW j \in Nat, NEW n \in Nat, Apart(i, m, j, n)
  PROVE  Extent(i, m) \cap Extent(j, n) = {}
BY DEF Apart, Extent

LEMMA PomaiSound ==
  ASSUME PomaiInv
  PROVE  /\ \A v, w \in pomai_live : v # w => Extent(v[1], v[2]) \cap Extent(w[1], w[2]) = {}
         /\ PomaiUsable
<1>1. ASSUME NEW v \in pomai_live, NEW w \in pomai_live, v # w
      PROVE  Extent(v[1], v[2]) \cap Extent(w[1], w[2]) = {}
  <2>1. Apart(v[1], v[2], w[1], w[2])
    BY <1>1 DEF PomaiInv, PomaiApart
  <2>2. v[1] \in Nat /\ v[2] \in Nat /\ w[1] \in Nat /\ w[2] \in Nat
    BY DEF PomaiInv, PomaiTypeOK
  <2> QED
    BY <2>1, <2>2, ApartExtents
<1>2. ASSUME NEW v \in pomai_live
      PROVE  /\ v[1] % ALIGN = 0
             /\ Extent(v[1], v[2]) \subseteq PayloadStart .. pomai.offset - 1
             /\ v[1] + v[2] <= PomaiLimit
             /\ Extent(v[1], v[2]) \subseteq pomai_os
  <2>1. PomaiCreated /\ PomaiTypeOK /\ PomaiPlaced /\ PomaiMemory
    BY DEF PomaiInv
  <2>2. v[1] \in Nat /\ v[2] \in Nat /\ pomai.offset \in Nat /\ pomai.capacity \in Nat /\ PAGE \in Nat
    BY <2>1, PomaiRecordIs, PomaiSizes DEF PomaiTypeOK
  <2>3. /\ v[1] >= PAGE /\ Aligned(v[1]) /\ v[1] + v[2] <= pomai.offset
        /\ PAGE..v[1] + v[2] - 1 \subseteq pomai_os /\ pomai.offset <= PAGE + pomai.capacity
    BY <2>1 DEF PomaiPlaced, InPomai, PomaiMemory
  <2>4. Extent(v[1], v[2]) \subseteq PAGE..v[1] + v[2] - 1
    BY <2>2, <2>3 DEF Extent
  <2>5. PAGE..v[1] + v[2] - 1 \subseteq PAGE..pomai.offset - 1
    BY <2>2, <2>3
  <2>6. v[1] + v[2] <= PAGE + pomai.capacity
    BY <2>2, <2>3
  <2> QED
    BY <2>3, <2>4, <2>5, <2>6 DEF Aligned, PayloadStart, PomaiLimit
<1> QED
  BY <1>1, <1>2 DEF PomaiUsable

-----------------------------------------------------------------------------
(* The vector arena of one thread.                                          *)

VecRecords == [os_block : Nat, os_block_size : Nat, base : Nat, alignment : VecAligns,
               capacity : Nat, used : Nat, committed : Nat, max_size : Nat, use_os_reserve : BOOLEAN]

VecTypeOK == vec \in VecRecords \cup {NoVec} /\ vec_live \subseteq Nat \X Nat

AlignedTo(n, a) == n % a = 0

\* The arena lies in its reservation, and the part below the watermark is committed.
VecMemory ==
  /\ vec.base >= vec.os_block /\ vec.base + vec.capacity <= vec.os_block + vec.os_block_size
  /\ AlignedTo(vec.base, vec.alignment) /\ AlignedTo(vec.used, vec.alignment)
  /\ vec.used <= vec.capacity
  /\ vec.base..vec.base + vec.committed - 1 \subseteq vec_os

\* The vectors lie in the used part, apart from each other, in committed memory.
VecPlaced(v) ==
  /\ v[1] >= vec.base /\ v[2] > 0 /\ v[1] + v[2] <= vec.base + vec.used
  /\ AlignedTo(v[1], vec.alignment)
  /\ vec.base..v[1] + v[2] - 1 \subseteq vec_os

VecVectors ==
  /\ \A v \in vec_live : VecPlaced(v)
  /\ \A v, w \in vec_live : v # w => Apart(v[1], v[2], w[1], w[2])

VecInv ==
  /\ VecTypeOK
  /\ VecCreated => VecMemory /\ VecVectors
  /\ ~VecCreated => vec_live = {}

LEMMA VecNumbers ==
  /\ PAGE \in Nat \ {0} /\ GRAIN \in Nat \ {0} /\ SIZE_MAX \in Nat \ {0}
  /\ (SIZE_MAX + 1) % GRAIN = 0 /\ (SIZE_MAX + 1) % PAGE = 0
  /\ \A a \in VecAligns : a \in Nat \ {0} /\ (SIZE_MAX + 1) % a = 0
BY PomaiSizes, VecAssumption

LEMMA VecRecordIs ==
  ASSUME VecTypeOK, VecCreated
  PROVE  /\ vec \in VecRecords
         /\ vec.os_block \in Nat /\ vec.os_block_size \in Nat /\ vec.base \in Nat
         /\ vec.alignment \in VecAligns /\ vec.alignment \in Nat \ {0}
         /\ vec.capacity \in Nat /\ vec.used \in Nat /\ vec.committed \in Nat
  BY VecNumbers DEF VecTypeOK, VecCreated, VecRecords

LEMMA VecRecordCreated ==
  ASSUME NEW rec \in VecRecords
  PROVE  rec # NoVec
<1>1. rec.os_block # -1 /\ NoVec.os_block = -1
  BY DEF VecRecords, NoVec
<1> QED
  BY <1>1

LEMMA AlignedToSum ==
  ASSUME NEW m \in Nat, NEW n \in Nat, NEW a \in VecAligns, AlignedTo(m, a), AlignedTo(n, a)
  PROVE  AlignedTo(m + n, a)
BY VecNumbers, DividesSum DEF AlignedTo

LEMMA VecCreateInv ==
  ASSUME VecInv, "create" \notin VecCommitFails, NEW size \in VecSizes, NEW alignment \in VecAligns,
         NEW os_block \in VecStarts, NEW can_reserve \in BOOLEAN, NEW ok \in VecFails("create"),
         VecCreate(size, alignment, os_block, can_reserve, ok)
  PROVE  VecInv'
<1> DEFINE capacity == RoundUp(size, PAGE)
           extra == IF alignment > PAGE THEN alignment ELSE 0
           base == IF extra > 0 THEN RoundUp(os_block, alignment) ELSE os_block
           final == Smaller(capacity + extra - (base - os_block), capacity)
           first == Smaller(GRAIN, final)
           committed == IF can_reserve THEN first ELSE final
<1>0. /\ ~VecCreated /\ size # 0 /\ size <= SIZE_MAX - PAGE
      /\ os_block + capacity + extra <= SIZE_MAX
      /\ vec' = [os_block |-> os_block, os_block_size |-> capacity + extra, base |-> base,
                 alignment |-> alignment, capacity |-> final, used |-> 0,
                 committed |-> committed, max_size |-> 0, use_os_reserve |-> can_reserve]
      /\ vec_os' = IF ~can_reserve THEN Extent(os_block, capacity + extra)
                   ELSE IF ok THEN Extent(base, first) ELSE {}
      /\ vec_live' = vec_live
  BY DEF VecCreate
<1>1. ok = TRUE
  BY DEF VecFails
<1>2. /\ PAGE \in Nat \ {0} /\ GRAIN \in Nat \ {0} /\ SIZE_MAX \in Nat /\ size \in Nat \ {0}
      /\ os_block \in Nat /\ os_block % PAGE = 0 /\ alignment \in Nat \ {0}
      /\ (SIZE_MAX + 1) % PAGE = 0 /\ (SIZE_MAX + 1) % alignment = 0
      /\ alignment <= PAGE => PAGE % alignment = 0
  BY <1>0, VecNumbers, VecAssumption
<1>3. capacity \in Nat /\ capacity >= size
  <2>1. size + PAGE - 1 <= SIZE_MAX
    BY <1>0, <1>2
  <2> QED
    BY <1>2, <2>1, RoundUpIs
<1> HIDE DEF capacity
<1>4. /\ base \in Nat /\ base >= os_block /\ base <= os_block + extra /\ base % alignment = 0
      /\ extra \in Nat
  <2>1. CASE alignment > PAGE
    <3>1. extra = alignment /\ base = RoundUp(os_block, alignment)
      BY <1>2, <2>1
    <3>2. os_block + alignment - 1 <= SIZE_MAX
      BY <1>0, <1>2, <1>3, <3>1
    <3>3. /\ RoundUp(os_block, alignment) \in Nat /\ RoundUp(os_block, alignment) % alignment = 0
          /\ RoundUp(os_block, alignment) >= os_block
          /\ RoundUp(os_block, alignment) <= os_block + alignment - 1
      BY <1>2, <3>2, RoundUpIs
    <3> QED
      BY <1>2, <3>1, <3>3
  <2>2. CASE ~(alignment > PAGE)
    <3>1. extra = 0 /\ base = os_block
      BY <2>2
    <3>2. PAGE % alignment = 0
      BY <1>2, <2>2
    <3>3. os_block % alignment = 0
      <4>1. os_block \in Nat /\ PAGE \in Nat \ {0} /\ alignment \in Nat \ {0} /\ os_block % PAGE = 0
        BY <1>2
      <4> QED
        BY <3>2, <4>1, DividesTransitive
    <3> QED
      BY <1>2, <3>1, <3>3
  <2> QED
    BY <2>1, <2>2
<1> HIDE DEF extra, base
<1>5. final = capacity
  BY <1>2, <1>3, <1>4 DEF Smaller
<1>6. first \in Nat /\ first <= final
  BY <1>2, <1>3, <1>5 DEF Smaller
<1> HIDE DEF first, final
<1>7. committed \in Nat
  BY <1>3, <1>5, <1>6
<1>8. base..base + committed - 1 \subseteq vec_os'
  <2>1. CASE can_reserve
    BY <1>0, <1>1, <2>1 DEF Extent
  <2>2. CASE ~can_reserve
    <3>1. vec_os' = Extent(os_block, capacity + extra) /\ committed = capacity
      BY <1>0, <1>5, <2>2
    <3> QED
      BY <1>2, <1>3, <1>4, <3>1 DEF Extent
  <2> QED
    BY <2>1, <2>2
<1> HIDE DEF committed
<1>9. /\ vec' \in VecRecords /\ vec'.base = base /\ vec'.os_block = os_block
      /\ vec'.os_block_size = capacity + extra /\ vec'.capacity = capacity /\ vec'.used = 0
      /\ vec'.committed = committed /\ vec'.alignment = alignment
  BY <1>0, <1>2, <1>3, <1>4, <1>5, <1>7 DEF VecRecords
<1>10. vec_live' = {}
  BY <1>0 DEF VecInv
<1>11. VecTypeOK' /\ VecVectors'
  BY <1>9, <1>10 DEF VecTypeOK, VecVectors
<1>12. base + capacity <= os_block + (capacity + extra)
  BY <1>2, <1>3, <1>4
<1>13. 0 % alignment = 0
  BY <1>2
<1>14. AlignedTo(vec.base, vec.alignment)' /\ AlignedTo(vec.used, vec.alignment)'
  BY <1>4, <1>9, <1>13 DEF AlignedTo
<1>15. VecMemory'
  BY <1>3, <1>4, <1>8, <1>9, <1>12, <1>14 DEF VecMemory
<1>16. VecCreated'
  BY <1>9, VecRecordCreated DEF VecCreated
<1> QED
  BY <1>11, <1>15, <1>16 DEF VecInv

\* The pointer moves over a range in which the new vectors lie.
LEMMA VecTakes ==
  ASSUME VecInv, VecCreated, NEW len \in Nat, NEW ok, VecBump(vec.used + len, ok),
         AlignedTo(len, vec.alignment), NEW S \in SUBSET (Nat \X Nat), vec_live' = vec_live \cup S,
         \A v \in S : /\ v[1] >= vec.base + vec.used /\ v[2] > 0
                      /\ v[1] + v[2] <= vec.base + vec.used + len
                      /\ AlignedTo(v[1], vec.alignment),
         \A v, w \in S : v # w => Apart(v[1], v[2], w[1], w[2])
  PROVE  VecInv'
<1> DEFINE new == vec.used + len
           C == IF new > vec.committed THEN VecNeed(new) ELSE vec.committed
<1>0. VecTypeOK /\ VecMemory /\ VecVectors
  BY DEF VecInv
<1>1. /\ vec \in VecRecords /\ vec.base \in Nat /\ vec.capacity \in Nat /\ vec.used \in Nat
      /\ vec.committed \in Nat /\ vec.alignment \in VecAligns
  BY <1>0, VecRecordIs
<1>2. new \in Nat /\ new >= vec.used
  BY <1>1
<1> HIDE DEF new
<1>3. /\ new <= vec.capacity
      /\ new > vec.committed => RoundUp(new, GRAIN) >= new
      /\ vec' = [vec EXCEPT !.used = new, !.committed = C]
      /\ vec_os' = IF new > vec.committed
                     THEN vec_os \cup Extent(vec.base + vec.committed, C - vec.committed) ELSE vec_os
  <2>1. /\ new <= vec.capacity
        /\ new > vec.committed => RoundUp(new, GRAIN) >= new
    BY DEF VecBump, new
  <2>2. CASE new > vec.committed
    BY <2>2 DEF VecBump, new
  <2>3. CASE ~(new > vec.committed)
    <3>1. vec' = [vec EXCEPT !.used = new] /\ vec_os' = vec_os /\ C = vec.committed
      BY <2>3 DEF VecBump, new
    <3>2. [vec EXCEPT !.used = new] = [vec EXCEPT !.used = new, !.committed = vec.committed]
      BY <1>1 DEF VecRecords
    <3> QED
      BY <2>1, <2>3, <3>1, <3>2
  <2> QED
    BY <2>1, <2>2, <2>3
<1>4. C \in Nat /\ C >= new /\ C >= vec.committed
  <2>1. CASE new > vec.committed
    <3>1. C = VecNeed(new) /\ RoundUp(new, GRAIN) >= new
      BY <1>3, <2>1
    <3>2. RoundUp(new, GRAIN) \in Nat
      BY <1>2, VecNumbers, RoundUpIs
    <3>3. VecNeed(new) \in Nat /\ VecNeed(new) >= new
      BY <1>1, <1>2, <1>3, <3>1, <3>2 DEF VecNeed, Smaller
    <3> QED
      BY <1>1, <1>2, <2>1, <3>1, <3>3
  <2>2. CASE ~(new > vec.committed)
    <3>1. C = vec.committed
      BY <2>2
    <3> QED
      BY <1>1, <1>2, <2>2, <3>1
  <2> QED
    BY <2>1, <2>2
<1> HIDE DEF C
<1>5. vec_os \subseteq vec_os' /\ vec.base..vec.base + C - 1 \subseteq vec_os'
  <2>1. vec_os \subseteq vec_os' /\ vec.base..vec.base + vec.committed - 1 \subseteq vec_os'
    BY <1>0, <1>3 DEF VecMemory
  <2>2. vec.base + vec.committed..vec.base + C - 1 \subseteq vec_os'
    <3>1. CASE new > vec.committed
      BY <1>1, <1>3, <1>4, <3>1 DEF Extent
    <3>2. CASE ~(new > vec.committed)
      <4>1. vec' = [vec EXCEPT !.used = new] /\ vec_os' = vec_os
        BY <3>2 DEF VecBump, new
      <4>2. C = vec.committed
        BY <3>2 DEF C
      <4> QED
        BY <1>1, <4>2
    <3> QED
      BY <3>1, <3>2
  <2>3. vec.base..vec.base + C - 1 \subseteq
          (vec.base..vec.base + vec.committed - 1) \cup (vec.base + vec.committed..vec.base + C - 1)
    BY <1>1, <1>4
  <2> QED
    BY <2>1, <2>2, <2>3
<1>6. /\ vec' \in VecRecords /\ vec'.base = vec.base /\ vec'.os_block = vec.os_block
      /\ vec'.os_block_size = vec.os_block_size /\ vec'.capacity = vec.capacity /\ vec'.used = new
      /\ vec'.committed = C /\ vec'.alignment = vec.alignment
  BY <1>1, <1>2, <1>3, <1>4 DEF VecRecords
<1>7. VecTypeOK'
  BY <1>0, <1>6 DEF VecTypeOK
<1>8. AlignedTo(new, vec.alignment)
  BY <1>0, <1>1, AlignedToSum DEF VecMemory, new
<1>9. VecMemory'
  <2>1. AlignedTo(vec.base, vec.alignment)' /\ AlignedTo(vec.used, vec.alignment)'
    BY <1>0, <1>6, <1>8 DEF VecMemory, AlignedTo
  <2>2. (vec.base..vec.base + vec.committed - 1 \subseteq vec_os)'
    BY <1>5, <1>6
  <2>3. /\ vec.base >= vec.os_block /\ vec.base + vec.capacity <= vec.os_block + vec.os_block_size
        /\ new <= vec.capacity
    BY <1>0, <1>3 DEF VecMemory
  <2> QED
    BY <1>6, <2>1, <2>2, <2>3 DEF VecMemory
<1>10. \A v \in vec_live : v[1] \in Nat /\ v[2] \in Nat /\ v[1] + v[2] <= vec.base + vec.used
  BY <1>0 DEF VecTypeOK, VecVectors, VecPlaced
<1>11. \A v \in S : v[1] \in Nat /\ v[2] \in Nat
  OBVIOUS
<1>12. ASSUME NEW v \in vec_live PROVE VecPlaced(v)'
  <2>1. VecPlaced(v)
    BY <1>0 DEF VecVectors
  <2>2. v[1] + v[2] <= vec.base + new
    BY <1>1, <1>2, <1>10
  <2> QED
    BY <1>5, <1>6, <2>1, <2>2 DEF VecPlaced, AlignedTo
<1>13. ASSUME NEW v \in S PROVE VecPlaced(v)'
  <2>1. /\ v[1] >= vec.base + vec.used /\ v[2] > 0 /\ v[1] + v[2] <= vec.base + vec.used + len
        /\ AlignedTo(v[1], vec.alignment)
    OBVIOUS
  <2>2. v[1] >= vec.base /\ v[1] + v[2] <= vec.base + new
    BY <1>1, <1>11, <2>1 DEF new
  <2>3. vec.base..v[1] + v[2] - 1 \subseteq vec.base..vec.base + C - 1
    BY <1>1, <1>2, <1>4, <1>11, <2>2
  <2> QED
    BY <1>5, <1>6, <2>1, <2>2, <2>3 DEF VecPlaced, AlignedTo
<1>14. \A v \in vec_live, w \in S : Apart(v[1], v[2], w[1], w[2]) /\ Apart(w[1], w[2], v[1], v[2])
  BY <1>1, <1>10, <1>11 DEF Apart
<1>15. VecVectors'
  <2>1. \A v, w \in vec_live : v # w => Apart(v[1], v[2], w[1], w[2])
    BY <1>0 DEF VecVectors
  <2>2. \A v, w \in vec_live \cup S : v # w => Apart(v[1], v[2], w[1], w[2])
    BY <1>14, <2>1
  <2>3. \A v \in vec_live \cup S : VecPlaced(v)'
    BY <1>12, <1>13
  <2> QED
    BY <2>2, <2>3 DEF VecVectors, VecPlaced, Apart
<1>16. VecCreated'
  BY <1>6, VecRecordCreated DEF VecCreated
<1> QED
  BY <1>7, <1>9, <1>15, <1>16 DEF VecInv

LEMMA StepsApart ==
  ASSUME NEW a \in Nat, NEW i \in Nat, NEW j \in Nat, i < j
  PROVE  i * a \in Nat /\ j * a \in Nat /\ i * a + a <= j * a
<1>1. j - i - 1 \in Nat
  OBVIOUS
<1>2. (j - i - 1) * a \in Nat
  BY <1>1
<1>3. j * a = (i * a + a) + (j - i - 1) * a
  OBVIOUS
<1>4. i * a \in Nat /\ j * a \in Nat
  OBVIOUS
<1> QED
  BY <1>2, <1>3, <1>4

\* The size of a vector that passes the checks.
LEMMA VecFits ==
  ASSUME VecInv, VecCreated, NEW size \in VecSizes, size # 0, RoundUp(size, vec.alignment) >= size
  PROVE  /\ size \in Nat \ {0} /\ RoundUp(size, vec.alignment) \in Nat
         /\ AlignedTo(RoundUp(size, vec.alignment), vec.alignment)
         /\ vec.base + vec.used \in Nat /\ AlignedTo(vec.base + vec.used, vec.alignment)
<1>1. size \in Nat
  BY VecAssumption, VecNumbers
<1>2. /\ vec.base \in Nat /\ vec.used \in Nat /\ vec.alignment \in VecAligns
      /\ vec.alignment \in Nat \ {0} /\ (SIZE_MAX + 1) % vec.alignment = 0
  BY VecRecordIs, VecNumbers DEF VecInv
<1>3. /\ RoundUp(size, vec.alignment) \in 0..SIZE_MAX
      /\ RoundUp(size, vec.alignment) % vec.alignment = 0
  BY <1>1, <1>2, RoundUpIs
<1>4. AlignedTo(vec.base + vec.used, vec.alignment)
  BY <1>2, AlignedToSum DEF VecInv, VecMemory
<1> QED
  BY <1>1, <1>2, <1>3, <1>4, VecNumbers DEF AlignedTo

LEMMA VecAllocInv ==
  ASSUME VecInv, NEW size \in VecSizes, NEW ok, VecAlloc(size, ok)
  PROVE  VecInv'
<1> DEFINE aligned == RoundUp(size, vec.alignment)
           S == {<<vec.base + vec.used, size>>}
<1>1. /\ VecCreated /\ size # 0 /\ aligned >= size /\ VecBump(vec.used + aligned, ok)
      /\ vec_live' = vec_live \cup S
  BY DEF VecAlloc
<1>2. /\ size \in Nat \ {0} /\ aligned \in Nat /\ AlignedTo(aligned, vec.alignment)
      /\ vec.base + vec.used \in Nat /\ AlignedTo(vec.base + vec.used, vec.alignment)
  BY <1>1, VecFits
<1> HIDE DEF aligned
<1>3. S \in SUBSET (Nat \X Nat)
  BY <1>2
<1>4. \A v \in S : /\ v[1] >= vec.base + vec.used /\ v[2] > 0
                   /\ v[1] + v[2] <= vec.base + vec.used + aligned
                   /\ AlignedTo(v[1], vec.alignment)
  <2>1. vec.base \in Nat /\ vec.used \in Nat
    BY <1>1, VecRecordIs DEF VecInv
  <2> QED
    BY <1>1, <1>2, <2>1
<1>5. \A v, w \in S : v # w => Apart(v[1], v[2], w[1], w[2])
  OBVIOUS
<1> HIDE DEF S
<1> QED
  BY <1>1, <1>2, <1>3, <1>4, <1>5, VecTakes

LEMMA VecAllocBatchInv ==
  ASSUME VecInv, NEW size \in VecSizes, NEW count \in VecCounts, NEW ok,
         VecAllocBatch(count, size, ok)
  PROVE  VecInv'
<1> DEFINE aligned == RoundUp(size, vec.alignment)
           from == vec.base + vec.used
           At(i) == from + (i - 1) * aligned
           S == {<<At(i), size>> : i \in 1 .. count}
<1>1. /\ VecCreated /\ size # 0 /\ aligned >= size /\ VecBump(vec.used + count * aligned, ok)
      /\ vec_live' = vec_live \cup S
  BY DEF VecAllocBatch, MaterializePtrs
<1>2. /\ size \in Nat \ {0} /\ aligned \in Nat /\ AlignedTo(aligned, vec.alignment)
      /\ from \in Nat /\ AlignedTo(from, vec.alignment)
  BY <1>1, VecFits
<1>3. /\ vec.base \in Nat /\ vec.used \in Nat /\ vec.alignment \in VecAligns
      /\ vec.alignment \in Nat \ {0} /\ count \in Nat
  BY <1>1, VecRecordIs, VecNumbers, VecAssumption DEF VecInv
<1>4. aligned >= size
  BY <1>1
<1> HIDE DEF aligned
<1>5. /\ count * aligned \in Nat /\ AlignedTo(count * aligned, vec.alignment)
      /\ vec.base + vec.used + count * aligned = from + count * aligned
  BY <1>2, <1>3, DividesProduct DEF AlignedTo
<1> HIDE DEF from
<1>6. ASSUME NEW i \in 1 .. count
      PROVE  /\ At(i) \in Nat /\ At(i) >= from /\ At(i) + aligned <= from + count * aligned
             /\ AlignedTo(At(i), vec.alignment)
  <2>1. i - 1 \in Nat /\ i - 1 < count
    BY <1>3
  <2>2. (i - 1) * aligned \in Nat /\ (i - 1) * aligned + aligned <= count * aligned
    BY <1>2, <1>3, <2>1, StepsApart
  <2>3. AlignedTo((i - 1) * aligned, vec.alignment)
    BY <1>2, <1>3, <2>1, DividesProduct DEF AlignedTo
  <2>4. AlignedTo(At(i), vec.alignment)
    BY <1>2, <1>3, <2>2, <2>3, AlignedToSum
  <2> DEFINE n == (i - 1) * aligned
  <2>5. n \in Nat /\ n + aligned <= count * aligned /\ At(i) = from + n
    BY <2>2
  <2> HIDE DEF n, At
  <2> QED
    BY <1>2, <1>5, <2>4, <2>5
<1>7. ASSUME NEW i \in 1 .. count, NEW j \in 1 .. count, i < j
      PROVE  At(i) + aligned <= At(j)
  <2>1. i - 1 \in Nat /\ j - 1 \in Nat /\ i - 1 < j - 1
    BY <1>3, <1>7
  <2>2. /\ (i - 1) * aligned \in Nat /\ (j - 1) * aligned \in Nat
        /\ (i - 1) * aligned + aligned <= (j - 1) * aligned
    BY <1>2, <2>1, StepsApart
  <2> DEFINE n == (i - 1) * aligned
             m == (j - 1) * aligned
  <2>3. n \in Nat /\ m \in Nat /\ n + aligned <= m /\ At(i) = from + n /\ At(j) = from + m
    BY <2>2
  <2> HIDE DEF n, m, At
  <2> QED
    BY <1>2, <2>3
<1> HIDE DEF At
<1>8. S \in SUBSET (Nat \X Nat)
  BY <1>2, <1>6
<1>9. ASSUME NEW v \in S
      PROVE  /\ v[1] >= from /\ v[2] > 0 /\ v[1] + v[2] <= from + count * aligned
             /\ AlignedTo(v[1], vec.alignment)
  <2>1. PICK i \in 1 .. count : v = <<At(i), size>>
    OBVIOUS
  <2>2. v[1] = At(i) /\ v[2] = size
    BY <2>1
  <2> QED
    BY <1>2, <1>4, <1>5, <1>6, <2>2
<1>10. ASSUME NEW v \in S, NEW w \in S, v # w PROVE Apart(v[1], v[2], w[1], w[2])
  <2>1. PICK i \in 1 .. count : v = <<At(i), size>>
    OBVIOUS
  <2>2. PICK j \in 1 .. count : w = <<At(j), size>>
    OBVIOUS
  <2>3. v[1] = At(i) /\ v[2] = size /\ w[1] = At(j) /\ w[2] = size
    BY <2>1, <2>2
  <2>4. i # j
    BY <1>10, <2>1, <2>2
  <2>5. CASE i < j
    <3>1. At(i) + aligned <= At(j)
      BY <1>7, <2>5
    <3> QED
      BY <1>2, <1>4, <1>6, <2>3, <3>1 DEF Apart
  <2>6. CASE j < i
    <3>1. At(j) + aligned <= At(i)
      BY <1>7, <2>6
    <3> QED
      BY <1>2, <1>4, <1>6, <2>3, <3>1 DEF Apart
  <2> QED
    BY <1>3, <2>4, <2>5, <2>6
<1> HIDE DEF S
<1>11. \A v \in S : /\ v[1] >= vec.base + vec.used /\ v[2] > 0
                    /\ v[1] + v[2] <= vec.base + vec.used + count * aligned
                    /\ AlignedTo(v[1], vec.alignment)
  BY <1>5, <1>9 DEF from
<1>12. \A v, w \in S : v # w => Apart(v[1], v[2], w[1], w[2])
  BY <1>10
<1>13. VecBump(vec.used + count * aligned, ok) /\ VecCreated /\ vec_live' = vec_live \cup S
  BY <1>1 DEF aligned, from, At, S
<1> QED
  BY <1>5, <1>8, <1>11, <1>12, <1>13, VecTakes

\* All vectors are given up; what is below the watermark is still committed.
LEMMA VecEmptied ==
  ASSUME VecInv, VecCreated, NEW c \in Nat, vec' = [vec EXCEPT !.used = 0, !.committed = c],
         vec.base..vec.base + c - 1 \subseteq vec_os', vec_live' = {}
  PROVE  VecInv'
<1>1. /\ vec \in VecRecords /\ vec.capacity \in Nat /\ vec.alignment \in Nat \ {0}
  BY VecRecordIs DEF VecInv
<1>2. /\ vec' \in VecRecords /\ vec'.base = vec.base /\ vec'.os_block = vec.os_block
      /\ vec'.os_block_size = vec.os_block_size /\ vec'.capacity = vec.capacity /\ vec'.used = 0
      /\ vec'.committed = c /\ vec'.alignment = vec.alignment
  BY <1>1 DEF VecRecords
<1>3. VecMemory
  BY DEF VecInv
<1>4. 0 % vec.alignment = 0
  BY <1>1
<1>5. AlignedTo(vec.base, vec.alignment)' /\ AlignedTo(vec.used, vec.alignment)'
  BY <1>2, <1>3, <1>4 DEF VecMemory, AlignedTo
<1>6. (vec.base..vec.base + vec.committed - 1 \subseteq vec_os)'
  BY <1>2
<1>7. VecMemory'
  BY <1>1, <1>2, <1>3, <1>5, <1>6 DEF VecMemory
<1>8. VecTypeOK' /\ VecVectors' /\ VecCreated'
  BY <1>2, VecRecordCreated DEF VecTypeOK, VecVectors, VecCreated
<1> QED
  BY <1>7, <1>8 DEF VecInv

LEMMA VecResetInv ==
  ASSUME VecInv, VecReset
  PROVE  VecInv'
<1> DEFINE decommits == vec.committed > 0 /\ vec.use_os_reserve
           c == IF decommits THEN 0 ELSE vec.committed
<1>1. /\ VecCreated /\ vec' = [vec EXCEPT !.used = 0, !.committed = c]
      /\ vec_os' = IF decommits THEN vec_os \ Extent(vec.base, vec.committed) ELSE vec_os
      /\ vec_live' = {}
  BY DEF VecReset
<1>2. /\ vec.base \in Nat /\ vec.committed \in Nat /\ vec.base..vec.base + vec.committed - 1 \subseteq vec_os
  BY <1>1, VecRecordIs DEF VecInv, VecMemory
<1>3. c \in Nat
  BY <1>2
<1>4. vec.base..vec.base + c - 1 \subseteq vec_os'
  <2>1. CASE decommits
    <3>1. vec.base..vec.base + 0 - 1 = {}
      BY <1>2
    <3> QED
      BY <2>1, <3>1
  <2>2. CASE ~decommits
    BY <1>1, <1>2, <2>2
  <2> QED
    BY <2>1, <2>2
<1> HIDE DEF c, decommits
<1> QED
  BY <1>1, <1>3, <1>4, VecEmptied

LEMMA VecClearInv ==
  ASSUME VecInv, VecClear
  PROVE  VecInv'
<1>1. VecCreated /\ vec' = [vec EXCEPT !.used = 0] /\ vec_live' = {} /\ vec_os' = vec_os
  BY DEF VecClear
<1>2. /\ vec \in VecRecords /\ vec.committed \in Nat
      /\ vec.base..vec.base + vec.committed - 1 \subseteq vec_os
  BY <1>1, VecRecordIs DEF VecInv, VecMemory
<1>3. vec' = [vec EXCEPT !.used = 0, !.committed = vec.committed]
  BY <1>1, <1>2 DEF VecRecords
<1> QED
  BY <1>1, <1>2, <1>3, VecEmptied

LEMMA VecSetMaxSizeInv ==
  ASSUME VecInv, NEW max \in VecSizes, VecSetMaxSize(max)
  PROVE  VecInv'
<1>1. VecCreated /\ vec' = [vec EXCEPT !.max_size = max] /\ vec_os' = vec_os /\ vec_live' = vec_live
  BY DEF VecSetMaxSize
<1>2. vec \in VecRecords /\ max \in Nat
  BY <1>1, VecRecordIs, VecAssumption, VecNumbers DEF VecInv
<1>3. /\ vec' \in VecRecords /\ vec'.base = vec.base /\ vec'.os_block = vec.os_block
      /\ vec'.os_block_size = vec.os_block_size /\ vec'.capacity = vec.capacity
      /\ vec'.used = vec.used /\ vec'.committed = vec.committed /\ vec'.alignment = vec.alignment
  BY <1>1, <1>2 DEF VecRecords
<1>4. VecTypeOK' /\ VecCreated'
  BY <1>1, <1>3, VecRecordCreated DEF VecTypeOK, VecCreated, VecInv
<1>5. VecMemory'
  BY <1>1, <1>3 DEF VecInv, VecMemory, AlignedTo
<1>6. VecVectors'
  BY <1>1, <1>3 DEF VecInv, VecVectors, VecPlaced, AlignedTo, Apart
<1> QED
  BY <1>4, <1>5, <1>6 DEF VecInv

LEMMA VecInitially == VecInit => VecInv
BY DEF VecInit, VecInv, VecTypeOK, VecCreated

LEMMA VecPreserved ==
  ASSUME "create" \notin VecCommitFails, VecInv, [VecNext]_vecVars
  PROVE  VecInv'
<1>1. ASSUME NEW size \in VecSizes, NEW a \in VecAligns, NEW os_block \in VecStarts,
             NEW can_reserve \in BOOLEAN, NEW ok \in VecFails("create"),
             VecCreate(size, a, os_block, can_reserve, ok)
      PROVE  VecInv'
  BY <1>1, VecCreateInv
<1>2. ASSUME NEW size \in VecSizes, NEW ok, VecAlloc(size, ok) PROVE VecInv'
  BY <1>2, VecAllocInv
<1>3. ASSUME NEW size \in VecSizes, NEW count \in VecCounts, NEW ok, VecAllocBatch(count, size, ok)
      PROVE  VecInv'
  BY <1>3, VecAllocBatchInv
<1>4. ASSUME NEW size \in VecSizes, VecSetMaxSize(size) PROVE VecInv'
  BY <1>4, VecSetMaxSizeInv
<1>5. CASE VecReset
  BY <1>5, VecResetInv
<1>6. CASE VecClear
  BY <1>6, VecClearInv
<1>7. CASE VecDestroy
  BY <1>7 DEF VecDestroy, VecInv, VecTypeOK, VecCreated
<1>8. CASE UNCHANGED vecVars
  BY <1>8 DEF vecVars, VecInv, VecTypeOK, VecCreated, VecMemory, VecVectors, VecPlaced, AlignedTo, Apart
<1> QED
  BY <1>1, <1>2, <1>3, <1>4, <1>5, <1>6, <1>7, <1>8 DEF VecNext

LEMMA VecSound ==
  ASSUME VecInv
  PROVE  /\ VecUsable
         /\ \A v, w \in vec_live : v # w => Extent(v[1], v[2]) \cap Extent(w[1], w[2]) = {}
<1>1. CASE ~VecCreated
  BY <1>1 DEF VecInv, VecUsable
<1>2. CASE VecCreated
  <2>1. /\ vec.base \in Nat /\ vec.os_block \in Nat /\ vec.os_block_size \in Nat
        /\ vec.used \in Nat /\ vec.capacity \in Nat
    BY <1>2, VecRecordIs DEF VecInv
  <2>2. ASSUME NEW v \in vec_live
        PROVE  /\ v[1] % vec.alignment = 0
               /\ Extent(v[1], v[2]) \subseteq Extent(vec.base, vec.used)
               /\ Extent(v[1], v[2]) \subseteq Extent(vec.os_block, vec.os_block_size)
               /\ Extent(v[1], v[2]) \subseteq vec_os
    <3>1. v[1] \in Nat /\ v[2] \in Nat
      BY DEF VecInv, VecTypeOK
    <3>2. VecPlaced(v) /\ VecMemory
      BY <1>2 DEF VecInv, VecVectors
    <3>3. v[1] % vec.alignment = 0
      BY <3>2 DEF VecPlaced, AlignedTo
    <3>4. Extent(v[1], v[2]) \subseteq Extent(vec.base, vec.used)
      BY <2>1, <3>1, <3>2 DEF VecPlaced, Extent
    <3>5. Extent(v[1], v[2]) \subseteq Extent(vec.os_block, vec.os_block_size)
      BY <2>1, <3>1, <3>2 DEF VecPlaced, VecMemory, Extent
    <3>6. Extent(v[1], v[2]) \subseteq vec_os
      BY <2>1, <3>1, <3>2 DEF VecPlaced, Extent
    <3> QED
      BY <3>3, <3>4, <3>5, <3>6
  <2>3. VecUsable
    BY <2>2 DEF VecUsable
  <2>4. ASSUME NEW v \in vec_live, NEW w \in vec_live, v # w
        PROVE  Extent(v[1], v[2]) \cap Extent(w[1], w[2]) = {}
    <3>1. v[1] \in Nat /\ v[2] \in Nat /\ w[1] \in Nat /\ w[2] \in Nat
      BY DEF VecInv, VecTypeOK
    <3>2. Apart(v[1], v[2], w[1], w[2])
      BY <1>2, <2>4 DEF VecInv, VecVectors
    <3> QED
      BY <3>1, <3>2, ApartExtents
  <2> QED
    BY <2>3, <2>4
<1> QED
  BY <1>1, <1>2

-----------------------------------------------------------------------------
(* The pool: its invariant.                                                 *)

PoolRecords == [slabs : Seq(Slabs), active : Slabs \cup {NoSlab}, created : BOOLEAN]
SlabRecords == [bitmap : SUBSET Slots, free_count : Int]

PoolTypeOK ==
  /\ pool \in PoolRecords
  /\ slab \in [Slabs -> SlabRecords]
  /\ pool_live \subseteq Slabs \X Nat \X Nat

Mine(s) == {o \in pool_live : o[1] = s}
Covered(s) == UNION {Run(o[2], o[3]) : o \in Mine(s)}
SlabExact(s) ==
  /\ slab[s].bitmap = Covered(s)
  /\ slab[s].free_count = SLOTS - Cardinality(slab[s].bitmap)
  /\ Mine(s) # {} => s \in PoolSlabs

RunsApart ==
  \A o, x \in pool_live : o # x /\ o[1] = x[1] => Run(o[2], o[3]) \cap Run(x[2], x[3]) = {}

\* What a client has are slots of a slab, no slot twice, of slabs in the pool.
PoolInv ==
  /\ PoolTypeOK
  /\ \A o \in pool_live : o[3] > 0 /\ Run(o[2], o[3]) \subseteq Slots
  /\ RunsApart
  /\ \A s \in Slabs : SlabExact(s)
  /\ pool.active # NoSlab => pool.active \in PoolSlabs
  /\ ~pool.created => pool = NoPool

LEMMA LeastNat ==
  ASSUME NEW S \in SUBSET Nat, S # {}
  PROVE  \E x \in S : \A y \in S : x <= y
<1> DEFINE R == {p \in Nat \X Nat : p[1] < p[2]}
<1>1. IsWellFoundedOn(R, Nat)
  BY NatLessThanWellFounded DEF OpToRel
<1>2. PICK x \in S : \A y \in S : <<y, x>> \notin R
  BY <1>1, WFMin
<1>3. ASSUME NEW y \in S PROVE x <= y
  <2>1. <<y, x>> \notin R
    BY <1>2
  <2>2. y \in Nat /\ x \in Nat
    OBVIOUS
  <2>3. ~(y < x)
    BY <2>1, <2>2
  <2> QED
    BY <2>2, <2>3
<1> QED
  BY <1>3

LEMMA MinOfNat ==
  ASSUME NEW S \in SUBSET Nat, S # {}
  PROVE  Min(S) \in S
<1>1. \E x \in S : \A y \in S : x =< y
  BY LeastNat
<1> QED
  BY <1>1, Zenon DEF Min

\* One step of the search: the bits whose next bit is set too.
Shifted(S) == {b \in S : b + 1 \in S}

\* The slots from the first one the shifted masks leave are all in the mask.
LEMMA FindContiguousIs ==
  ASSUME NEW mask \in SUBSET Slots, NEW k \in 1 .. SLOTS, FindContiguous(mask, k) >= 0
  PROVE  FindContiguous(mask, k) \in Nat /\ Run(FindContiguous(mask, k), k) \subseteq mask
<1> DEFINE F(g) == [i \in 1 .. SLOTS |-> IF i = 1 THEN mask ELSE Shifted(g[i - 1])]
           run == CHOOSE g : g = F(g)
           X(i) == {b \in mask : Run(b, i) \subseteq mask}
           W == [i \in 1 .. SLOTS |-> X(i)]
<1>0. SLOTS \in Nat \ {0} /\ mask \subseteq Nat
  BY PoolAssumption DEF Slots
<1>1. FindContiguous(mask, k) = IF run[k] = {} THEN -1 ELSE Min(run[k])
  BY DEF FindContiguous, Shifted
<1>2. ASSUME NEW i \in 1 .. SLOTS
      PROVE  W[i] = IF i = 1 THEN mask ELSE Shifted(W[i - 1])
  <2>1. W[i] = {b \in mask : Run(b, i) \subseteq mask}
    OBVIOUS
  <2>2. CASE i = 1
    <3>1. \A b \in mask : Run(b, 1) = {b}
      BY <1>0 DEF Run
    <3> QED
      BY <2>1, <2>2, <3>1
  <2>3. CASE i # 1
    <3>1. i - 1 \in 1 .. SLOTS /\ W[i - 1] = {b \in mask : Run(b, i - 1) \subseteq mask}
      BY <1>0, <2>3
    <3>2. ASSUME NEW b \in mask
          PROVE  Run(b, i) \subseteq mask <=> /\ Run(b, i - 1) \subseteq mask
                                              /\ b + 1 \in mask /\ Run(b + 1, i - 1) \subseteq mask
      <4>1. b \in Nat
        BY <1>0
      <4>2. Run(b, i) = Run(b, i - 1) \cup Run(b + 1, i - 1) /\ b + 1 \in Run(b, i)
        BY <1>0, <2>3, <4>1 DEF Run
      <4> QED
        BY <4>2
    <3> HIDE DEF W
    <3> QED
      BY <2>1, <2>3, <3>1, <3>2 DEF Shifted
  <2> QED
    BY <2>2, <2>3
<1>3. W = F(W)
  <2>1. W = [i \in 1 .. SLOTS |-> W[i]]
    <3> HIDE DEF X
    <3> QED
      OBVIOUS
  <2> HIDE DEF W
  <2> QED
    BY <1>2, <2>1
<1>4. run = F(run)
  BY <1>3
<1> HIDE DEF run
<1>5. \A i \in 1 .. SLOTS :
        run[i] = IF i = 1 THEN mask ELSE Shifted(run[i - 1])
  BY <1>4
<1> HIDE DEF F
<1> DEFINE Wrong == {i \in Nat : i \in 1 .. SLOTS /\ run[i] # W[i]}
<1>6. Wrong = {}
  <2> SUFFICES ASSUME Wrong # {} PROVE FALSE
    OBVIOUS
  <2>1. PICK i \in Wrong : \A j \in Wrong : i <= j
    <3>1. Wrong \in SUBSET Nat
      OBVIOUS
    <3> HIDE DEF Wrong
    <3> QED
      BY <3>1, LeastNat
  <2>2. i \in 1 .. SLOTS /\ run[i] # W[i]
    OBVIOUS
  <2> HIDE DEF W
  <2>3. CASE i = 1
    BY <1>2, <1>5, <2>2, <2>3
  <2>4. CASE i # 1
    <3>1. i - 1 \in 1 .. SLOTS /\ i - 1 \in Nat /\ ~(i <= i - 1)
      BY <1>0, <2>2, <2>4
    <3>2. i - 1 \notin Wrong
      <4> HIDE DEF Wrong
      <4> QED
        BY <2>1, <3>1
    <3>3. run[i - 1] = W[i - 1]
      BY <3>1, <3>2
    <3> QED
      BY <1>2, <1>5, <2>2, <2>4, <3>3
  <2> QED
    BY <2>3, <2>4
<1>7. run[k] = {b \in mask : Run(b, k) \subseteq mask}
  <2>1. k \in Nat
    BY <1>0
  <2>2. run[k] = W[k]
    BY <1>6, <2>1
  <2> QED
    BY <2>2
<1>8. run[k] # {}
  BY <1>1
<1>9. Min(run[k]) \in run[k]
  BY <1>0, <1>7, <1>8, MinOfNat
<1> QED
  BY <1>0, <1>1, <1>7, <1>8, <1>9

LEMMA SlotSets ==
  /\ SLOTS \in Nat \ {0} /\ IsFiniteSet(Slots) /\ Cardinality(Slots) = SLOTS
  /\ \A S \in SUBSET Slots : IsFiniteSet(S) /\ Cardinality(S) \in Nat
<1>1. SLOTS \in Nat \ {0}
  BY PoolAssumption
<1>2. IsFiniteSet(Slots) /\ Cardinality(Slots) = SLOTS
  BY <1>1, FS_Interval DEF Slots
<1>3. ASSUME NEW S \in SUBSET Slots PROVE IsFiniteSet(S) /\ Cardinality(S) \in Nat
  BY <1>2, FS_Subset, FS_CardinalityType
<1> QED
  BY <1>1, <1>2, <1>3

LEMMA RunSize ==
  ASSUME NEW i \in Nat, NEW n \in Nat \ {0}
  PROVE  IsFiniteSet(Run(i, n)) /\ Cardinality(Run(i, n)) = n
<1>1. i \in Int /\ i + n - 1 \in Int /\ ~(i > i + n - 1)
  OBVIOUS
<1>2. IsFiniteSet(i .. i + n - 1) /\ Cardinality(i .. i + n - 1) = (i + n - 1) - i + 1
  BY <1>1, FS_Interval
<1> QED
  BY <1>2 DEF Run

LEMMA PoolRecordIs ==
  ASSUME PoolTypeOK
  PROVE  /\ pool.slabs \in Seq(Slabs) /\ PoolSlabs \subseteq Slabs
         /\ \A k \in 1 .. Len(pool.slabs) : pool.slabs[k] \in Slabs
         /\ \A s \in Slabs : /\ slab[s].bitmap \in SUBSET Slots /\ slab[s].free_count \in Int
                             /\ slab[s] \in SlabRecords
<1>1. pool.slabs \in Seq(Slabs)
  BY DEF PoolTypeOK, PoolRecords
<1>2. \A k \in 1 .. Len(pool.slabs) : pool.slabs[k] \in Slabs
  BY <1>1
<1> QED
  BY <1>1, <1>2 DEF PoolTypeOK, SlabRecords, PoolSlabs

LEMMA SlabUpdate ==
  ASSUME NEW rec \in SlabRecords, NEW B \in SUBSET Slots, NEW c \in Int
  PROVE  /\ [rec EXCEPT !.bitmap = B, !.free_count = c] = [bitmap |-> B, free_count |-> c]
         /\ [bitmap |-> B, free_count |-> c] \in SlabRecords
<1> DEFINE Sets == SUBSET Slots
<1>1. rec \in [bitmap : Sets, free_count : Int] /\ B \in Sets
  BY DEF SlabRecords
<1>2. SlabRecords = [bitmap : Sets, free_count : Int]
  BY DEF SlabRecords
<1> HIDE DEF Sets
<1>3. [rec EXCEPT !.bitmap = B, !.free_count = c] \in [bitmap : Sets, free_count : Int]
  BY <1>1
<1>4. [bitmap |-> B, free_count |-> c] \in [bitmap : Sets, free_count : Int]
  BY <1>1
<1>5. \A r, q \in [bitmap : Sets, free_count : Int] :
        r.bitmap = q.bitmap /\ r.free_count = q.free_count => r = q
  OBVIOUS
<1>6. /\ [rec EXCEPT !.bitmap = B, !.free_count = c].bitmap = B
      /\ [rec EXCEPT !.bitmap = B, !.free_count = c].free_count = c
  BY <1>1
<1> QED
  BY <1>2, <1>3, <1>4, <1>5, <1>6

\* A run of free slots of a slab is taken.
LEMMA PoolTakes ==
  ASSUME PoolInv, NEW s \in Slabs, NEW i \in Nat, NEW n \in Nat \ {0},
         Run(i, n) \subseteq Slots \ slab[s].bitmap,
         slab' = Take(s, i, n), pool_live' = pool_live \cup {<<s, i, n>>},
         pool' \in PoolRecords, PoolSlabs \subseteq PoolSlabs', s \in PoolSlabs', pool'.created,
         pool'.active # NoSlab => pool'.active \in PoolSlabs'
  PROVE  PoolInv'
<1> DEFINE new == <<s, i, n>>
<1>0. PoolTypeOK
  BY DEF PoolInv
<1>1. /\ \A x \in Slabs : slab'[x] = IF x = s THEN [bitmap |-> slab[s].bitmap \cup Run(i, n),
                                                     free_count |-> slab[s].free_count - n]
                                     ELSE slab[x]
      /\ slab' \in [Slabs -> SlabRecords]
  <2>1. slab \in [Slabs -> SlabRecords] /\ slab[s] \in SlabRecords
    BY <1>0 DEF PoolTypeOK
  <2>5. slab[s].bitmap \cup Run(i, n) \in SUBSET Slots /\ slab[s].free_count - n \in Int
    BY <2>1 DEF SlabRecords
  <2>2. [slab[s] EXCEPT !.bitmap = @ \cup Run(i, n), !.free_count = @ - n]
          = [bitmap |-> slab[s].bitmap \cup Run(i, n), free_count |-> slab[s].free_count - n]
    BY <2>1, <2>5, SlabUpdate, Zenon
  <2>3. [bitmap |-> slab[s].bitmap \cup Run(i, n), free_count |-> slab[s].free_count - n] \in SlabRecords
    BY <2>1, <2>5, SlabUpdate, Zenon
  <2>4. slab' = [slab EXCEPT ![s] = [bitmap |-> slab[s].bitmap \cup Run(i, n),
                                     free_count |-> slab[s].free_count - n]]
    BY <2>1, <2>2 DEF Take
  <2> QED
    BY <2>1, <2>3, <2>4
<1>2. PoolTypeOK'
  BY <1>0, <1>1 DEF PoolTypeOK
<1>3. \A o \in pool_live' : o[3] > 0 /\ Run(o[2], o[3]) \subseteq Slots
  <2>1. new[2] = i /\ new[3] = n /\ n > 0 /\ Run(i, n) \subseteq Slots
    OBVIOUS
  <2>2. \A o \in pool_live : o[3] > 0 /\ Run(o[2], o[3]) \subseteq Slots
    BY DEF PoolInv
  <2> HIDE DEF new
  <2> QED
    BY <2>1, <2>2 DEF new
<1>4. \A o \in pool_live : o[1] = s => Run(o[2], o[3]) \cap Run(i, n) = {}
  <2> SUFFICES ASSUME NEW o \in pool_live, o[1] = s PROVE Run(o[2], o[3]) \cap Run(i, n) = {}
    OBVIOUS
  <2>1. slab[s].bitmap = Covered(s)
    BY DEF PoolInv, SlabExact
  <2>2. Run(o[2], o[3]) \subseteq Covered(s)
    BY DEF Covered, Mine
  <2> QED
    BY <2>1, <2>2
<1>5. RunsApart'
  <2> SUFFICES ASSUME NEW o \in pool_live \cup {new}, NEW x \in pool_live \cup {new}, o # x, o[1] = x[1]
               PROVE  Run(o[2], o[3]) \cap Run(x[2], x[3]) = {}
    BY DEF RunsApart, Run
  <2>0. new[1] = s /\ new[2] = i /\ new[3] = n
    OBVIOUS
  <2>1. CASE o \in pool_live /\ x \in pool_live
    BY <2>1 DEF PoolInv, RunsApart
  <2>2. CASE o = new
    <3>1. x \in pool_live /\ x[1] = s
      BY <2>0, <2>2
    <3> QED
      BY <1>4, <2>0, <2>2, <3>1
  <2>3. CASE x = new
    <3>1. o \in pool_live /\ o[1] = s
      BY <2>0, <2>3
    <3> QED
      BY <1>4, <2>0, <2>3, <3>1
  <2> QED
    BY <2>1, <2>2, <2>3
<1>6. ASSUME NEW x \in Slabs PROVE SlabExact(x)'
  <2>0. new[1] = s /\ new[2] = i /\ new[3] = n
    OBVIOUS
  <2> HIDE DEF new
  <2>1. SlabExact(x) /\ slab[x].bitmap \in SUBSET Slots /\ slab[x].free_count \in Int
    BY <1>0, PoolRecordIs DEF PoolInv
  <2>2. CASE x = s
    <3>1. Mine(x)' = Mine(x) \cup {new}
      BY <2>0, <2>2 DEF Mine, new
    <3>2. Covered(x)' = Covered(x) \cup Run(i, n)
      BY <2>0, <3>1 DEF Covered, Run
    <3>3. slab'[x].bitmap = slab[x].bitmap \cup Run(i, n) /\ slab'[x].free_count = slab[x].free_count - n
      BY <1>1, <2>2
    <3>4. Cardinality(slab[x].bitmap \cup Run(i, n)) = Cardinality(slab[x].bitmap) + n
      <4>1. IsFiniteSet(slab[x].bitmap) /\ Cardinality(slab[x].bitmap) \in Nat
        BY <2>1, SlotSets
      <4>2. IsFiniteSet(Run(i, n)) /\ Cardinality(Run(i, n)) = n
        BY RunSize
      <4>3. slab[x].bitmap \cap Run(i, n) = {}
        BY <2>2
      <4>4. Cardinality(slab[x].bitmap \cup Run(i, n))
              = Cardinality(slab[x].bitmap) + Cardinality(Run(i, n)) - Cardinality(slab[x].bitmap \cap Run(i, n))
        BY <4>1, <4>2, FS_Union, Zenon
      <4> QED
        BY <4>1, <4>2, <4>3, <4>4, FS_EmptySet
    <3>5. Cardinality(slab[x].bitmap) \in Nat
      BY <2>1, SlotSets
    <3>6. slab'[x].free_count = SLOTS - Cardinality(slab'[x].bitmap)
      BY <2>1, <3>3, <3>4, <3>5, SlotSets DEF SlabExact
    <3>7. slab'[x].bitmap = Covered(x)'
      BY <2>1, <3>2, <3>3 DEF SlabExact
    <3> QED
      BY <2>2, <3>6, <3>7 DEF SlabExact
  <2>3. CASE x # s
    <3>1. Mine(x)' = Mine(x)
      BY <2>0, <2>3 DEF Mine, new
    <3>2. Covered(x)' = Covered(x)
      BY <3>1 DEF Covered, Run
    <3>3. slab'[x] = slab[x]
      BY <1>1, <2>3
    <3> QED
      BY <2>1, <3>1, <3>2, <3>3 DEF SlabExact
  <2> QED
    BY <2>2, <2>3
<1> QED
  BY <1>2, <1>3, <1>5, <1>6 DEF PoolInv

\* The slots of one allocation are given back.
LEMMA PoolGives ==
  ASSUME PoolInv, NEW o \in pool_live,
         slab' = [slab EXCEPT ![o[1]].bitmap = @ \ Run(o[2], o[3]), ![o[1]].free_count = @ + o[3]],
         pool_live' = pool_live \ {o}, pool' \in PoolRecords, pool'.slabs = pool.slabs,
         pool'.created = pool.created, pool'.active \in {pool.active, o[1]}
  PROVE  PoolInv'
<1> DEFINE s == o[1]
           run == Run(o[2], o[3])
<1>0. PoolTypeOK
  BY DEF PoolInv
<1>1. /\ s \in Slabs /\ o[2] \in Nat /\ o[3] \in Nat \ {0} /\ run \subseteq Slots
  BY <1>0 DEF PoolTypeOK, PoolInv
<1>2. s \in PoolSlabs /\ pool.created
  <2>1. o \in Mine(s)
    BY DEF Mine
  <2>2. s \in PoolSlabs
    BY <1>1, <2>1 DEF PoolInv, SlabExact
  <2> QED
    BY <2>2 DEF PoolInv, NoPool, PoolSlabs
<1> HIDE DEF s, run
<1>3. /\ \A x \in Slabs : slab'[x] = IF x = s THEN [bitmap |-> slab[s].bitmap \ run,
                                                     free_count |-> slab[s].free_count + o[3]]
                                     ELSE slab[x]
      /\ slab' \in [Slabs -> SlabRecords]
  <2>1. slab \in [Slabs -> SlabRecords] /\ slab[s] \in SlabRecords
    BY <1>0, <1>1 DEF PoolTypeOK
  <2>5. slab[s].bitmap \ run \in SUBSET Slots /\ slab[s].free_count + o[3] \in Int
    BY <1>1, <2>1 DEF SlabRecords
  <2>2. [slab[s] EXCEPT !.bitmap = @ \ run, !.free_count = @ + o[3]]
          = [bitmap |-> slab[s].bitmap \ run, free_count |-> slab[s].free_count + o[3]]
    BY <2>1, <2>5, SlabUpdate, Zenon
  <2>3. [bitmap |-> slab[s].bitmap \ run, free_count |-> slab[s].free_count + o[3]] \in SlabRecords
    BY <2>1, <2>5, SlabUpdate, Zenon
  <2>4. slab' = [slab EXCEPT ![s] = [bitmap |-> slab[s].bitmap \ run,
                                     free_count |-> slab[s].free_count + o[3]]]
    BY <2>1, <2>2 DEF s, run
  <2> QED
    BY <1>1, <2>1, <2>3, <2>4
<1>4. PoolTypeOK'
  BY <1>0, <1>3 DEF PoolTypeOK
<1>5. /\ \A x \in pool_live' : x[3] > 0 /\ Run(x[2], x[3]) \subseteq Slots
      /\ RunsApart'
  BY DEF PoolInv, RunsApart, Run
<1>6. PoolSlabs' = PoolSlabs
  BY DEF PoolSlabs
<1>7. ASSUME NEW x \in Slabs PROVE SlabExact(x)'
  <2>1. SlabExact(x) /\ slab[x].bitmap \in SUBSET Slots /\ slab[x].free_count \in Int
    BY <1>0, PoolRecordIs DEF PoolInv
  <2>2. CASE x = s
    <3>1. Mine(x)' = Mine(x) \ {o} /\ o \in Mine(x)
      BY <2>2 DEF Mine, s
    <3>2. \A y \in Mine(x) : y # o => Run(y[2], y[3]) \cap run = {}
      BY <2>2 DEF PoolInv, RunsApart, Mine, run, s
    <3>3. Covered(x) = Covered(x)' \cup run /\ Covered(x)' \cap run = {}
      BY <3>1, <3>2 DEF Covered, run, Run
    <3>4. slab'[x].bitmap = slab[x].bitmap \ run /\ slab'[x].free_count = slab[x].free_count + o[3]
      BY <1>3, <2>2
    <3>5. slab'[x].bitmap = Covered(x)' /\ run \subseteq slab[x].bitmap
      BY <2>1, <3>3, <3>4 DEF SlabExact
    <3>6. Cardinality(slab[x].bitmap \ run) = Cardinality(slab[x].bitmap) - o[3]
      <4>1. IsFiniteSet(slab[x].bitmap) /\ Cardinality(slab[x].bitmap) \in Nat
        BY <2>1, SlotSets
      <4>2. IsFiniteSet(run) /\ Cardinality(run) = o[3]
        BY <1>1, RunSize DEF run
      <4>3. slab[x].bitmap \cap run = run
        BY <3>5
      <4>4. Cardinality(slab[x].bitmap \ run)
              = Cardinality(slab[x].bitmap) - Cardinality(slab[x].bitmap \cap run)
        BY <4>1, FS_Difference, Zenon
      <4> QED
        BY <4>2, <4>3, <4>4
    <3>7. slab'[x].free_count = SLOTS - Cardinality(slab'[x].bitmap)
      <4>1. Cardinality(slab[x].bitmap) \in Nat
        BY <2>1, SlotSets
      <4>2. slab[x].free_count = SLOTS - Cardinality(slab[x].bitmap) /\ SLOTS \in Nat
        BY <2>1, SlotSets DEF SlabExact
      <4>3. Cardinality(slab'[x].bitmap) = Cardinality(slab[x].bitmap) - o[3]
        BY <3>4, <3>6
      <4> QED
        BY <1>1, <3>4, <4>1, <4>2, <4>3
    <3> QED
      BY <1>2, <1>6, <2>2, <3>5, <3>7 DEF SlabExact
  <2>3. CASE x # s
    <3>1. Mine(x)' = Mine(x)
      BY <2>3 DEF Mine, s
    <3>2. Covered(x)' = Covered(x)
      BY <3>1 DEF Covered, Run
    <3>3. slab'[x] = slab[x]
      BY <1>3, <2>3
    <3> QED
      BY <1>6, <2>1, <3>1, <3>2, <3>3 DEF SlabExact
  <2> QED
    BY <2>2, <2>3
<1>8. pool'.active # NoSlab => pool'.active \in PoolSlabs'
  BY <1>2, <1>6 DEF PoolInv, s
<1> QED
  BY <1>2, <1>4, <1>5, <1>7, <1>8 DEF PoolInv

\* The pool with a new slab in front.
LEMMA PoolGrown ==
  ASSUME PoolTypeOK, NEW s \in Slabs, pool'.slabs = <<s>> \o pool.slabs
  PROVE  /\ pool'.slabs \in Seq(Slabs) /\ s \in PoolSlabs' /\ PoolSlabs \subseteq PoolSlabs'
<1> DEFINE q == pool.slabs
           r == <<s>> \o q
<1>1. q \in Seq(Slabs)
  BY PoolRecordIs
<1> HIDE DEF q
<1>2. /\ r \in Seq(Slabs) /\ Len(r) = Len(q) + 1 /\ r[1] = s
      /\ \A k \in 1 .. Len(q) : r[k + 1] = q[k] /\ k + 1 \in 1 .. Len(r)
      /\ 1 \in 1 .. Len(r)
  BY <1>1
<1> HIDE DEF r
<1>3. PoolSlabs = {q[k] : k \in 1 .. Len(q)} /\ PoolSlabs' = {r[k] : k \in 1 .. Len(r)}
  BY DEF PoolSlabs, q, r
<1>4. pool'.slabs = r
  BY DEF q, r
<1> QED
  BY <1>2, <1>3, <1>4

\* A slab that is not in the pool has all its slots.
LEMMA PoolFresh ==
  ASSUME PoolInv, NEW s \in Slabs, s \notin PoolSlabs
  PROVE  slab[s].bitmap = {}
BY DEF PoolInv, SlabExact, Covered

LEMMA PoolAllocInv ==
  ASSUME PoolInv, PoolAlloc
  PROVE  PoolInv'
<1> DEFINE s == IF pool.active # NoSlab /\ slab[pool.active].free_count > 0 THEN pool.active ELSE FirstNotFull
           slot == Min(Slots \ slab[s].bitmap)
           K == {k \in 1 .. Len(pool.slabs) : slab[pool.slabs[k]].free_count > 0}
<1>1. /\ pool.created /\ s # NoSlab /\ pool' = [pool EXCEPT !.active = s]
      /\ slab' = Take(s, slot, 1) /\ pool_live' = pool_live \cup {<<s, slot, 1>>}
  BY DEF PoolAlloc
<1>2. PoolTypeOK
  BY DEF PoolInv
<1>3. s \in PoolSlabs /\ slab[s].free_count > 0
  <2>1. CASE pool.active # NoSlab /\ slab[pool.active].free_count > 0
    BY <2>1 DEF PoolInv
  <2>2. CASE ~(pool.active # NoSlab /\ slab[pool.active].free_count > 0)
    <3>1. s = FirstNotFull
      BY <2>2
    <3>2. K # {} /\ s = pool.slabs[Min(K)]
      BY <1>1, <3>1 DEF FirstNotFull
    <3>3. K \in SUBSET Nat
      OBVIOUS
    <3> HIDE DEF s
    <3>4. Min(K) \in K
      <4> HIDE DEF K
      <4> QED
        BY <3>2, <3>3, MinOfNat
    <3> QED
      BY <3>2, <3>4 DEF PoolSlabs
  <2> QED
    BY <2>1, <2>2
<1> HIDE DEF s, K
<1>4. s \in Slabs
  BY <1>2, <1>3, PoolRecordIs
<1>5. /\ slab[s].bitmap \in SUBSET Slots
      /\ slab[s].free_count = SLOTS - Cardinality(slab[s].bitmap)
  BY <1>2, <1>4, PoolRecordIs DEF PoolInv, SlabExact
<1>6. Slots \ slab[s].bitmap # {}
  <2> SUFFICES ASSUME Slots \ slab[s].bitmap = {} PROVE FALSE
    OBVIOUS
  <2>1. slab[s].bitmap = Slots
    BY <1>5
  <2> QED
    BY <1>3, <1>5, <2>1, SlotSets
<1>7. slot \in Slots \ slab[s].bitmap
  <2>1. Slots \ slab[s].bitmap \in SUBSET Nat
    BY SlotSets DEF Slots
  <2> QED
    BY <1>6, <2>1, MinOfNat
<1> HIDE DEF slot
<1>8. slot \in Nat /\ 1 \in Nat \ {0} /\ Run(slot, 1) \subseteq Slots \ slab[s].bitmap
  <2>1. slot \in Nat
    BY <1>7, SlotSets DEF Slots
  <2>2. Run(slot, 1) = {slot}
    BY <2>1 DEF Run
  <2> QED
    BY <1>7, <2>1, <2>2
<1>9. /\ pool' \in PoolRecords /\ pool'.slabs = pool.slabs /\ pool'.created = pool.created
      /\ pool'.active = s
  BY <1>1, <1>2, <1>4 DEF PoolTypeOK, PoolRecords
<1>10. PoolSlabs' = PoolSlabs
  BY <1>9 DEF PoolSlabs
<1> QED
  BY <1>1, <1>3, <1>4, <1>8, <1>9, <1>10, PoolTakes

LEMMA PoolAllocContiguousInv ==
  ASSUME PoolInv, NEW n \in 1 .. SLOTS, PoolAllocContiguous(n)
  PROVE  PoolInv'
<1> DEFINE s == pool.slabs[Min(Roomy(n))]
           mask == Slots \ slab[s].bitmap
           slot == FindContiguous(mask, n)
<1>1. /\ pool.created /\ Roomy(n) # {} /\ slab' = Take(s, slot, n)
      /\ pool_live' = pool_live \cup {<<s, slot, n>>} /\ pool' = pool
  BY DEF PoolAllocContiguous
<1>2. Roomy(n) \in SUBSET Nat
  BY DEF Roomy
<1>3. Min(Roomy(n)) \in Roomy(n)
  BY <1>1, <1>2, MinOfNat
<1>4. Min(Roomy(n)) \in 1 .. Len(pool.slabs) /\ slot >= 0
  BY <1>3 DEF Roomy
<1>5. s \in PoolSlabs /\ s \in Slabs
  BY <1>4, PoolRecordIs DEF PoolSlabs, PoolInv
<1> HIDE DEF s
<1>6. mask \in SUBSET Slots
  OBVIOUS
<1>7. slot \in Nat /\ Run(slot, n) \subseteq mask
  <2> HIDE DEF mask
  <2> QED
    BY <1>4, <1>6, FindContiguousIs
<1> HIDE DEF slot
<1>8. n \in Nat \ {0}
  BY SlotSets
<1>9. pool' \in PoolRecords /\ PoolSlabs' = PoolSlabs
  BY <1>1 DEF PoolInv, PoolTypeOK, PoolSlabs
<1>10. pool'.active # NoSlab => pool'.active \in PoolSlabs'
  BY <1>1, <1>9 DEF PoolInv
<1> QED
  BY <1>1, <1>5, <1>7, <1>8, <1>9, <1>10, PoolTakes

\* A new slab, and the first slots of it.
LEMMA PoolGrowsInv ==
  ASSUME PoolInv, NEW s \in Slabs, s \notin PoolSlabs, NEW n \in 1 .. SLOTS, pool.created,
         pool' \in {[pool EXCEPT !.slabs = <<s>> \o @, !.active = s], [pool EXCEPT !.slabs = <<s>> \o @]},
         slab' = Take(s, 0, n), pool_live' = pool_live \cup {<<s, 0, n>>}
  PROVE  PoolInv'
<1>1. PoolTypeOK
  BY DEF PoolInv
<1>2. /\ pool \in PoolRecords /\ pool'.slabs = <<s>> \o pool.slabs /\ pool'.created = pool.created
      /\ pool'.active \in {pool.active, s}
      /\ pool' = [slabs |-> pool'.slabs, active |-> pool'.active, created |-> pool'.created]
  BY <1>1 DEF PoolTypeOK, PoolRecords
<1>3. pool'.slabs \in Seq(Slabs) /\ s \in PoolSlabs' /\ PoolSlabs \subseteq PoolSlabs'
  BY <1>1, <1>2, PoolGrown
<1>4. pool.active \in Slabs \cup {NoSlab} /\ pool.created \in BOOLEAN
  BY <1>2 DEF PoolRecords
<1>5. pool' \in PoolRecords
  <2>1. pool'.active \in Slabs \cup {NoSlab} /\ pool'.created \in BOOLEAN
    BY <1>2, <1>4
  <2>2. [slabs |-> pool'.slabs, active |-> pool'.active, created |-> pool'.created] \in PoolRecords
    BY <1>3, <2>1 DEF PoolRecords
  <2> QED
    BY <1>2, <2>2
<1>6. pool'.active # NoSlab => pool'.active \in PoolSlabs'
  BY <1>2, <1>3 DEF PoolInv
<1>7. slab[s].bitmap = {}
  BY PoolFresh
<1>8. n \in Nat \ {0} /\ 0 \in Nat /\ Run(0, n) \subseteq Slots
  BY SlotSets DEF Run, Slots
<1>9. Run(0, n) \subseteq Slots \ slab[s].bitmap
  BY <1>7, <1>8
<1> QED
  BY <1>2, <1>3, <1>5, <1>6, <1>8, <1>9, PoolTakes

LEMMA PoolCreateInv ==
  ASSUME PoolInv, NEW S \in SUBSET Slabs, NEW initial \in SetToSeqs(S), PoolCreate(initial)
  PROVE  PoolInv'
<1>1. initial \in Seq(Slabs)
  <2>1. Cardinality(S) \in Nat
    BY PoolAssumption, FS_Subset, FS_CardinalityType
  <2>2. initial \in [1 .. Cardinality(S) -> S]
    BY DEF SetToSeqs
  <2>3. initial \in [1 .. Cardinality(S) -> Slabs]
    BY <2>2
  <2> QED
    BY <2>1, <2>3
<1>2. /\ ~pool.created /\ slab' = slab /\ pool_live' = pool_live
      /\ pool' = [slabs |-> initial, active |-> IF initial = <<>> THEN NoSlab ELSE initial[1],
                  created |-> TRUE]
  BY DEF PoolCreate
<1>3. pool = NoPool /\ PoolSlabs = {}
  BY <1>2 DEF PoolInv, NoPool, PoolSlabs
<1>4. pool_live = {}
  <2> SUFFICES ASSUME NEW o \in pool_live PROVE FALSE
    OBVIOUS
  <2>1. o[1] \in Slabs
    BY DEF PoolInv, PoolTypeOK
  <2>2. SlabExact(o[1]) /\ o \in Mine(o[1])
    BY <2>1 DEF PoolInv, Mine
  <2> QED
    BY <1>3, <2>2 DEF SlabExact
<1>5. initial # <<>> => 1 \in 1 .. Len(initial) /\ initial[1] \in Slabs
  BY <1>1
<1>6. PoolTypeOK' /\ pool'.created
  BY <1>1, <1>2, <1>5 DEF PoolInv, PoolTypeOK, PoolRecords
<1>7. (pool.active # NoSlab => pool.active \in PoolSlabs)'
  BY <1>2, <1>5 DEF PoolSlabs
<1>8. ASSUME NEW s \in Slabs PROVE SlabExact(s)'
  BY <1>2, <1>4 DEF PoolInv, SlabExact, Mine, Covered
<1>9. RunsApart'
  BY <1>2, <1>4 DEF RunsApart
<1> QED
  BY <1>2, <1>4, <1>6, <1>7, <1>8, <1>9 DEF PoolInv

\* Nothing is taken from a slab when the client has nothing.
LEMMA PoolEmpty ==
  ASSUME pool_live = {}, slab = [s \in Slabs |-> EmptySlab], pool = NoPool
  PROVE  PoolInv
<1>1. EmptySlab \in SlabRecords
  BY SlotSets DEF EmptySlab, SlabRecords
<1>2. <<>> \in Seq(Slabs)
  OBVIOUS
<1>3. PoolTypeOK
  BY <1>1, <1>2 DEF PoolTypeOK, PoolRecords, NoPool
<1>4. ASSUME NEW s \in Slabs PROVE SlabExact(s)
  <2>1. slab[s].bitmap = {} /\ slab[s].free_count = SLOTS
    BY DEF EmptySlab
  <2>2. Mine(s) = {} /\ Covered(s) = {}
    BY DEF Mine, Covered
  <2> QED
    BY <2>1, <2>2, SlotSets, FS_EmptySet DEF SlabExact
<1> QED
  BY <1>3, <1>4 DEF PoolInv, RunsApart, NoPool

LEMMA PoolInitially == PoolInit => PoolInv
BY PoolEmpty DEF PoolInit

LEMMA PoolAgain == PoolInit' => PoolInv'
BY PoolInitially, PTL

LEMMA PoolPreserved ==
  ASSUME PoolInv, [PoolNext]_poolVars
  PROVE  PoolInv'
<1>1. ASSUME NEW S \in SUBSET Slabs, NEW initial \in SetToSeqs(S), PoolCreate(initial)
      PROVE  PoolInv'
  BY <1>1, PoolCreateInv
<1>2. CASE PoolAlloc
  BY <1>2, PoolAllocInv
<1>3. CASE PoolDestroy
  BY <1>3, PoolAgain DEF PoolDestroy, PoolInit
<1>4. ASSUME NEW s \in Slabs, PoolAllocGrows(s) PROVE PoolInv'
  <2>1. 1 \in 1 .. SLOTS
    BY SlotSets
  <2> QED
    BY <1>4, <2>1, PoolGrowsInv DEF PoolAllocGrows
<1>5. ASSUME NEW n \in 1 .. SLOTS, PoolAllocContiguous(n) PROVE PoolInv'
  BY <1>5, PoolAllocContiguousInv
<1>6. ASSUME NEW n \in 1 .. SLOTS, NEW s \in Slabs, PoolContiguousGrows(s, n) PROVE PoolInv'
  BY <1>6, PoolGrowsInv DEF PoolContiguousGrows
<1>7. ASSUME NEW o \in pool_live, PoolFree(o) PROVE PoolInv'
  <2>1. /\ o[3] = 1 /\ pool' = [pool EXCEPT !.active = o[1]] /\ pool_live' = pool_live \ {o}
        /\ slab' = [slab EXCEPT ![o[1]].bitmap = @ \ {o[2]}, ![o[1]].free_count = @ + 1]
    BY <1>7 DEF PoolFree
  <2>2. o[1] \in Slabs /\ o[2] \in Nat /\ pool \in PoolRecords
    BY DEF PoolInv, PoolTypeOK
  <2>3. Run(o[2], o[3]) = {o[2]}
    BY <2>1, <2>2 DEF Run
  <2>4. /\ pool' \in PoolRecords /\ pool'.slabs = pool.slabs /\ pool'.created = pool.created
        /\ pool'.active = o[1]
    BY <2>1, <2>2 DEF PoolRecords
  <2>5. slab' = [slab EXCEPT ![o[1]].bitmap = @ \ Run(o[2], o[3]), ![o[1]].free_count = @ + o[3]]
    BY <2>1, <2>3
  <2> QED
    BY <2>1, <2>4, <2>5, PoolGives
<1>8. ASSUME NEW o \in pool_live, PoolFreeContiguous(o) PROVE PoolInv'
  BY <1>8, PoolGives DEF PoolFreeContiguous, PoolInv, PoolTypeOK
<1>9. CASE UNCHANGED poolVars
  BY <1>9 DEF poolVars, PoolInv, PoolTypeOK, RunsApart, SlabExact, Mine, Covered, PoolSlabs
<1> QED
  BY <1>1, <1>2, <1>3, <1>4, <1>5, <1>6, <1>7, <1>8, <1>9 DEF PoolNext

LEMMA PoolSound ==
  ASSUME PoolInv
  PROVE  PoolExact /\ RunsApart
BY DEF PoolInv, SlabExact, Covered, Mine, PoolExact

-----------------------------------------------------------------------------
(* Batches: the invariant.                                                  *)

BatchFlags == {"use", "freeing", "no", "never"}
BatchPcs == {"idle", "alloc", "undo", "free", "flush", "delay", "reset"}
BlockSets == SUBSET BatchBlocks
BatchPageRecords == [flag : BatchFlags, heap : BOOLEAN, thread_free : BlockSets]
BucketRecords == [page : BatchPages \cup {NoPageB}, chain : SUBSET BatchBlocks]
BlockSeqs == Seq(BatchBlocks)
BucketArrays == [Buckets -> BucketRecords]
CallRecords == [pc : BatchPcs, count : Nat, ptrs : BlockSeqs, buckets : BucketArrays,
                bucket : BucketRecords]

BlocksOf(p) == {b \in BatchBlocks : BatchPageOf[b] = p}
Distinct(s) == \A i, j \in 1 .. Len(s) : s[i] = s[j] => i = j

\* The blocks in the hands of a call.
HeldBy(r) == Range(r.ptrs) \cup r.bucket.chain \cup UNION {r.buckets[h].chain : h \in Buckets}

\* A call has each of its blocks once, and each chain is of the page of its bucket.
CallOK(r) ==
  /\ r \in CallRecords /\ Distinct(r.ptrs)
  /\ r.bucket.chain \subseteq BlocksOf(r.bucket.page)
  /\ \A h \in Buckets : /\ r.buckets[h].chain \subseteq BlocksOf(r.buckets[h].page)
                        /\ r.buckets[h].chain \cap Range(r.ptrs) = {}
                        /\ r.buckets[h].chain \cap r.bucket.chain = {}
  /\ r.bucket.chain \cap Range(r.ptrs) = {}
  /\ \A h, k \in Buckets : h # k => r.buckets[h].chain \cap r.buckets[k].chain = {}
  /\ r.pc = "idle" => r.ptrs = <<>>
  /\ r.pc \in {"idle", "alloc", "undo"} => \A h \in Buckets : r.buckets[h].chain = {}
  /\ r.pc \in {"flush", "delay", "reset"} => r.bucket.page \in BatchPages
  /\ r.pc \notin {"flush", "delay"} => r.bucket.chain = {}

BatchTypeOK ==
  /\ bpage \in [BatchPages -> BatchPageRecords]
  /\ \A p \in BatchPages : bpage[p].thread_free \subseteq BlocksOf(p)
  /\ bfree \subseteq BatchBlocks /\ delayed \subseteq BatchBlocks
  /\ batches \subseteq Seq(BatchBlocks) /\ \A x \in batches : Distinct(x)
  /\ bth \in [Threads -> CallRecords] /\ \A t \in Threads : CallOK(bth[t])

\* Whoever has set the flag of a page to FREEING is the one that resets it; until then
\* the page keeps its heap.
Pins(t) == bth[t].pc \in {"delay", "reset"}
BatchPinned ==
  /\ \A p \in BatchPages : bpage[p].flag # "never" => bpage[p].heap
  /\ \A t \in Threads : Pins(t) => bpage[bth[t].bucket.page].flag = "freeing"
  /\ \A t, u \in Threads : Pins(t) /\ Pins(u) /\ t # u => bth[t].bucket.page # bth[u].bucket.page

\* Where a block is.
InBatches(b, q) == \E x \in batches : q = <<"batch", x>> /\ b \in Range(x)
InCalls(b, q) == \E t \in Threads : q = <<"call", t>> /\ b \in HeldBy(bth[t])
OnPlace(b, q) ==
  \/ q = <<"free", 0>> /\ b \in bfree
  \/ q = <<"delayed", 0>> /\ b \in delayed
  \/ q = <<"page", 0>> /\ b \in bpage[BatchPageOf[b]].thread_free
  \/ InBatches(b, q)
  \/ InCalls(b, q)

BatchPlaces == \A b \in BatchBlocks : \E q : \A r : OnPlace(b, r) <=> r = q

BatchInv == BatchTypeOK /\ BatchPinned /\ BatchPlaces

-----------------------------------------------------------------------------
(* Sequences of blocks.                                                     *)

LEMMA AppendBlock ==
  ASSUME NEW s \in Seq(BatchBlocks), NEW b \in BatchBlocks, Distinct(s), b \notin Range(s)
  PROVE  /\ Append(s, b) \in Seq(BatchBlocks) /\ Distinct(Append(s, b))
         /\ Range(Append(s, b)) = Range(s) \cup {b}
<1> DEFINE a == Append(s, b)
<1>1. /\ a \in Seq(BatchBlocks) /\ Len(a) = Len(s) + 1 /\ DOMAIN a = 1 .. Len(s) + 1
      /\ \A i \in 1 .. Len(s) : a[i] = s[i]
      /\ a[Len(s) + 1] = b
      /\ DOMAIN s = 1 .. Len(s) /\ Len(s) \in Nat
  OBVIOUS
<1> HIDE DEF a
<1>2. \A i \in 1 .. Len(s) : s[i] # b
  BY <1>1 DEF Range
<1>3. Distinct(a)
  BY <1>1, <1>2 DEF Distinct
<1>4. Range(a) = Range(s) \cup {b}
  BY <1>1 DEF Range
<1> QED
  BY <1>1, <1>3, <1>4 DEF a

LEMMA TailBlock ==
  ASSUME NEW s \in Seq(BatchBlocks), Distinct(s), s # <<>>
  PROVE  /\ Tail(s) \in Seq(BatchBlocks) /\ Distinct(Tail(s))
         /\ s[1] \in Range(s) /\ s[1] \in BatchBlocks /\ Range(Tail(s)) = Range(s) \ {s[1]}
<1> DEFINE a == Tail(s)
<1>1. /\ a \in Seq(BatchBlocks) /\ Len(a) = Len(s) - 1 /\ DOMAIN a = 1 .. Len(s) - 1
      /\ \A i \in 1 .. Len(s) - 1 : a[i] = s[i + 1]
      /\ DOMAIN s = 1 .. Len(s) /\ Len(s) \in Nat \ {0} /\ s[1] \in BatchBlocks
  OBVIOUS
<1> HIDE DEF a
<1>2. Distinct(a)
  BY <1>1 DEF Distinct
<1>3. s[1] \in Range(s)
  BY <1>1 DEF Range
<1>4. ASSUME NEW x \in Range(a) PROVE x \in Range(s) /\ x # s[1]
  <2>1. PICK i \in 1 .. Len(s) - 1 : x = a[i]
    BY <1>1 DEF Range
  <2>2. i + 1 \in 1 .. Len(s) /\ x = s[i + 1] /\ i + 1 # 1 /\ 1 \in 1 .. Len(s)
    BY <1>1, <2>1
  <2> QED
    BY <1>1, <2>2 DEF Range, Distinct
<1>5. ASSUME NEW x \in Range(s), x # s[1] PROVE x \in Range(a)
  <2>1. PICK i \in 1 .. Len(s) : x = s[i]
    BY <1>1 DEF Range
  <2>2. i - 1 \in 1 .. Len(s) - 1 /\ x = a[i - 1]
    BY <1>1, <1>5, <2>1
  <2> QED
    BY <1>1, <2>2 DEF Range
<1>6. Range(a) = Range(s) \ {s[1]}
  BY <1>4, <1>5
<1> QED
  BY <1>1, <1>2, <1>3, <1>6 DEF a

LEMMA FrontBlock ==
  ASSUME NEW s \in Seq(BatchBlocks), Distinct(s), s # <<>>
  PROVE  /\ Front(s) \in Seq(BatchBlocks) /\ Distinct(Front(s))
         /\ Last(s) \in Range(s) /\ Last(s) \in BatchBlocks /\ Range(Front(s)) = Range(s) \ {Last(s)}
<1> DEFINE a == Front(s)
           n == Len(s)
<1>1. /\ a \in Seq(BatchBlocks) /\ Len(a) = n - 1 /\ DOMAIN a = 1 .. n - 1
      /\ \A i \in 1 .. n - 1 : a[i] = s[i]
      /\ DOMAIN s = 1 .. n /\ n \in Nat \ {0} /\ s[n] \in BatchBlocks
  <2>1. n \in Nat \ {0} /\ DOMAIN s = 1 .. n /\ \A i \in 1 .. n : s[i] \in BatchBlocks
    OBVIOUS
  <2>2. a = SubSeq(s, 1, n - 1)
    BY DEF Front
  <2>3. a = [i \in 1 .. n - 1 |-> s[i]]
    <3>1. a = [i \in 1 .. (n - 1) - 1 + 1 |-> s[i + 1 - 1]]
      BY <2>1, <2>2
    <3>2. (n - 1) - 1 + 1 = n - 1 /\ \A i \in 1 .. n - 1 : i + 1 - 1 = i
      BY <2>1
    <3> HIDE DEF a, n
    <3> QED
      BY <3>1, <3>2
  <2> HIDE DEF a, n
  <2>4. /\ DOMAIN a = 1 .. n - 1 /\ a \in [1 .. n - 1 -> BatchBlocks] /\ n - 1 \in Nat
        /\ \A i \in 1 .. n - 1 : a[i] = s[i]
    BY <2>1, <2>3
  <2>5. a \in Seq(BatchBlocks) /\ Len(a) = n - 1
    BY <2>4
  <2> QED
    BY <2>1, <2>4, <2>5
<1>2. Last(s) = s[n]
  BY DEF Last
<1> HIDE DEF a, n
<1>3. \A i, j \in 1 .. n : s[i] = s[j] => i = j
  BY DEF Distinct, n
<1>4. Distinct(a)
  BY <1>1, <1>3 DEF Distinct
<1>5. s[n] \in Range(s)
  BY <1>1 DEF Range
<1>6. ASSUME NEW x \in Range(a) PROVE x \in Range(s) /\ x # s[n]
  <2>1. PICK i \in 1 .. n - 1 : x = a[i]
    BY <1>1 DEF Range
  <2>2. i \in 1 .. n /\ x = s[i] /\ i # n /\ n \in 1 .. n
    BY <1>1, <2>1
  <2> QED
    BY <1>1, <1>3, <2>2 DEF Range
<1>7. ASSUME NEW x \in Range(s), x # s[n] PROVE x \in Range(a)
  <2>1. PICK i \in 1 .. n : x = s[i]
    BY <1>1 DEF Range
  <2>2. i \in 1 .. n - 1 /\ x = a[i]
    BY <1>1, <1>7, <2>1
  <2> QED
    BY <1>1, <2>2 DEF Range
<1>8. Range(a) = Range(s) \ {s[n]}
  BY <1>6, <1>7
<1> QED
  BY <1>1, <1>2, <1>4, <1>5, <1>8 DEF a

-----------------------------------------------------------------------------
(* The steps of a call, on the record of its thread.                        *)

LEMMA CallFields ==
  ASSUME NEW r, CallOK(r)
  PROVE  /\ r \in CallRecords /\ r.pc \in BatchPcs /\ r.count \in Nat
         /\ r.ptrs \in Seq(BatchBlocks) /\ Distinct(r.ptrs) /\ r.buckets \in BucketArrays
         /\ r.buckets \in [Buckets -> BucketRecords] /\ r.bucket \in BucketRecords
         /\ \A h \in Buckets : r.buckets[h] \in BucketRecords /\ r.buckets[h].chain \in SUBSET BatchBlocks
         /\ r.bucket.chain \in SUBSET BatchBlocks
<1>1. /\ r \in CallRecords /\ Distinct(r.ptrs)
  BY DEF CallOK
<1>2. /\ r.pc \in BatchPcs /\ r.count \in Nat /\ r.ptrs \in BlockSeqs
      /\ r.buckets \in BucketArrays /\ r.bucket \in BucketRecords
  BY <1>1 DEF CallRecords
<1>3. \A k \in BucketRecords : k.chain \in SUBSET BatchBlocks
  BY DEF BucketRecords
<1> QED
  BY <1>1, <1>2, <1>3 DEF BlockSeqs, BucketArrays

LEMMA HeldMembers ==
  ASSUME NEW r, NEW x
  PROVE  x \in HeldBy(r) <=> \/ x \in Range(r.ptrs) \/ x \in r.bucket.chain
                             \/ \E h \in Buckets : x \in r.buckets[h].chain
BY DEF HeldBy

\* The record of a call with other fields.
IsCall(w, pc, s, d, k) ==
  w \in CallRecords /\ w.pc = pc /\ w.ptrs = s /\ w.buckets = d /\ w.bucket = k

LEMMA CallUpdates ==
  ASSUME NEW r \in CallRecords
  PROVE  /\ \A pc \in BatchPcs, n \in Nat :
              IsCall([r EXCEPT !.pc = pc, !.count = n], pc, r.ptrs, r.buckets, r.bucket)
         /\ \A pc \in BatchPcs : IsCall([r EXCEPT !.pc = pc], pc, r.ptrs, r.buckets, r.bucket)
         /\ \A s \in BlockSeqs : IsCall([r EXCEPT !.ptrs = s], r.pc, s, r.buckets, r.bucket)
         /\ \A pc \in BatchPcs, s \in BlockSeqs :
              IsCall([r EXCEPT !.pc = pc, !.ptrs = s], pc, s, r.buckets, r.bucket)
         /\ \A d \in BucketArrays, s \in BlockSeqs :
              IsCall([r EXCEPT !.buckets = d, !.ptrs = s], r.pc, s, d, r.bucket)
         /\ \A pc \in BatchPcs, k \in BucketRecords :
              IsCall([r EXCEPT !.pc = pc, !.bucket = k], pc, r.ptrs, r.buckets, k)
         /\ \A pc \in BatchPcs, k \in BucketRecords, d \in BucketArrays :
              IsCall([r EXCEPT !.pc = pc, !.bucket = k, !.buckets = d], pc, r.ptrs, d, k)
BY DEF CallRecords, IsCall

LEMMA NoBucketIs ==
  /\ NoBucket \in BucketRecords /\ NoBucket.chain = {} /\ NoBucket.page = NoPageB
  /\ NoPageB \notin BatchPages /\ BlocksOf(NoPageB) = {}
BY BatchAssumption DEF NoBucket, BucketRecords, BlocksOf

LEMMA IdleCall == CallOK(BatchIdle) /\ HeldBy(BatchIdle) = {}
<1>1. Range(<<>>) = {} /\ <<>> \in Seq(BatchBlocks) /\ Distinct(<<>>)
  BY DEF Range, Distinct
<1>2. EmptyBuckets \in [Buckets -> BucketRecords] /\ \A h \in Buckets : EmptyBuckets[h] = NoBucket
  BY NoBucketIs DEF EmptyBuckets
<1>3. BatchIdle \in CallRecords
  BY <1>1, <1>2, NoBucketIs DEF BatchIdle, CallRecords, BatchPcs, BlockSeqs, BucketArrays
<1>4. /\ BatchIdle.ptrs = <<>> /\ BatchIdle.bucket = NoBucket /\ BatchIdle.pc = "idle"
      /\ \A h \in Buckets : BatchIdle.buckets[h] = NoBucket
  BY <1>2 DEF BatchIdle
<1> QED
  BY <1>1, <1>3, <1>4, NoBucketIs DEF CallOK, HeldBy

\* A call that is at rest or allocates has no block but those of its array.
LEMMA HeldInArray ==
  ASSUME NEW r, CallOK(r), r.pc \in {"idle", "alloc", "undo"}
  PROVE  HeldBy(r) = Range(r.ptrs)
BY DEF CallOK, HeldBy

\* The program counter moves, where the blocks may be as they are.
LEMMA CallGoes ==
  ASSUME NEW r, CallOK(r), NEW pc \in BatchPcs, NEW n \in Nat,
         \/ r.pc \in {"idle", "alloc"} /\ pc \in {"alloc", "undo"}
         \/ r.pc = "flush" /\ pc = "delay"
  PROVE  /\ CallOK([r EXCEPT !.pc = pc, !.count = n]) /\ CallOK([r EXCEPT !.pc = pc])
         /\ HeldBy([r EXCEPT !.pc = pc, !.count = n]) = HeldBy(r)
         /\ HeldBy([r EXCEPT !.pc = pc]) = HeldBy(r)
<1> SUFFICES ASSUME NEW w \in {[r EXCEPT !.pc = pc, !.count = n], [r EXCEPT !.pc = pc]}
             PROVE  CallOK(w) /\ HeldBy(w) = HeldBy(r)
  OBVIOUS
<1>1. IsCall(w, pc, r.ptrs, r.buckets, r.bucket)
  <2>1. r \in CallRecords
    BY CallFields
  <2>2. IsCall([r EXCEPT !.pc = pc, !.count = n], pc, r.ptrs, r.buckets, r.bucket)
    BY <2>1, CallUpdates
  <2>3. IsCall([r EXCEPT !.pc = pc], pc, r.ptrs, r.buckets, r.bucket)
    BY <2>1, CallUpdates
  <2> QED
    BY <2>2, <2>3
<1> QED
  BY <1>1 DEF CallOK, HeldBy, IsCall

LEMMA CallAppends ==
  ASSUME NEW r, CallOK(r), r.pc = "alloc", NEW b \in BatchBlocks, b \notin HeldBy(r)
  PROVE  LET w == [r EXCEPT !.ptrs = Append(r.ptrs, b)]
         IN CallOK(w) /\ HeldBy(w) = HeldBy(r) \cup {b}
<1> DEFINE w == [r EXCEPT !.ptrs = Append(r.ptrs, b)]
<1>1. /\ Append(r.ptrs, b) \in Seq(BatchBlocks) /\ Distinct(Append(r.ptrs, b))
      /\ Range(Append(r.ptrs, b)) = Range(r.ptrs) \cup {b}
  BY CallFields, AppendBlock DEF HeldBy
<1> DEFINE a == Append(r.ptrs, b)
<1> HIDE DEF a
<1>2. /\ w \in CallRecords /\ w.pc = "alloc" /\ w.ptrs = Append(r.ptrs, b) /\ w.buckets = r.buckets
      /\ w.bucket = r.bucket
  <2>1. a \in BlockSeqs
    BY <1>1 DEF a, BlockSeqs
  <2>2. LET q == [r EXCEPT !.ptrs = a]
        IN q \in CallRecords /\ q.pc = r.pc /\ q.ptrs = a /\ q.buckets = r.buckets /\ q.bucket = r.bucket
    BY <2>1, CallFields, CallUpdates DEF IsCall
  <2> QED
    BY <2>2 DEF a
<1> HIDE DEF w
<1>3. CallOK(w)
  BY <1>1, <1>2 DEF CallOK
<1>4. HeldBy(w) = HeldBy(r) \cup {b}
  BY <1>1, <1>2 DEF HeldBy
<1> QED
  BY <1>3, <1>4 DEF w

\* A block leaves the array, and the call.
LEMMA CallDrops ==
  ASSUME NEW r, CallOK(r), NEW s \in Seq(BatchBlocks), Distinct(s), NEW b \in Range(r.ptrs),
         Range(s) = Range(r.ptrs) \ {b}, r.pc # "idle"
  PROVE  LET w == [r EXCEPT !.ptrs = s]
         IN CallOK(w) /\ HeldBy(w) = HeldBy(r) \ {b}
<1> DEFINE w == [r EXCEPT !.ptrs = s]
<1>1. /\ w \in CallRecords /\ w.pc = r.pc /\ w.ptrs = s /\ w.buckets = r.buckets
      /\ w.bucket = r.bucket
  <2>1. r \in CallRecords /\ s \in BlockSeqs
    BY CallFields DEF BlockSeqs
  <2> HIDE DEF w
  <2>2. IsCall(w, r.pc, s, r.buckets, r.bucket)
    BY <2>1, CallUpdates DEF w
  <2> QED
    BY <2>2 DEF IsCall
<1> HIDE DEF w
<1>2. CallOK(w)
  BY <1>1 DEF CallOK
<1>3. HeldBy(w) = HeldBy(r) \ {b}
  <2>1. b \notin r.bucket.chain /\ \A h \in Buckets : b \notin r.buckets[h].chain
    BY DEF CallOK
  <2>2. \A x : x \in HeldBy(w) <=> x \in HeldBy(r) /\ x # b
    BY <1>1, <2>1, HeldMembers
  <2> QED
    BY <2>2
<1> QED
  BY <1>2, <1>3 DEF w

\* pa_vector_batch_free is given an array.
LEMMA CallFrees ==
  ASSUME NEW r, CallOK(r), r.pc = "idle", NEW s \in Seq(BatchBlocks), Distinct(s)
  PROVE  LET w == [r EXCEPT !.pc = "free", !.ptrs = s]
         IN CallOK(w) /\ HeldBy(w) = Range(s) /\ HeldBy(r) = {}
<1> DEFINE w == [r EXCEPT !.pc = "free", !.ptrs = s]
<1>1. /\ w \in CallRecords /\ w.pc = "free" /\ w.ptrs = s /\ w.buckets = r.buckets
      /\ w.bucket = r.bucket
  <2>1. "free" \in BatchPcs /\ s \in BlockSeqs /\ r \in CallRecords
    BY CallFields DEF BatchPcs, BlockSeqs
  <2>2. IsCall(w, "free", s, r.buckets, r.bucket)
    BY <2>1, CallUpdates
  <2> QED
    BY <2>2 DEF IsCall
<1> HIDE DEF w
<1>2. /\ r.bucket.chain = {} /\ r.ptrs = <<>> /\ \A h \in Buckets : r.buckets[h].chain = {}
  BY DEF CallOK
<1>3. CallOK(w)
  BY <1>1, <1>2 DEF CallOK
<1>4. HeldBy(w) = Range(s) /\ HeldBy(r) = {}
  BY <1>1, <1>2 DEF HeldBy, Range
<1> QED
  BY <1>3, <1>4 DEF w

\* A block goes into the bucket of its page.
LEMMA CallBuckets ==
  ASSUME NEW r, CallOK(r), r.pc = "free", r.ptrs # <<>>, NEW p \in BatchPages, NEW h \in Buckets,
         BatchPageOf[r.ptrs[1]] = p, r.buckets[h].page \in {NoPageB, p}
  PROVE  LET w == [r EXCEPT !.buckets[h] = [page |-> p, chain |-> @.chain \cup {r.ptrs[1]}],
                            !.ptrs = Tail(@)]
         IN CallOK(w) /\ HeldBy(w) = HeldBy(r)
<1> DEFINE b == r.ptrs[1]
           bucket == [page |-> p, chain |-> r.buckets[h].chain \cup {b}]
           w == [r EXCEPT !.buckets[h] = [page |-> p, chain |-> @.chain \cup {r.ptrs[1]}],
                          !.ptrs = Tail(@)]
<1>1. /\ Tail(r.ptrs) \in Seq(BatchBlocks) /\ Distinct(Tail(r.ptrs))
      /\ b \in Range(r.ptrs) /\ b \in BatchBlocks /\ Range(Tail(r.ptrs)) = Range(r.ptrs) \ {b}
  BY CallFields, TailBlock
<1>2. bucket \in BucketRecords /\ bucket.page = p /\ bucket.chain = r.buckets[h].chain \cup {b}
  BY <1>1, CallFields DEF BucketRecords
<1>3. w = [r EXCEPT !.buckets = [r.buckets EXCEPT ![h] = bucket], !.ptrs = Tail(r.ptrs)]
  BY CallFields DEF CallRecords
<1>4. [r.buckets EXCEPT ![h] = bucket] \in [Buckets -> BucketRecords]
  BY <1>2, CallFields
<1>5. /\ w \in CallRecords /\ w.pc = "free" /\ w.ptrs = Tail(r.ptrs) /\ w.bucket = r.bucket
      /\ w.buckets = [r.buckets EXCEPT ![h] = bucket]
  <2> DEFINE d == [r.buckets EXCEPT ![h] = bucket]
             q == Tail(r.ptrs)
  <2>1. d \in BucketArrays /\ q \in BlockSeqs /\ w = [r EXCEPT !.buckets = d, !.ptrs = q]
    BY <1>1, <1>3, <1>4 DEF BucketArrays, BlockSeqs
  <2> HIDE DEF d, q, w
  <2>2. r \in CallRecords
    BY CallFields
  <2>3. IsCall(w, r.pc, q, d, r.bucket)
    BY <2>1, <2>2, CallUpdates
  <2> QED
    BY <2>3 DEF d, q, IsCall
<1>6. \A k \in Buckets : w.buckets[k] = IF k = h THEN bucket ELSE r.buckets[k]
  BY <1>5, CallFields
<1>7. bucket.chain \subseteq BlocksOf(p)
  BY <1>1, <1>2, NoBucketIs DEF CallOK, BlocksOf
<1>8. /\ \A k \in Buckets : b \notin r.buckets[k].chain
      /\ b \notin r.bucket.chain /\ r.bucket.chain = {}
  BY <1>1 DEF CallOK
<1> HIDE DEF w, bucket, b
<1>9. CallOK(w)
  <2>1. \A k \in Buckets : /\ w.buckets[k].chain \subseteq BlocksOf(w.buckets[k].page)
                           /\ w.buckets[k].chain \cap Range(w.ptrs) = {}
                           /\ w.buckets[k].chain \cap w.bucket.chain = {}
    BY <1>1, <1>2, <1>5, <1>6, <1>7, <1>8 DEF CallOK
  <2>2. \A k, m \in Buckets : k # m => w.buckets[k].chain \cap w.buckets[m].chain = {}
    BY <1>2, <1>6, <1>8 DEF CallOK
  <2> QED
    BY <1>1, <1>5, <1>8, <2>1, <2>2 DEF CallOK
<1>10. \A x : (\E k \in Buckets : x \in w.buckets[k].chain)
                <=> (\E k \in Buckets : x \in r.buckets[k].chain) \/ x = b
  BY <1>2, <1>6
<1>11. \A x : x \in HeldBy(w) <=> x \in HeldBy(r)
  <2>1. \A x : x \in Range(w.ptrs) <=> x \in Range(r.ptrs) /\ x # b
    BY <1>1, <1>5 DEF b
  <2>2. w.bucket = r.bucket /\ b \in Range(r.ptrs)
    BY <1>1, <1>5
  <2> QED
    BY <1>10, <2>1, <2>2, HeldMembers
<1> QED
  BY <1>9, <1>11 DEF w

\* A bucket is flushed.
LEMMA CallFlushes ==
  ASSUME NEW r, CallOK(r), r.pc = "free", NEW h \in Buckets, r.buckets[h].page \in BatchPages
  PROVE  LET w == [r EXCEPT !.pc = "flush", !.bucket = r.buckets[h], !.buckets[h] = NoBucket]
         IN CallOK(w) /\ HeldBy(w) = HeldBy(r)
<1> DEFINE bucket == r.buckets[h]
           w == [r EXCEPT !.pc = "flush", !.bucket = r.buckets[h], !.buckets[h] = NoBucket]
<1>1. /\ w \in CallRecords /\ w.pc = "flush" /\ w.ptrs = r.ptrs /\ w.bucket = bucket
      /\ w.buckets = [r.buckets EXCEPT ![h] = NoBucket]
  <2> DEFINE d == [r.buckets EXCEPT ![h] = NoBucket]
  <2>1. "flush" \in BatchPcs /\ bucket \in BucketRecords /\ d \in BucketArrays
    BY CallFields, NoBucketIs DEF BatchPcs, BucketArrays
  <2>2. w = [r EXCEPT !.pc = "flush", !.bucket = bucket, !.buckets = d]
    BY CallFields DEF CallRecords
  <2> HIDE DEF d, w, bucket
  <2>3. IsCall(w, "flush", r.ptrs, d, bucket)
    BY <2>1, <2>2, CallFields, CallUpdates
  <2> QED
    BY <2>3 DEF IsCall, d
<1>2. \A k \in Buckets : w.buckets[k] = IF k = h THEN NoBucket ELSE r.buckets[k]
  BY <1>1, CallFields
<1> HIDE DEF w
<1>3. r.bucket.chain = {}
  BY DEF CallOK
<1>4. CallOK(w)
  <2>1. \A k \in Buckets : /\ w.buckets[k].chain \subseteq BlocksOf(w.buckets[k].page)
                           /\ w.buckets[k].chain \cap Range(w.ptrs) = {}
                           /\ w.buckets[k].chain \cap w.bucket.chain = {}
    BY <1>1, <1>2, NoBucketIs DEF CallOK
  <2>2. \A k, m \in Buckets : k # m => w.buckets[k].chain \cap w.buckets[m].chain = {}
    BY <1>2, NoBucketIs DEF CallOK
  <2> QED
    BY <1>1, <2>1, <2>2 DEF CallOK
<1>5. \A x : (\E k \in Buckets : x \in r.buckets[k].chain)
               <=> (\E k \in Buckets : x \in w.buckets[k].chain) \/ x \in bucket.chain
  BY <1>2, NoBucketIs
<1>6. \A x : x \in HeldBy(w) <=> x \in HeldBy(r)
  BY <1>1, <1>3, <1>5, HeldMembers
<1> QED
  BY <1>4, <1>6 DEF w

\* The chain is gone.
LEMMA CallSplices ==
  ASSUME NEW r, CallOK(r), r.pc \in {"flush", "delay", "reset"}
  PROVE  LET w == [r EXCEPT !.pc = "free", !.bucket = NoBucket]
             v == [r EXCEPT !.pc = "reset", !.bucket.chain = {}]
         IN /\ CallOK(w) /\ HeldBy(w) = HeldBy(r) \ r.bucket.chain
            /\ CallOK(v) /\ HeldBy(v) = HeldBy(r) \ r.bucket.chain
            /\ v.bucket.page = r.bucket.page
<1> DEFINE w == [r EXCEPT !.pc = "free", !.bucket = NoBucket]
           v == [r EXCEPT !.pc = "reset", !.bucket.chain = {}]
           bucket == [r.bucket EXCEPT !.chain = {}]
<1>1. /\ w \in CallRecords /\ w.pc = "free" /\ w.ptrs = r.ptrs /\ w.bucket = NoBucket
      /\ w.buckets = r.buckets
  <2>1. "free" \in BatchPcs /\ NoBucket \in BucketRecords /\ r \in CallRecords
    BY CallFields, NoBucketIs DEF BatchPcs
  <2>2. IsCall(w, "free", r.ptrs, r.buckets, NoBucket)
    BY <2>1, CallUpdates
  <2> QED
    BY <2>2 DEF IsCall
<1>2. bucket \in BucketRecords /\ bucket.chain = {} /\ bucket.page = r.bucket.page
  BY CallFields DEF BucketRecords
<1>3. /\ v \in CallRecords /\ v.pc = "reset" /\ v.ptrs = r.ptrs /\ v.bucket = bucket
      /\ v.buckets = r.buckets
  <2>1. v = [r EXCEPT !.pc = "reset", !.bucket = bucket]
    BY CallFields DEF CallRecords
  <2>2. "reset" \in BatchPcs /\ r \in CallRecords
    BY CallFields DEF BatchPcs
  <2> HIDE DEF v, bucket
  <2>3. IsCall(v, "reset", r.ptrs, r.buckets, bucket)
    BY <1>2, <2>1, <2>2, CallUpdates
  <2> QED
    BY <2>3 DEF IsCall
<1> HIDE DEF w, v, bucket
<1>4. /\ r.bucket.chain \cap Range(r.ptrs) = {}
      /\ \A h \in Buckets : r.buckets[h].chain \cap r.bucket.chain = {}
      /\ r.bucket.page \in BatchPages
  BY DEF CallOK
<1>5. CallOK(w)
  BY <1>1, NoBucketIs DEF CallOK
<1>6. CallOK(v)
  BY <1>2, <1>3, <1>4 DEF CallOK
<1>7. HeldBy(w) = HeldBy(r) \ r.bucket.chain
  BY <1>1, <1>4, NoBucketIs DEF HeldBy
<1>8. HeldBy(v) = HeldBy(r) \ r.bucket.chain
  BY <1>2, <1>3, <1>4 DEF HeldBy
<1> QED
  BY <1>2, <1>3, <1>5, <1>6, <1>7, <1>8 DEF w, v

-----------------------------------------------------------------------------
(* The parts of the invariant under a step.                                 *)

LEMMA BatchOnly ==
  ASSUME BatchPlaces, NEW b \in BatchBlocks, NEW q, NEW r, OnPlace(b, q), OnPlace(b, r)
  PROVE  q = r
<1>1. PICK x : \A y : OnPlace(b, y) <=> y = x
  BY DEF BatchPlaces
<1> QED
  BY <1>1

\* Every block stays where it is, or moves from its place to another.
Stays(b) == \A q : OnPlace(b, q)' <=> OnPlace(b, q)
Moves(b, from, to) ==
  OnPlace(b, from) /\ \A q : OnPlace(b, q)' <=> (OnPlace(b, q) /\ q # from) \/ q = to

LEMMA BatchMoves ==
  ASSUME BatchPlaces, \A b \in BatchBlocks : Stays(b) \/ \E from, to : Moves(b, from, to)
  PROVE  BatchPlaces'
<1> SUFFICES ASSUME NEW b \in BatchBlocks PROVE \E q : \A r : OnPlace(b, r)' <=> r = q
  BY DEF BatchPlaces
<1>1. PICK x : \A y : OnPlace(b, y) <=> y = x
  BY DEF BatchPlaces
<1>2. CASE Stays(b)
  BY <1>1, <1>2 DEF Stays
<1>3. ASSUME NEW from, NEW to, Moves(b, from, to) PROVE \E q : \A r : OnPlace(b, r)' <=> r = q
  <2>1. from = x
    BY <1>1, <1>3 DEF Moves
  <2>2. \A r : OnPlace(b, r)' <=> r = to
    BY <1>1, <1>3, <2>1 DEF Moves
  <2> QED
    BY <2>2
<1> QED
  BY <1>2, <1>3

LEMMA BatchCall ==
  ASSUME BatchTypeOK, NEW t \in Threads, NEW w, CallOK(w), bth' = [bth EXCEPT ![t] = w]
  PROVE  /\ bth' \in [Threads -> CallRecords]
         /\ \A u \in Threads : bth'[u] = (IF u = t THEN w ELSE bth[u]) /\ CallOK(bth'[u])
         /\ \A b, q : InCalls(b, q)' <=> \/ InCalls(b, q) /\ q # <<"call", t>>
                                         \/ q = <<"call", t>> /\ b \in HeldBy(w)
<1>1. w \in CallRecords /\ bth \in [Threads -> CallRecords]
  BY CallFields DEF BatchTypeOK
<1>2. /\ bth' \in [Threads -> CallRecords]
      /\ \A u \in Threads : bth'[u] = IF u = t THEN w ELSE bth[u]
  BY <1>1
<1>3. \A u \in Threads : CallOK(bth'[u])
  BY <1>2 DEF BatchTypeOK
<1>4. ASSUME NEW b, NEW q
      PROVE  InCalls(b, q)' <=> \/ InCalls(b, q) /\ q # <<"call", t>>
                                \/ q = <<"call", t>> /\ b \in HeldBy(w)
  <2>1. InCalls(b, q)' <=> \E u \in Threads : q = <<"call", u>> /\ b \in HeldBy(bth'[u])
    BY DEF InCalls, HeldBy
  <2>2. \A u \in Threads : <<"call", u>> = <<"call", t>> <=> u = t
    OBVIOUS
  <2> QED
    BY <1>2, <2>1, <2>2 DEF InCalls
<1> QED
  BY <1>2, <1>3, <1>4

LEMMA InCallsIs ==
  ASSUME NEW t \in Threads, NEW b
  PROVE  InCalls(b, <<"call", t>>) <=> b \in HeldBy(bth[t])
<1>1. \A u \in Threads : <<"call", u>> = <<"call", t>> <=> u = t
  OBVIOUS
<1> QED
  BY <1>1 DEF InCalls

LEMMA InBatchesIs ==
  ASSUME NEW x \in batches, NEW b
  PROVE  InBatches(b, <<"batch", x>>) <=> b \in Range(x)
<1>1. \A y \in batches : <<"batch", y>> = <<"batch", x>> <=> y = x
  OBVIOUS
<1> QED
  BY <1>1 DEF InBatches

LEMMA PlaceTags ==
  ASSUME NEW b, NEW q
  PROVE  /\ InBatches(b, q) \/ InBatches(b, q)' => q[1] = "batch"
         /\ InCalls(b, q) \/ InCalls(b, q)' => q[1] = "call"
BY DEF InBatches, InCalls

\* What a page is after a step of its fields.
IsPage(w, flag, heap, S) ==
  w \in BatchPageRecords /\ w.flag = flag /\ w.heap = heap /\ w.thread_free = S

LEMMA PageUpdates ==
  ASSUME NEW r \in BatchPageRecords
  PROVE  /\ \A f \in BatchFlags : IsPage([r EXCEPT !.flag = f], f, r.heap, r.thread_free)
         /\ \A h \in BOOLEAN : IsPage([r EXCEPT !.heap = h], r.flag, h, r.thread_free)
         /\ \A S \in BlockSets : IsPage([r EXCEPT !.thread_free = S], r.flag, r.heap, S)
         /\ \A S \in BlockSets, f \in BatchFlags :
              IsPage([r EXCEPT !.thread_free = S, !.flag = f], f, r.heap, S)
         /\ \A h \in BOOLEAN, f \in BatchFlags :
              IsPage([r EXCEPT !.heap = h, !.flag = f], f, h, r.thread_free)
BY DEF BatchPageRecords, IsPage

LEMMA PageFields ==
  ASSUME BatchTypeOK, NEW p \in BatchPages
  PROVE  /\ bpage[p] \in BatchPageRecords /\ bpage[p].flag \in BatchFlags /\ bpage[p].heap \in BOOLEAN
         /\ bpage[p].thread_free \in BlockSets /\ bpage[p].thread_free \subseteq BlocksOf(p)
BY DEF BatchTypeOK, BatchPageRecords

LEMMA BatchPage ==
  ASSUME BatchTypeOK, NEW p \in BatchPages, NEW w, NEW f, NEW h, NEW S, IsPage(w, f, h, S),
         S \subseteq BlocksOf(p), bpage' = [bpage EXCEPT ![p] = w]
  PROVE  /\ bpage' \in [BatchPages -> BatchPageRecords]
         /\ \A q \in BatchPages : bpage'[q] = (IF q = p THEN w ELSE bpage[q])
         /\ \A q \in BatchPages : bpage'[q].thread_free \subseteq BlocksOf(q)
         /\ bpage'[p].flag = f /\ bpage'[p].heap = h /\ bpage'[p].thread_free = S
<1>1. bpage \in [BatchPages -> BatchPageRecords] /\ w \in BatchPageRecords
  BY DEF BatchTypeOK, IsPage
<1>2. \A q \in BatchPages : bpage[q].thread_free \subseteq BlocksOf(q)
  BY DEF BatchTypeOK
<1>3. /\ bpage' \in [BatchPages -> BatchPageRecords]
      /\ \A q \in BatchPages : bpage'[q] = IF q = p THEN w ELSE bpage[q]
  BY <1>1
<1> QED
  BY <1>2, <1>3 DEF IsPage

\* The flags and heaps of the pages stay, and no thread comes to pin a page.
LEMMA PinnedKept ==
  ASSUME BatchTypeOK, BatchPinned, NEW t \in Threads, NEW w, CallOK(w), bth' = [bth EXCEPT ![t] = w],
         \A p \in BatchPages : bpage'[p].flag = bpage[p].flag /\ bpage'[p].heap = bpage[p].heap,
         w.pc \in {"delay", "reset"} => Pins(t) /\ w.bucket.page = bth[t].bucket.page
  PROVE  BatchPinned'
<1>1. \A u \in Threads : bth'[u] = IF u = t THEN w ELSE bth[u]
  BY BatchCall
<1>2. \A u \in Threads : Pins(u)' => Pins(u) /\ bth'[u].bucket.page = bth[u].bucket.page
  BY <1>1 DEF Pins
<1>3. \A u \in Threads : Pins(u) => bth[u].bucket.page \in BatchPages
  BY DEF Pins, BatchTypeOK, CallOK
<1> QED
  BY <1>2, <1>3 DEF BatchPinned

\* A step of a thread that moves no block and leaves the pages alone.
LEMMA BatchWithin ==
  ASSUME BatchInv, NEW t \in Threads, NEW w, CallOK(w), HeldBy(w) = HeldBy(bth[t]),
         bth' = [bth EXCEPT ![t] = w], w.pc \notin {"delay", "reset"},
         UNCHANGED <<bpage, delayed, bfree, batches>>
  PROVE  BatchInv'
<1>0. BatchTypeOK /\ BatchPinned /\ BatchPlaces
  BY DEF BatchInv
<1>1. /\ bth' \in [Threads -> CallRecords]
      /\ \A u \in Threads : CallOK(bth'[u])
      /\ \A b, q : InCalls(b, q)' <=> \/ InCalls(b, q) /\ q # <<"call", t>>
                                      \/ q = <<"call", t>> /\ b \in HeldBy(w)
  BY <1>0, BatchCall
<1>2. \A b, q : InCalls(b, q)' <=> InCalls(b, q)
  BY <1>1, InCallsIs
<1>3. \A b \in BatchBlocks : Stays(b)
  BY <1>2 DEF Stays, OnPlace, InBatches
<1>4. BatchPlaces'
  BY <1>0, <1>3, BatchMoves
<1>5. BatchTypeOK'
  BY <1>0, <1>1 DEF BatchTypeOK
<1>6. BatchPinned'
  BY <1>0, PinnedKept
<1> QED
  BY <1>4, <1>5, <1>6 DEF BatchInv

-----------------------------------------------------------------------------
(* The steps of pa_vector_batch_alloc and pa_vector_batch_free.             *)

LEMMA BatchThread ==
  ASSUME BatchInv, NEW t \in Threads
  PROVE  /\ CallOK(bth[t]) /\ bth \in [Threads -> CallRecords] /\ bth[t] \in CallRecords
         /\ BatchTypeOK /\ BatchPinned /\ BatchPlaces
BY DEF BatchInv, BatchTypeOK

LEMMA BatchAllocInv ==
  ASSUME BatchInv, NEW t \in Threads, NEW n \in 1 .. MaxBatch, BatchAlloc(t, n)
  PROVE  BatchInv'
<1> DEFINE w == [bth[t] EXCEPT !.pc = "alloc", !.count = n]
<1>1. n \in Nat /\ "alloc" \in BatchPcs /\ bth[t].pc = "idle"
  BY BatchAssumption DEF BatchPcs, BatchAlloc, BatchAt
<1>2. CallOK(w) /\ HeldBy(w) = HeldBy(bth[t])
  BY <1>1, BatchThread, CallGoes
<1>3. w.pc = "alloc"
  BY BatchThread DEF CallRecords
<1>4. bth' = [bth EXCEPT ![t] = w]
  BY BatchThread DEF BatchAlloc
<1> HIDE DEF w
<1> QED
  BY <1>2, <1>3, <1>4, BatchWithin DEF BatchAlloc

LEMMA BatchAllocFailsInv ==
  ASSUME BatchInv, NEW t \in Threads, BatchAllocFails(t)
  PROVE  BatchInv'
<1> DEFINE w == [bth[t] EXCEPT !.pc = "undo"]
<1>1. "undo" \in BatchPcs /\ bth[t].pc = "alloc"
  BY DEF BatchPcs, BatchAllocFails, BatchAt
<1>2. CallOK(w) /\ HeldBy(w) = HeldBy(bth[t])
  <2>1. 0 \in Nat
    OBVIOUS
  <2> QED
    BY <1>1, <2>1, BatchThread, CallGoes
<1>3. w.pc = "undo"
  BY BatchThread DEF CallRecords
<1>4. bth' = [bth EXCEPT ![t] = w]
  BY BatchThread DEF BatchAllocFails
<1> HIDE DEF w
<1> QED
  BY <1>2, <1>3, <1>4, BatchWithin DEF BatchAllocFails

LEMMA BatchAllocOneInv ==
  ASSUME BatchInv, NEW t \in Threads, NEW b \in BatchBlocks, BatchAllocOne(t, b)
  PROVE  BatchInv'
<1> DEFINE r == bth[t]
           ptrs == Append(r.ptrs, b)
           v == [r EXCEPT !.ptrs = ptrs]
           w == IF Len(ptrs) = r.count THEN BatchIdle ELSE v
           last == Len(ptrs) = r.count
<1>1. /\ r.pc = "alloc" /\ b \in bfree /\ bfree' = bfree \ {b}
      /\ batches' = IF last THEN batches \cup {ptrs} ELSE batches
      /\ bpage' = bpage /\ delayed' = delayed
  BY DEF BatchAllocOne, BatchAt
<1>2. /\ CallOK(r) /\ bth \in [Threads -> CallRecords] /\ r \in CallRecords
      /\ BatchTypeOK /\ BatchPinned /\ BatchPlaces
  BY BatchThread
<1>3. bth' = [bth EXCEPT ![t] = w]
  <2>1. CASE last
    BY <2>1 DEF BatchAllocOne
  <2>2. CASE ~last
    BY <1>2, <2>2 DEF BatchAllocOne
  <2> QED
    BY <2>1, <2>2
<1>4. b \notin HeldBy(r)
  <2> SUFFICES ASSUME b \in HeldBy(r) PROVE FALSE
    OBVIOUS
  <2>1. OnPlace(b, <<"call", t>>)
    BY InCallsIs DEF OnPlace
  <2>2. OnPlace(b, <<"free", 0>>)
    BY <1>1 DEF OnPlace
  <2> QED
    BY <1>2, <2>1, <2>2, BatchOnly
<1>5. HeldBy(r) = Range(r.ptrs)
  BY <1>1, <1>2, HeldInArray
<1>6. /\ ptrs \in Seq(BatchBlocks) /\ Distinct(ptrs) /\ Range(ptrs) = Range(r.ptrs) \cup {b}
  <2>1. r.ptrs \in Seq(BatchBlocks) /\ Distinct(r.ptrs)
    BY <1>2, CallFields
  <2> QED
    BY <1>4, <1>5, <2>1, AppendBlock
<1>7. CallOK(v) /\ HeldBy(v) = HeldBy(r) \cup {b}
  BY <1>1, <1>2, <1>4, CallAppends
<1>8. CallOK(w) /\ HeldBy(w) = IF last THEN {} ELSE HeldBy(r) \cup {b}
  BY <1>7, IdleCall
<1>9. w.pc \notin {"delay", "reset"}
  <2>1. v.pc = "alloc"
    BY <1>1, <1>2 DEF CallRecords
  <2> QED
    BY <2>1 DEF BatchIdle
<1> HIDE DEF v, w, last, ptrs
<1>10. /\ bth' \in [Threads -> CallRecords]
       /\ \A u \in Threads : CallOK(bth'[u])
       /\ \A c, q : InCalls(c, q)' <=> \/ InCalls(c, q) /\ q # <<"call", t>>
                                       \/ q = <<"call", t>> /\ c \in HeldBy(w)
  BY <1>2, <1>3, <1>8, BatchCall
<1>11. \A c : InCalls(c, <<"call", t>>) <=> c \in HeldBy(r)
  BY InCallsIs
<1>12. \A c, q : InBatches(c, q)' <=> \/ InBatches(c, q)
                                      \/ last /\ q = <<"batch", ptrs>> /\ c \in Range(ptrs)
  BY <1>1 DEF InBatches
<1>13. ASSUME NEW c \in BatchBlocks PROVE Stays(c) \/ \E from, to : Moves(c, from, to)
  <2>1. CASE ~last /\ c = b
    <3>1. Moves(c, <<"free", 0>>, <<"call", t>>)
      BY <1>1, <1>8, <1>10, <1>12, <2>1, PlaceTags DEF Moves, OnPlace
    <3> QED
      BY <3>1
  <2>2. CASE ~last /\ c # b
    BY <1>1, <1>8, <1>10, <1>11, <1>12, <2>2 DEF Stays, OnPlace
  <2>3. CASE last /\ c = b
    <3>1. \A q : InCalls(c, q)' <=> InCalls(c, q)
      BY <1>4, <1>8, <1>10, <1>11, <2>3
    <3>2. Moves(c, <<"free", 0>>, <<"batch", ptrs>>)
      BY <1>1, <1>6, <1>12, <2>3, <3>1, PlaceTags DEF Moves, OnPlace
    <3> QED
      BY <3>2
  <2>4. CASE last /\ c # b /\ c \in HeldBy(r)
    <3>1. Moves(c, <<"call", t>>, <<"batch", ptrs>>)
      BY <1>1, <1>5, <1>6, <1>8, <1>10, <1>11, <1>12, <2>4 DEF Moves, OnPlace, InBatches
    <3> QED
      BY <3>1
  <2>5. CASE last /\ c # b /\ c \notin HeldBy(r)
    BY <1>1, <1>5, <1>6, <1>8, <1>10, <1>11, <1>12, <2>5 DEF Stays, OnPlace
  <2> QED
    BY <2>1, <2>2, <2>3, <2>4, <2>5
<1>14. BatchPlaces'
  BY <1>2, <1>13, BatchMoves
<1>15. BatchTypeOK'
  BY <1>1, <1>2, <1>6, <1>10 DEF BatchTypeOK
<1>16. BatchPinned'
  BY <1>1, <1>2, <1>3, <1>8, <1>9, PinnedKept
<1> QED
  BY <1>14, <1>15, <1>16 DEF BatchInv

\* A block of the array goes back to a free list.
LEMMA BatchGivesBack ==
  ASSUME BatchInv, NEW t \in Threads, NEW b \in BatchBlocks, b \in HeldBy(bth[t]),
         NEW w, CallOK(w), HeldBy(w) = HeldBy(bth[t]) \ {b}, w.pc \notin {"delay", "reset"},
         bth' = [bth EXCEPT ![t] = w], bfree' = bfree \cup {b}, UNCHANGED <<bpage, delayed, batches>>
  PROVE  BatchInv'
<1>1. BatchTypeOK /\ BatchPinned /\ BatchPlaces
  BY BatchThread
<1>2. /\ bth' \in [Threads -> CallRecords]
      /\ \A u \in Threads : CallOK(bth'[u])
      /\ \A c, q : InCalls(c, q)' <=> \/ InCalls(c, q) /\ q # <<"call", t>>
                                      \/ q = <<"call", t>> /\ c \in HeldBy(w)
  BY <1>1, BatchCall
<1>3. \A c : InCalls(c, <<"call", t>>) <=> c \in HeldBy(bth[t])
  BY InCallsIs
<1>4. \A c, q : InBatches(c, q)' <=> InBatches(c, q)
  BY DEF InBatches
<1>5. ASSUME NEW c \in BatchBlocks PROVE Stays(c) \/ \E from, to : Moves(c, from, to)
  <2>1. CASE c = b
    <3>1. Moves(c, <<"call", t>>, <<"free", 0>>)
      BY <1>2, <1>3, <1>4, <2>1, PlaceTags DEF Moves, OnPlace
    <3> QED
      BY <3>1
  <2>2. CASE c # b
    BY <1>2, <1>3, <1>4, <2>2 DEF Stays, OnPlace
  <2> QED
    BY <2>1, <2>2
<1>6. BatchPlaces'
  BY <1>1, <1>5, BatchMoves
<1>7. BatchTypeOK'
  BY <1>1, <1>2 DEF BatchTypeOK
<1>8. BatchPinned'
  BY <1>1, PinnedKept
<1> QED
  BY <1>6, <1>7, <1>8 DEF BatchInv

LEMMA BatchAllocUndoInv ==
  ASSUME BatchInv, NEW t \in Threads, BatchAllocUndo(t)
  PROVE  BatchInv'
<1> DEFINE r == bth[t]
           w == [r EXCEPT !.ptrs = Front(r.ptrs)]
<1>1. /\ CallOK(r) /\ bth \in [Threads -> CallRecords] /\ r \in CallRecords
  BY BatchThread
<1>2. r.pc = "undo" /\ UNCHANGED <<bpage, delayed, batches>>
  BY DEF BatchAllocUndo, BatchAt
<1>3. HeldBy(r) = Range(r.ptrs)
  BY <1>1, <1>2, HeldInArray
<1>4. CASE r.ptrs = <<>>
  <2>1. bth' = [bth EXCEPT ![t] = BatchIdle] /\ bfree' = bfree
    BY <1>4 DEF BatchAllocUndo
  <2>2. HeldBy(BatchIdle) = HeldBy(r) /\ CallOK(BatchIdle) /\ BatchIdle.pc = "idle"
    BY <1>3, <1>4, IdleCall DEF Range, BatchIdle
  <2> QED
    BY <1>2, <2>1, <2>2, BatchWithin
<1>5. CASE r.ptrs # <<>>
  <2>1. bth' = [bth EXCEPT ![t] = w] /\ bfree' = bfree \cup {Last(r.ptrs)}
    BY <1>1, <1>5 DEF BatchAllocUndo
  <2>2. /\ Front(r.ptrs) \in Seq(BatchBlocks) /\ Distinct(Front(r.ptrs))
        /\ Last(r.ptrs) \in Range(r.ptrs) /\ Last(r.ptrs) \in BatchBlocks
        /\ Range(Front(r.ptrs)) = Range(r.ptrs) \ {Last(r.ptrs)}
    BY <1>1, <1>5, CallFields, FrontBlock
  <2>3. CallOK(w) /\ HeldBy(w) = HeldBy(r) \ {Last(r.ptrs)}
    BY <1>1, <1>2, <2>2, CallDrops
  <2>4. w.pc = "undo"
    BY <1>1, <1>2 DEF CallRecords
  <2> HIDE DEF w
  <2> QED
    BY <1>2, <1>3, <2>1, <2>2, <2>3, <2>4, BatchGivesBack
<1> QED
  BY <1>4, <1>5

LEMMA BatchFreeLocalInv ==
  ASSUME BatchInv, NEW t \in Threads, BatchFreeLocal(t)
  PROVE  BatchInv'
<1> DEFINE r == bth[t]
           s == Tail(r.ptrs)
           w == [r EXCEPT !.ptrs = s]
<1>1. /\ CallOK(r) /\ bth \in [Threads -> CallRecords] /\ r \in CallRecords
  BY BatchThread
<1>2. /\ r.pc = "free" /\ r.ptrs # <<>> /\ bfree' = bfree \cup {r.ptrs[1]}
      /\ UNCHANGED <<bpage, delayed, batches>>
  BY DEF BatchFreeLocal, BatchAt
<1>3. bth' = [bth EXCEPT ![t] = w]
  BY <1>1 DEF BatchFreeLocal
<1>4. /\ s \in Seq(BatchBlocks) /\ Distinct(s)
      /\ r.ptrs[1] \in Range(r.ptrs) /\ r.ptrs[1] \in BatchBlocks
      /\ Range(s) = Range(r.ptrs) \ {r.ptrs[1]}
  BY <1>1, <1>2, CallFields, TailBlock
<1> HIDE DEF s
<1>5. CallOK(w) /\ HeldBy(w) = HeldBy(r) \ {r.ptrs[1]}
  BY <1>1, <1>2, <1>4, CallDrops
<1>6. w.pc = "free"
  BY <1>1, <1>2 DEF CallRecords
<1>7. r.ptrs[1] \in HeldBy(r)
  BY <1>4 DEF HeldBy
<1> HIDE DEF w
<1> QED
  BY <1>2, <1>3, <1>4, <1>5, <1>6, <1>7, BatchGivesBack

LEMMA BatchFreeInv ==
  ASSUME BatchInv, NEW t \in Threads, NEW x \in batches, BatchFree(t, x)
  PROVE  BatchInv'
<1> DEFINE r == bth[t]
           w == [r EXCEPT !.pc = "free", !.ptrs = x]
<1>1. /\ CallOK(r) /\ bth \in [Threads -> CallRecords] /\ r \in CallRecords
      /\ BatchTypeOK /\ BatchPinned /\ BatchPlaces
  BY BatchThread
<1>2. r.pc = "idle" /\ batches' = batches \ {x} /\ UNCHANGED <<bpage, delayed, bfree>>
  BY DEF BatchFree, BatchAt
<1>3. bth' = [bth EXCEPT ![t] = w]
  BY <1>1 DEF BatchFree
<1>4. x \in Seq(BatchBlocks) /\ Distinct(x)
  BY <1>1 DEF BatchTypeOK
<1>5. CallOK(w) /\ HeldBy(w) = Range(x) /\ HeldBy(r) = {}
  BY <1>1, <1>2, <1>4, CallFrees
<1>6. w.pc = "free"
  BY <1>1 DEF CallRecords
<1> HIDE DEF w
<1>7. /\ bth' \in [Threads -> CallRecords]
      /\ \A u \in Threads : CallOK(bth'[u])
      /\ \A c, q : InCalls(c, q)' <=> \/ InCalls(c, q) /\ q # <<"call", t>>
                                      \/ q = <<"call", t>> /\ c \in HeldBy(w)
  BY <1>1, <1>3, <1>5, BatchCall
<1>8. \A c : ~InCalls(c, <<"call", t>>)
  BY <1>5, InCallsIs
<1>9. \A c, q : InBatches(c, q)' <=> InBatches(c, q) /\ q # <<"batch", x>>
  <2>1. \A y \in batches : <<"batch", y>> = <<"batch", x>> <=> y = x
    OBVIOUS
  <2> QED
    BY <1>2, <2>1 DEF InBatches
<1>10. \A c : InBatches(c, <<"batch", x>>) <=> c \in Range(x)
  BY InBatchesIs
<1>11. ASSUME NEW c \in BatchBlocks PROVE Stays(c) \/ \E from, to : Moves(c, from, to)
  <2>1. CASE c \in Range(x)
    <3>1. Moves(c, <<"batch", x>>, <<"call", t>>)
      BY <1>2, <1>5, <1>7, <1>8, <1>9, <1>10, <2>1, PlaceTags DEF Moves, OnPlace
    <3> QED
      BY <3>1
  <2>2. CASE c \notin Range(x)
    <3>1. \A q : InBatches(c, q)' <=> InBatches(c, q)
      BY <1>9, <1>10, <2>2
    <3>2. \A q : InCalls(c, q)' <=> InCalls(c, q)
      BY <1>5, <1>7, <1>8, <2>2
    <3>3. Stays(c)
      BY <1>2, <3>1, <3>2 DEF Stays, OnPlace
    <3> QED
      BY <3>3
  <2> QED
    BY <2>1, <2>2
<1>12. BatchPlaces'
  BY <1>1, <1>11, BatchMoves
<1>13. BatchTypeOK'
  BY <1>1, <1>2, <1>7 DEF BatchTypeOK
<1>14. BatchPinned'
  BY <1>1, <1>2, <1>3, <1>5, <1>6, PinnedKept
<1> QED
  BY <1>12, <1>13, <1>14 DEF BatchInv

LEMMA BatchFreeRemoteInv ==
  ASSUME BatchInv, NEW t \in Threads, BatchFreeRemote(t)
  PROVE  BatchInv'
<1> DEFINE r == bth[t]
           b == r.ptrs[1]
           p == BatchPageOf[b]
           h == BucketOf[p]
           w == [r EXCEPT !.pc = "flush", !.bucket = r.buckets[h], !.buckets[h] = NoBucket]
           v == [r EXCEPT !.buckets[h] = [page |-> p, chain |-> @.chain \cup {r.ptrs[1]}],
                          !.ptrs = Tail(@)]
<1>1. /\ CallOK(r) /\ bth \in [Threads -> CallRecords] /\ r \in CallRecords
  BY BatchThread
<1>2. r.pc = "free" /\ r.ptrs # <<>> /\ UNCHANGED <<bpage, delayed, bfree, batches>>
  BY DEF BatchFreeRemote, BatchAt
<1>3. b \in BatchBlocks /\ p \in BatchPages /\ h \in Buckets
  <2>1. b \in BatchBlocks
    BY <1>1, <1>2, CallFields, TailBlock
  <2>2. p \in BatchPages
    BY <2>1, BatchAssumption
  <2> QED
    BY <2>1, <2>2 DEF Buckets
<1>4. r.buckets[h].page \in BatchPages \cup {NoPageB}
  BY <1>1, <1>3, CallFields DEF BucketRecords
<1>5. CASE r.buckets[h].page \notin {NoPageB, p}
  <2>1. bth' = [bth EXCEPT ![t] = w]
    BY <1>1, <1>5 DEF BatchFreeRemote
  <2>2. CallOK(w) /\ HeldBy(w) = HeldBy(r)
    BY <1>1, <1>2, <1>3, <1>4, <1>5, CallFlushes
  <2>3. w.pc = "flush"
    BY <1>1 DEF CallRecords
  <2> HIDE DEF w
  <2> QED
    BY <1>2, <2>1, <2>2, <2>3, BatchWithin
<1>6. CASE r.buckets[h].page \in {NoPageB, p}
  <2>1. bth' = [bth EXCEPT ![t] = v]
    BY <1>1, <1>6 DEF BatchFreeRemote
  <2>2. CallOK(v) /\ HeldBy(v) = HeldBy(r)
    BY <1>1, <1>2, <1>3, <1>6, CallBuckets
  <2>3. v.pc = "free"
    BY <1>1, <1>2 DEF CallRecords
  <2> HIDE DEF v
  <2> QED
    BY <1>2, <2>1, <2>2, <2>3, BatchWithin
<1> QED
  BY <1>5, <1>6

LEMMA BatchFlushAllInv ==
  ASSUME BatchInv, NEW t \in Threads, BatchFlushAll(t)
  PROVE  BatchInv'
<1> DEFINE r == bth[t]
           H == {h \in Buckets : r.buckets[h].page # NoPageB}
<1>1. /\ CallOK(r) /\ bth \in [Threads -> CallRecords] /\ r \in CallRecords
  BY BatchThread
<1>2. r.pc = "free" /\ r.ptrs = <<>> /\ UNCHANGED <<bpage, delayed, bfree, batches>>
  BY DEF BatchFlushAll, BatchAt
<1>3. CASE H = {}
  <2>1. bth' = [bth EXCEPT ![t] = BatchIdle]
    BY <1>3 DEF BatchFlushAll
  <2>2. \A h \in Buckets : r.buckets[h].chain = {}
    <3>1. \A h \in Buckets : r.buckets[h].page = NoPageB
      BY <1>3
    <3> QED
      BY <1>1, <3>1, NoBucketIs DEF CallOK
  <2>3. HeldBy(r) = {}
    BY <1>1, <1>2, <2>2 DEF HeldBy, CallOK, Range
  <2>4. BatchIdle.pc = "idle"
    BY DEF BatchIdle
  <2> QED
    BY <1>2, <2>1, <2>3, <2>4, IdleCall, BatchWithin
<1>4. ASSUME NEW h \in H,
             bth' = [bth EXCEPT ![t].pc = "flush", ![t].bucket = r.buckets[h],
                                ![t].buckets[h] = NoBucket]
      PROVE  BatchInv'
  <2> DEFINE w == [r EXCEPT !.pc = "flush", !.bucket = r.buckets[h], !.buckets[h] = NoBucket]
  <2>1. bth' = [bth EXCEPT ![t] = w]
    BY <1>1, <1>4
  <2>2. h \in Buckets /\ r.buckets[h].page \in BatchPages
    BY <1>1, CallFields DEF BucketRecords
  <2>3. CallOK(w) /\ HeldBy(w) = HeldBy(r)
    BY <1>1, <1>2, <2>2, CallFlushes
  <2>4. w.pc = "flush"
    BY <1>1 DEF CallRecords
  <2> HIDE DEF w
  <2> QED
    BY <1>2, <2>1, <2>3, <2>4, BatchWithin
<1> QED
  BY <1>3, <1>4 DEF BatchFlushAll

LEMMA FlushSpliceInv ==
  ASSUME BatchInv, NEW t \in Threads, FlushSplice(t)
  PROVE  BatchInv'
<1> DEFINE r == bth[t]
           p == r.bucket.page
           chain == r.bucket.chain
           y == bpage[p]
<1>1. /\ CallOK(r) /\ bth \in [Threads -> CallRecords] /\ r \in CallRecords
      /\ BatchTypeOK /\ BatchPinned /\ BatchPlaces
  BY BatchThread
<1>2. r.pc = "flush" /\ UNCHANGED <<delayed, bfree, batches>>
  BY DEF FlushSplice, BatchAt
<1>3. p \in BatchPages /\ chain \subseteq BlocksOf(p)
  BY <1>1, <1>2 DEF CallOK
<1>4. y \in BatchPageRecords /\ y.thread_free \in BlockSets /\ y.thread_free \subseteq BlocksOf(p)
  BY <1>1, <1>3, PageFields
<1>5. \A c, q : InBatches(c, q)' <=> InBatches(c, q)
  BY <1>2 DEF InBatches
<1>6. \A c : InCalls(c, <<"call", t>>) <=> c \in HeldBy(r)
  BY InCallsIs
<1>7. CASE y.flag = "use"
  <2> DEFINE w == [r EXCEPT !.pc = "delay"]
             z == [y EXCEPT !.flag = "freeing"]
  <2>1. bth' = [bth EXCEPT ![t] = w] /\ bpage' = [bpage EXCEPT ![p] = z]
    BY <1>1, <1>3, <1>7 DEF FlushSplice, BatchTypeOK
  <2>2. "delay" \in BatchPcs /\ "freeing" \in BatchFlags /\ 0 \in Nat
    BY DEF BatchPcs, BatchFlags
  <2>3. CallOK(w) /\ HeldBy(w) = HeldBy(r)
    BY <1>1, <1>2, <2>2, CallGoes
  <2>4. w.pc = "delay" /\ w.bucket = r.bucket
    BY <1>1 DEF CallRecords
  <2>5. IsPage(z, "freeing", y.heap, y.thread_free)
    BY <1>4, <2>2, PageUpdates
  <2> HIDE DEF w, z
  <2>6. /\ bpage' \in [BatchPages -> BatchPageRecords]
        /\ \A q \in BatchPages : bpage'[q] = (IF q = p THEN z ELSE bpage[q])
        /\ \A q \in BatchPages : bpage'[q].thread_free \subseteq BlocksOf(q)
        /\ bpage'[p].flag = "freeing" /\ bpage'[p].heap = y.heap
        /\ bpage'[p].thread_free = y.thread_free
    <3> DEFINE S == y.thread_free
               heap == y.heap
    <3>1. S \subseteq BlocksOf(p) /\ IsPage(z, "freeing", heap, S)
      BY <1>4, <2>5
    <3> HIDE DEF p, y, S, heap
    <3>2. /\ bpage' \in [BatchPages -> BatchPageRecords]
          /\ \A q \in BatchPages : bpage'[q] = (IF q = p THEN z ELSE bpage[q])
          /\ \A q \in BatchPages : bpage'[q].thread_free \subseteq BlocksOf(q)
          /\ bpage'[p].flag = "freeing" /\ bpage'[p].heap = heap /\ bpage'[p].thread_free = S
      BY <1>1, <1>3, <2>1, <3>1, BatchPage
    <3> QED
      BY <3>2 DEF S, heap
  <2>7. /\ bth' \in [Threads -> CallRecords]
        /\ \A u \in Threads : bth'[u] = (IF u = t THEN w ELSE bth[u]) /\ CallOK(bth'[u])
        /\ \A c, q : InCalls(c, q)' <=> \/ InCalls(c, q) /\ q # <<"call", t>>
                                        \/ q = <<"call", t>> /\ c \in HeldBy(w)
    BY <1>1, <2>1, <2>3, BatchCall
  <2>8. \A c, q : InCalls(c, q)' <=> InCalls(c, q)
    BY <1>6, <2>3, <2>7
  <2>9. \A q \in BatchPages : bpage'[q].thread_free = bpage[q].thread_free
    BY <2>6
  <2>10. ASSUME NEW c \in BatchBlocks PROVE Stays(c)
    <3>1. BatchPageOf[c] \in BatchPages
      BY BatchAssumption
    <3> QED
      BY <1>2, <1>5, <2>8, <2>9, <3>1 DEF Stays, OnPlace
  <2>11. BatchPlaces'
    BY <1>1, <2>10, BatchMoves
  <2>12. BatchTypeOK'
    BY <1>1, <1>2, <2>6, <2>7 DEF BatchTypeOK
  <2>13. BatchPinned'
    <3>1. \A q \in BatchPages : bpage'[q].flag # "never" => bpage'[q].heap
      BY <1>1, <1>3, <1>7, <2>6 DEF BatchPinned
    <3>2. \A u \in Threads : u # t /\ Pins(u)' =>
            /\ Pins(u) /\ bth'[u] = bth[u] /\ bth[u].bucket.page \in BatchPages
            /\ bpage[bth[u].bucket.page].flag = "freeing" /\ bth[u].bucket.page # p
      BY <1>1, <1>7, <2>7 DEF Pins, BatchPinned, BatchTypeOK, CallOK
    <3>3. bth'[t].bucket.page = p
      BY <2>4, <2>7
    <3>4. \A u \in Threads : Pins(u)' => bpage'[bth'[u].bucket.page].flag = "freeing"
      BY <2>6, <3>2, <3>3
    <3>5. \A u, v \in Threads : Pins(u)' /\ Pins(v)' /\ u # v =>
            bth'[u].bucket.page # bth'[v].bucket.page
      BY <1>1, <3>2, <3>3 DEF BatchPinned
    <3> QED
      BY <3>1, <3>4, <3>5 DEF BatchPinned
  <2> QED
    BY <2>11, <2>12, <2>13 DEF BatchInv
<1>8. CASE y.flag # "use"
  <2> DEFINE w == [r EXCEPT !.pc = "free", !.bucket = NoBucket]
             S == y.thread_free \cup chain
             z == [y EXCEPT !.thread_free = S]
  <2>1. bth' = [bth EXCEPT ![t] = w] /\ bpage' = [bpage EXCEPT ![p] = z]
    BY <1>1, <1>3, <1>8 DEF FlushSplice, BatchTypeOK
  <2>2. S \in BlockSets /\ S \subseteq BlocksOf(p)
    BY <1>3, <1>4 DEF BlockSets, BlocksOf
  <2>3. CallOK(w) /\ HeldBy(w) = HeldBy(r) \ chain
    BY <1>1, <1>2, CallSplices
  <2>4. w.pc = "free"
    BY <1>1 DEF CallRecords
  <2>5. IsPage(z, y.flag, y.heap, S)
    <3> HIDE DEF S
    <3> QED
      BY <1>4, <2>2, PageUpdates
  <2> HIDE DEF w, z
  <2>6. /\ bpage' \in [BatchPages -> BatchPageRecords]
        /\ \A q \in BatchPages : bpage'[q] = (IF q = p THEN z ELSE bpage[q])
        /\ \A q \in BatchPages : bpage'[q].thread_free \subseteq BlocksOf(q)
        /\ bpage'[p].flag = y.flag /\ bpage'[p].heap = y.heap /\ bpage'[p].thread_free = S
    <3> HIDE DEF S, p, y
    <3> QED
      BY <1>1, <1>3, <2>1, <2>2, <2>5, BatchPage, Zenon
  <2>7. /\ bth' \in [Threads -> CallRecords]
        /\ \A u \in Threads : CallOK(bth'[u])
        /\ \A c, q : InCalls(c, q)' <=> \/ InCalls(c, q) /\ q # <<"call", t>>
                                        \/ q = <<"call", t>> /\ c \in HeldBy(w)
    BY <1>1, <2>1, <2>3, BatchCall
  <2>8. ASSUME NEW c \in BatchBlocks PROVE Stays(c) \/ \E from, to : Moves(c, from, to)
    <3> DEFINE pc == BatchPageOf[c]
    <3>1. pc \in BatchPages
      BY BatchAssumption
    <3>2. c \in chain => pc = p
      BY <1>3 DEF BlocksOf
    <3>3. c \in bpage'[pc].thread_free <=> c \in bpage[pc].thread_free \/ c \in chain
      <4>1. CASE pc = p
        BY <2>6, <4>1
      <4>2. CASE pc # p
        BY <2>6, <3>1, <3>2, <4>2
      <4> QED
        BY <4>1, <4>2
    <3> HIDE DEF pc, chain
    <3>4. CASE c \in chain
      <4>1. c \in HeldBy(r) /\ c \notin HeldBy(w)
        BY <2>3, <3>4 DEF HeldBy, chain
      <4>2. Moves(c, <<"call", t>>, <<"page", 0>>)
        BY <1>2, <1>5, <1>6, <2>7, <3>3, <3>4, <4>1, PlaceTags DEF Moves, OnPlace, pc
      <4> QED
        BY <4>2
    <3>5. CASE c \notin chain
      <4>1. \A q : InCalls(c, q)' <=> InCalls(c, q)
        BY <1>6, <2>3, <2>7, <3>5
      <4>2. Stays(c)
        BY <1>2, <1>5, <3>3, <3>5, <4>1 DEF Stays, OnPlace, pc
      <4> QED
        BY <4>2
    <3> QED
      BY <3>4, <3>5
  <2>9. BatchPlaces'
    BY <1>1, <2>8, BatchMoves
  <2>10. BatchTypeOK'
    BY <1>1, <1>2, <2>6, <2>7 DEF BatchTypeOK
  <2>11. \A q \in BatchPages : bpage'[q].flag = bpage[q].flag /\ bpage'[q].heap = bpage[q].heap
    BY <2>6
  <2>12. BatchPinned'
    BY <1>1, <2>1, <2>3, <2>4, <2>11, PinnedKept
  <2> QED
    BY <2>9, <2>10, <2>12 DEF BatchInv
<1> QED
  BY <1>7, <1>8

LEMMA FlushDelayInv ==
  ASSUME BatchInv, NEW t \in Threads, FlushDelay(t)
  PROVE  BatchInv'
<1> DEFINE r == bth[t]
           p == r.bucket.page
           chain == r.bucket.chain
           w == [r EXCEPT !.pc = "reset", !.bucket.chain = {}]
<1>1. /\ CallOK(r) /\ bth \in [Threads -> CallRecords] /\ r \in CallRecords
      /\ BatchTypeOK /\ BatchPinned /\ BatchPlaces
  BY BatchThread
<1>2. r.pc = "delay" /\ UNCHANGED <<bpage, bfree, batches>>
  BY DEF FlushDelay, BatchAt
<1>3. p \in BatchPages /\ chain \subseteq BlocksOf(p)
  BY <1>1, <1>2 DEF CallOK
<1>4. bpage[p].heap
  BY <1>1, <1>2, <1>3 DEF BatchPinned, Pins
<1>5. delayed' = delayed \cup chain
  BY <1>4 DEF FlushDelay
<1>6. bth' = [bth EXCEPT ![t] = w]
  BY <1>1 DEF FlushDelay, CallRecords, BucketRecords
<1>7. CallOK(w) /\ HeldBy(w) = HeldBy(r) \ chain /\ w.bucket.page = p
  BY <1>1, <1>2, CallSplices
<1> HIDE DEF w
<1>8. /\ bth' \in [Threads -> CallRecords]
      /\ \A u \in Threads : CallOK(bth'[u])
      /\ \A c, q : InCalls(c, q)' <=> \/ InCalls(c, q) /\ q # <<"call", t>>
                                      \/ q = <<"call", t>> /\ c \in HeldBy(w)
  BY <1>1, <1>6, <1>7, BatchCall
<1>9. \A c, q : InBatches(c, q)' <=> InBatches(c, q)
  BY <1>2 DEF InBatches
<1>10. \A c : InCalls(c, <<"call", t>>) <=> c \in HeldBy(r)
  BY InCallsIs
<1>11. ASSUME NEW c \in BatchBlocks PROVE Stays(c) \/ \E from, to : Moves(c, from, to)
  <2>1. CASE c \in chain
    <3>1. c \in HeldBy(r) /\ c \notin HeldBy(w)
      BY <1>7, <2>1 DEF HeldBy
    <3> HIDE DEF chain
    <3>2. Moves(c, <<"call", t>>, <<"delayed", 0>>)
      BY <1>2, <1>5, <1>8, <1>9, <1>10, <2>1, <3>1, PlaceTags DEF Moves, OnPlace
    <3> QED
      BY <3>2
  <2>2. CASE c \notin chain
    <3> HIDE DEF chain
    <3>1. \A q : InCalls(c, q)' <=> InCalls(c, q)
      BY <1>7, <1>8, <1>10, <2>2
    <3>2. Stays(c)
      BY <1>2, <1>5, <1>9, <2>2, <3>1 DEF Stays, OnPlace
    <3> QED
      BY <3>2
  <2> QED
    BY <2>1, <2>2
<1>12. BatchPlaces'
  BY <1>1, <1>11, BatchMoves
<1>13. BatchTypeOK'
  BY <1>1, <1>2, <1>3, <1>5, <1>8 DEF BatchTypeOK, BlocksOf
<1>14. BatchPinned'
  BY <1>1, <1>2, <1>6, <1>7, PinnedKept DEF Pins
<1> QED
  BY <1>12, <1>13, <1>14 DEF BatchInv

LEMMA FlushResetInv ==
  ASSUME BatchInv, NEW t \in Threads, FlushReset(t)
  PROVE  BatchInv'
<1> DEFINE r == bth[t]
           p == r.bucket.page
           w == [r EXCEPT !.pc = "free", !.bucket = NoBucket]
           z == [bpage[p] EXCEPT !.flag = "no"]
<1>1. /\ CallOK(r) /\ bth \in [Threads -> CallRecords] /\ r \in CallRecords
      /\ BatchTypeOK /\ BatchPinned /\ BatchPlaces
  BY BatchThread
<1>2. r.pc = "reset" /\ UNCHANGED <<delayed, bfree, batches>>
  BY DEF FlushReset, BatchAt
<1>3. p \in BatchPages /\ r.bucket.chain = {}
  BY <1>1, <1>2 DEF CallOK
<1>4. bth' = [bth EXCEPT ![t] = w] /\ bpage' = [bpage EXCEPT ![p] = z]
  BY <1>1, <1>3 DEF FlushReset, BatchTypeOK
<1>5. CallOK(w) /\ HeldBy(w) = HeldBy(r)
  <2>1. CallOK(w) /\ HeldBy(w) = HeldBy(r) \ r.bucket.chain
    BY <1>1, <1>2, CallSplices
  <2> QED
    BY <1>3, <2>1
<1>6. w.pc = "free"
  BY <1>1 DEF CallRecords
<1>7. /\ z \in BatchPageRecords /\ z.flag = "no" /\ z.heap = bpage[p].heap
      /\ z.thread_free = bpage[p].thread_free
  BY <1>1, <1>3, PageFields DEF BatchPageRecords, BatchFlags
<1> HIDE DEF w, z
<1>8. /\ bpage' \in [BatchPages -> BatchPageRecords]
      /\ \A q \in BatchPages : bpage'[q] = IF q = p THEN z ELSE bpage[q]
  BY <1>1, <1>3, <1>4, <1>7 DEF BatchTypeOK
<1>9. \A q \in BatchPages : bpage'[q].thread_free = bpage[q].thread_free
  BY <1>7, <1>8
<1>10. /\ bth' \in [Threads -> CallRecords]
       /\ \A u \in Threads : bth'[u] = (IF u = t THEN w ELSE bth[u]) /\ CallOK(bth'[u])
       /\ \A c, q : InCalls(c, q)' <=> \/ InCalls(c, q) /\ q # <<"call", t>>
                                       \/ q = <<"call", t>> /\ c \in HeldBy(w)
  BY <1>1, <1>4, <1>5, BatchCall
<1>11. \A c, q : InCalls(c, q)' <=> InCalls(c, q)
  BY <1>5, <1>10, InCallsIs
<1>12. ASSUME NEW c \in BatchBlocks PROVE Stays(c)
  <2>1. BatchPageOf[c] \in BatchPages
    BY BatchAssumption
  <2> QED
    BY <1>2, <1>9, <1>11, <2>1 DEF Stays, OnPlace, InBatches
<1>13. BatchPlaces'
  BY <1>1, <1>12, BatchMoves
<1>14. BatchTypeOK'
  BY <1>1, <1>2, <1>8, <1>9, <1>10 DEF BatchTypeOK
<1>15. BatchPinned'
  <2>1. bpage[p].heap
    BY <1>1, <1>2, <1>3 DEF BatchPinned, Pins
  <2>2. \A q \in BatchPages : bpage'[q].flag # "never" => bpage'[q].heap
    BY <1>1, <1>7, <1>8, <2>1 DEF BatchPinned
  <2>3. \A u \in Threads : Pins(u)' =>
          /\ Pins(u) /\ u # t /\ bth'[u] = bth[u] /\ bth[u].bucket.page \in BatchPages
          /\ bth[u].bucket.page # p
    BY <1>1, <1>2, <1>6, <1>10 DEF Pins, BatchPinned, BatchTypeOK, CallOK
  <2> QED
    BY <1>1, <1>8, <2>2, <2>3 DEF BatchPinned
<1> QED
  BY <1>13, <1>14, <1>15 DEF BatchInv

-----------------------------------------------------------------------------
(* The steps of the owner of a page.                                        *)

\* The owner leaves the calls and the batches alone; it changes one page, which keeps
\* the flag FREEING if it has it.
LEMMA OwnerStep ==
  ASSUME BatchInv, NEW p \in BatchPages, NEW w \in BatchPageRecords, w.thread_free \subseteq BlocksOf(p),
         w.flag # "never" => w.heap, bpage[p].flag = "freeing" => w.flag = "freeing",
         bpage' = [bpage EXCEPT ![p] = w],
         bfree' \subseteq BatchBlocks, delayed' \subseteq BatchBlocks, UNCHANGED <<batches, bth>>,
         \A b \in BatchBlocks : Stays(b) \/ \E from, to : Moves(b, from, to)
  PROVE  BatchInv'
<1>1. BatchTypeOK /\ BatchPinned /\ BatchPlaces
  BY DEF BatchInv
<1>2. /\ bpage' \in [BatchPages -> BatchPageRecords]
      /\ \A q \in BatchPages : bpage'[q] = IF q = p THEN w ELSE bpage[q]
  BY <1>1 DEF BatchTypeOK
<1>3. BatchPlaces'
  BY <1>1, BatchMoves
<1>4. BatchTypeOK'
  BY <1>1, <1>2 DEF BatchTypeOK
<1>5. BatchPinned'
  <2>1. \A u \in Threads : Pins(u)' <=> Pins(u)
    BY DEF Pins
  <2>2. \A u \in Threads : Pins(u) => bth[u].bucket.page \in BatchPages
    BY <1>1 DEF Pins, BatchTypeOK, CallOK
  <2>3. \A q \in BatchPages : bpage'[q].flag # "never" => bpage'[q].heap
    BY <1>1, <1>2 DEF BatchPinned
  <2>4. \A q \in BatchPages : bpage[q].flag = "freeing" => bpage'[q].flag = "freeing"
    BY <1>2
  <2> QED
    BY <1>1, <2>1, <2>2, <2>3, <2>4 DEF BatchPinned
<1> QED
  BY <1>3, <1>4, <1>5 DEF BatchInv

\* The flag and the heap of a page change, no block moves.
LEMMA OwnerFlagInv ==
  ASSUME BatchInv, NEW p \in BatchPages, NEW w \in BatchPageRecords,
         w.thread_free = bpage[p].thread_free,
         w.flag # "never" => w.heap, bpage[p].flag = "freeing" => w.flag = "freeing",
         bpage' = [bpage EXCEPT ![p] = w], UNCHANGED <<delayed, bfree, batches, bth>>
  PROVE  BatchInv'
<1>1. BatchTypeOK
  BY DEF BatchInv
<1>2. \A q \in BatchPages : bpage'[q].thread_free = bpage[q].thread_free
  BY <1>1 DEF BatchTypeOK
<1>3. ASSUME NEW c \in BatchBlocks PROVE Stays(c)
  <2>1. BatchPageOf[c] \in BatchPages
    BY BatchAssumption
  <2> QED
    BY <1>2, <2>1 DEF Stays, OnPlace, InBatches, InCalls, HeldBy
<1>4. w.thread_free \subseteq BlocksOf(p) /\ bfree' \subseteq BatchBlocks /\ delayed' \subseteq BatchBlocks
  BY <1>1 DEF BatchTypeOK
<1> QED
  BY <1>3, <1>4, OwnerStep

LEMMA OwnerNeverInv ==
  ASSUME BatchInv, NEW p \in BatchPages, OwnerNever(p)
  PROVE  BatchInv'
<1> DEFINE z == [bpage[p] EXCEPT !.flag = "never"]
<1>1. BatchTypeOK
  BY DEF BatchInv
<1>2. /\ z \in BatchPageRecords /\ z.flag = "never" /\ z.thread_free = bpage[p].thread_free
  BY <1>1, PageFields DEF BatchPageRecords, BatchFlags
<1>3. bpage' = [bpage EXCEPT ![p] = z] /\ bpage[p].flag # "freeing"
  BY <1>1 DEF OwnerNever, BatchTypeOK
<1> HIDE DEF z
<1> QED
  BY <1>2, <1>3, OwnerFlagInv DEF OwnerNever

LEMMA OwnerAbandonInv ==
  ASSUME BatchInv, NEW p \in BatchPages, OwnerAbandon(p)
  PROVE  BatchInv'
<1> DEFINE z == [bpage[p] EXCEPT !.heap = FALSE]
<1>1. BatchTypeOK
  BY DEF BatchInv
<1>2. bpage[p].flag = "never"
  BY DEF OwnerAbandon
<1>3. /\ z \in BatchPageRecords /\ z.flag = "never" /\ z.thread_free = bpage[p].thread_free
  BY <1>1, <1>2, PageFields DEF BatchPageRecords, BatchFlags
<1>4. bpage' = [bpage EXCEPT ![p] = z]
  BY <1>1 DEF OwnerAbandon, BatchTypeOK
<1> HIDE DEF z
<1> QED
  BY <1>2, <1>3, <1>4, OwnerFlagInv DEF OwnerAbandon

LEMMA OwnerReclaimInv ==
  ASSUME BatchInv, NEW p \in BatchPages, OwnerReclaim(p)
  PROVE  BatchInv'
<1> DEFINE z == [bpage[p] EXCEPT !.heap = TRUE, !.flag = "use"]
<1>1. BatchTypeOK /\ BatchPinned
  BY DEF BatchInv
<1>2. bpage[p].flag # "freeing"
  BY <1>1 DEF OwnerReclaim, BatchPinned
<1>3. /\ z \in BatchPageRecords /\ z.heap /\ z.thread_free = bpage[p].thread_free
  BY <1>1, PageFields DEF BatchPageRecords, BatchFlags
<1>4. bpage' = [bpage EXCEPT ![p] = z]
  BY <1>1 DEF OwnerReclaim, BatchTypeOK
<1> HIDE DEF z
<1> QED
  BY <1>2, <1>3, <1>4, OwnerFlagInv DEF OwnerReclaim

\* The blocks of thread_free become free, and with them the blocks D of the delayed list.
LEMMA OwnerFreesInv ==
  ASSUME BatchInv, NEW p \in BatchPages, NEW D \in SUBSET delayed, NEW w \in BatchPageRecords,
         w.thread_free = {}, w.flag # "never" => w.heap,
         bpage[p].flag = "freeing" => w.flag = "freeing", bpage' = [bpage EXCEPT ![p] = w],
         bfree' = bfree \cup D \cup bpage[p].thread_free, delayed' = delayed \ D,
         UNCHANGED <<batches, bth>>
  PROVE  BatchInv'
<1> DEFINE S == bpage[p].thread_free
<1>1. BatchTypeOK /\ BatchPlaces
  BY DEF BatchInv
<1>2. S \subseteq BlocksOf(p) /\ S \subseteq BatchBlocks /\ D \subseteq BatchBlocks
  BY <1>1 DEF BatchTypeOK, BlocksOf
<1>3. \A q \in BatchPages : bpage'[q].thread_free = IF q = p THEN {} ELSE bpage[q].thread_free
  BY <1>1 DEF BatchTypeOK
<1>4. \A c, q : (InBatches(c, q)' <=> InBatches(c, q)) /\ (InCalls(c, q)' <=> InCalls(c, q))
  BY DEF InBatches, InCalls, HeldBy
<1>5. ASSUME NEW c \in BatchBlocks PROVE Stays(c) \/ \E from, to : Moves(c, from, to)
  <2> DEFINE free == bpage[BatchPageOf[c]].thread_free
  <2>1. BatchPageOf[c] \in BatchPages
    BY BatchAssumption
  <2>2. c \in bpage'[BatchPageOf[c]].thread_free <=> c \in free /\ c \notin S
    <3>1. CASE BatchPageOf[c] = p
      BY <1>3, <2>1, <3>1
    <3>2. CASE BatchPageOf[c] # p
      BY <1>2, <1>3, <2>1, <3>2 DEF BlocksOf
    <3> QED
      BY <3>1, <3>2
  <2>3. c \in S => c \in free
    BY <1>2 DEF BlocksOf
  <2> HIDE DEF S, free
  <2>4. \A q : OnPlace(c, q) <=> \/ q = <<"free", 0>> /\ c \in bfree
                                 \/ q = <<"delayed", 0>> /\ c \in delayed
                                 \/ q = <<"page", 0>> /\ c \in free
                                 \/ InBatches(c, q) \/ InCalls(c, q)
    BY DEF OnPlace, free
  <2>5. \A q : OnPlace(c, q)' <=> \/ q = <<"free", 0>> /\ c \in bfree \cup D \cup S
                                  \/ q = <<"delayed", 0>> /\ c \in delayed \ D
                                  \/ q = <<"page", 0>> /\ c \in free /\ c \notin S
                                  \/ InBatches(c, q) \/ InCalls(c, q)
    BY <1>4, <2>2 DEF OnPlace, S
  <2>6. CASE c \in D
    <3>1. OnPlace(c, <<"delayed", 0>>) /\ c \in delayed
      BY <2>4, <2>6
    <3>2. c \notin S
      <4>1. <<"delayed", 0>> # <<"page", 0>>
        OBVIOUS
      <4> QED
        BY <1>1, <2>3, <2>4, <3>1, <4>1, BatchOnly
    <3>3. Moves(c, <<"delayed", 0>>, <<"free", 0>>)
      BY <2>4, <2>5, <2>6, <3>1, <3>2, PlaceTags DEF Moves
    <3> QED
      BY <3>3
  <2>7. CASE c \in S
    <3>1. OnPlace(c, <<"page", 0>>)
      BY <2>3, <2>4, <2>7
    <3>2. c \notin D
      <4>1. <<"delayed", 0>> # <<"page", 0>>
        OBVIOUS
      <4> QED
        BY <1>1, <2>4, <3>1, <4>1, BatchOnly
    <3>3. Moves(c, <<"page", 0>>, <<"free", 0>>)
      BY <2>4, <2>5, <2>7, <3>1, <3>2, PlaceTags DEF Moves
    <3> QED
      BY <3>3
  <2>8. CASE c \notin D /\ c \notin S
    BY <2>4, <2>5, <2>8 DEF Stays
  <2> QED
    BY <2>6, <2>7, <2>8
<1>6. w.thread_free \subseteq BlocksOf(p) /\ bfree' \subseteq BatchBlocks /\ delayed' \subseteq BatchBlocks
  BY <1>1, <1>2 DEF BatchTypeOK
<1> QED
  BY <1>5, <1>6, OwnerStep

LEMMA OwnerCollectInv ==
  ASSUME BatchInv, NEW p \in BatchPages, OwnerCollect(p)
  PROVE  BatchInv'
<1> DEFINE z == [bpage[p] EXCEPT !.thread_free = {}]
<1>1. BatchTypeOK /\ BatchPinned
  BY DEF BatchInv
<1>2. /\ z \in BatchPageRecords /\ z.flag = bpage[p].flag /\ z.heap = bpage[p].heap
      /\ z.thread_free = {}
  BY <1>1, PageFields DEF BatchPageRecords, BlockSets
<1>3. bpage' = [bpage EXCEPT ![p] = z] /\ bpage[p].heap
  BY <1>1 DEF OwnerCollect, BatchTypeOK
<1>4. /\ bfree' = bfree \cup {} \cup bpage[p].thread_free /\ delayed' = delayed \ {}
      /\ {} \in SUBSET delayed /\ UNCHANGED <<batches, bth>>
  BY DEF OwnerCollect
<1>5. z.heap
  BY <1>2, <1>3
<1> HIDE DEF z
<1> QED
  BY <1>2, <1>3, <1>4, <1>5, OwnerFreesInv

LEMMA OwnerDelayedFreeInv ==
  ASSUME BatchInv, NEW b \in BatchBlocks, OwnerDelayedFree(b)
  PROVE  BatchInv'
<1> DEFINE p == BatchPageOf[b]
           f == IF bpage[p].flag = "never" THEN "never" ELSE "use"
           z == [bpage[p] EXCEPT !.thread_free = {}, !.flag = f]
<1>1. BatchTypeOK /\ BatchPinned /\ p \in BatchPages
  BY BatchAssumption DEF BatchInv
<1>2. b \in delayed /\ bpage[p].flag # "freeing" /\ UNCHANGED <<batches, bth>>
  BY DEF OwnerDelayedFree
<1>3. bpage' = [bpage EXCEPT ![p] = z]
  BY <1>1 DEF OwnerDelayedFree, BatchTypeOK, BatchPageRecords
<1>4. z \in BatchPageRecords /\ z.flag = f /\ z.heap = bpage[p].heap /\ z.thread_free = {}
  BY <1>1, PageFields DEF BatchPageRecords, BlockSets, BatchFlags
<1>5. z.flag # "never" => z.heap
  BY <1>1, <1>4 DEF BatchPinned
<1>6. /\ bfree' = bfree \cup {b} \cup bpage[p].thread_free /\ delayed' = delayed \ {b}
      /\ {b} \in SUBSET delayed
  BY <1>2 DEF OwnerDelayedFree
<1> HIDE DEF z, p
<1> QED
  BY <1>1, <1>2, <1>3, <1>4, <1>5, <1>6, OwnerFreesInv

-----------------------------------------------------------------------------
(* The invariant holds at first and is preserved, and a block is in one place. *)

LEMMA BatchInitially ==
  ASSUME BatchInit
  PROVE  BatchInv
<1> DEFINE z == [flag |-> "use", heap |-> TRUE, thread_free |-> {}]
<1>1. z \in BatchPageRecords /\ z.flag = "use" /\ z.heap /\ z.thread_free = {}
  BY DEF BatchPageRecords, BatchFlags, BlockSets
<1>2. bpage = [p \in BatchPages |-> z] /\ bth = [t \in Threads |-> BatchIdle]
  BY DEF BatchInit
<1>3. delayed = {} /\ bfree = BatchBlocks /\ batches = {}
  BY DEF BatchInit
<1> HIDE DEF z
<1>4. BatchIdle \in CallRecords /\ BatchIdle.pc = "idle" /\ CallOK(BatchIdle) /\ HeldBy(BatchIdle) = {}
  BY IdleCall DEF BatchIdle, CallOK
<1>5. BatchTypeOK
  BY <1>1, <1>2, <1>3, <1>4 DEF BatchTypeOK
<1>6. BatchPinned
  BY <1>1, <1>2, <1>4 DEF BatchPinned, Pins
<1>7. BatchPlaces
  <2> SUFFICES ASSUME NEW b \in BatchBlocks PROVE \A r : OnPlace(b, r) <=> r = <<"free", 0>>
    BY DEF BatchPlaces
  <2>1. \A r : ~InBatches(b, r) /\ ~InCalls(b, r)
    BY <1>2, <1>3, <1>4 DEF InBatches, InCalls
  <2>2. b \in bfree /\ b \notin delayed /\ b \notin bpage[BatchPageOf[b]].thread_free
    BY <1>1, <1>2, <1>3, BatchAssumption
  <2> QED
    BY <2>1, <2>2 DEF OnPlace
<1> QED
  BY <1>5, <1>6, <1>7 DEF BatchInv

LEMMA BatchPreserved ==
  ASSUME BatchInv, [BatchNext]_batchVars
  PROVE  BatchInv'
<1>1. ASSUME NEW t \in Threads, NEW n \in 1 .. MaxBatch, BatchAlloc(t, n) PROVE BatchInv'
  BY <1>1, BatchAllocInv
<1>2. ASSUME NEW t \in Threads, NEW b \in BatchBlocks, BatchAllocOne(t, b) PROVE BatchInv'
  BY <1>2, BatchAllocOneInv
<1>3. ASSUME NEW t \in Threads, BatchAllocFails(t) \/ BatchAllocUndo(t) PROVE BatchInv'
  BY <1>3, BatchAllocFailsInv, BatchAllocUndoInv
<1>4. ASSUME NEW t \in Threads, NEW x \in batches, BatchFree(t, x) PROVE BatchInv'
  BY <1>4, BatchFreeInv
<1>5. ASSUME NEW t \in Threads, BatchFreeLocal(t) \/ BatchFreeRemote(t) \/ BatchFlushAll(t)
      PROVE  BatchInv'
  BY <1>5, BatchFreeLocalInv, BatchFreeRemoteInv, BatchFlushAllInv
<1>6. ASSUME NEW t \in Threads, FlushSplice(t) \/ FlushDelay(t) \/ FlushReset(t) PROVE BatchInv'
  BY <1>6, FlushSpliceInv, FlushDelayInv, FlushResetInv
<1>7. ASSUME NEW p \in BatchPages,
             OwnerCollect(p) \/ OwnerNever(p) \/ OwnerAbandon(p) \/ OwnerReclaim(p)
      PROVE  BatchInv'
  BY <1>7, OwnerCollectInv, OwnerNeverInv, OwnerAbandonInv, OwnerReclaimInv
<1>8. ASSUME NEW b \in BatchBlocks, OwnerDelayedFree(b) PROVE BatchInv'
  BY <1>8, OwnerDelayedFreeInv
<1>9. CASE UNCHANGED batchVars
  <2>1. UNCHANGED <<bpage, delayed, bfree, batches, bth>>
    BY <1>9 DEF batchVars
  <2>2. BatchTypeOK' /\ BatchPinned'
    BY <2>1 DEF BatchInv, BatchTypeOK, BatchPinned, Pins
  <2>3. \A b \in BatchBlocks : Stays(b)
    BY <2>1 DEF Stays, OnPlace, InBatches, InCalls, HeldBy
  <2>4. BatchPlaces'
    BY <2>3, BatchMoves DEF BatchInv
  <2> QED
    BY <2>2, <2>4 DEF BatchInv
<1> QED
  BY <1>1, <1>2, <1>3, <1>4, <1>5, <1>6, <1>7, <1>8, <1>9 DEF BatchNext

LEMMA BatchSound ==
  ASSUME BatchInv
  PROVE  BatchFreesOnce
<1> SUFFICES ASSUME NEW b \in BatchBlocks
             PROVE  LET In(S) == IF b \in S THEN 1 ELSE 0
                        calls == {t \in Threads : b \in Range(bth[t].ptrs) \cup bth[t].bucket.chain
                                        \cup UNION {bth[t].buckets[h].chain : h \in Buckets}}
                    IN In(bfree) + In(delayed) + In(bpage[BatchPageOf[b]].thread_free)
                         + Cardinality({x \in batches : b \in Range(x)}) + Cardinality(calls) = 1
  BY DEF BatchFreesOnce
<1> DEFINE free == bpage[BatchPageOf[b]].thread_free
           xs == {x \in batches : b \in Range(x)}
           calls == {t \in Threads : b \in HeldBy(bth[t])}
           In(S) == IF b \in S THEN 1 ELSE 0
<1>1. PICK q : \A r : OnPlace(b, r) <=> r = q
  BY DEF BatchInv, BatchPlaces
<1>2. /\ b \in bfree <=> q = <<"free", 0>>
      /\ b \in delayed <=> q = <<"delayed", 0>>
      /\ b \in free <=> q = <<"page", 0>>
  <2>1. \A r : r \in {<<"free", 0>>, <<"delayed", 0>>, <<"page", 0>>} => ~InBatches(b, r) /\ ~InCalls(b, r)
    BY PlaceTags
  <2>2. /\ OnPlace(b, <<"free", 0>>) <=> b \in bfree
        /\ OnPlace(b, <<"delayed", 0>>) <=> b \in delayed
        /\ OnPlace(b, <<"page", 0>>) <=> b \in free
    BY <2>1 DEF OnPlace
  <2> QED
    BY <1>1, <2>2
<1>3. \A x \in batches : x \in xs <=> q = <<"batch", x>>
  <2> SUFFICES ASSUME NEW x \in batches PROVE b \in Range(x) <=> q = <<"batch", x>>
    OBVIOUS
  <2>1. ~InCalls(b, <<"batch", x>>)
    BY PlaceTags
  <2>2. OnPlace(b, <<"batch", x>>) <=> b \in Range(x)
    BY <2>1, InBatchesIs DEF OnPlace
  <2> QED
    BY <1>1, <2>2
<1>4. \A t \in Threads : t \in calls <=> q = <<"call", t>>
  <2> SUFFICES ASSUME NEW t \in Threads PROVE b \in HeldBy(bth[t]) <=> q = <<"call", t>>
    OBVIOUS
  <2>1. ~InBatches(b, <<"call", t>>)
    BY PlaceTags
  <2>2. OnPlace(b, <<"call", t>>) <=> b \in HeldBy(bth[t])
    BY <2>1, InCallsIs DEF OnPlace
  <2> QED
    BY <1>1, <2>2
<1>5. \/ q = <<"free", 0>> \/ q = <<"delayed", 0>> \/ q = <<"page", 0>>
      \/ \E x \in batches : q = <<"batch", x>>
      \/ \E t \in Threads : q = <<"call", t>>
  <2>1. OnPlace(b, q)
    BY <1>1
  <2> QED
    BY <2>1 DEF OnPlace, InBatches, InCalls
<1>6. Cardinality({}) = 0
  BY FS_EmptySet
<1>7. xs \subseteq batches /\ calls \subseteq Threads
  OBVIOUS
<1> HIDE DEF xs, calls, free
<1>8. In(bfree) + In(delayed) + In(free) + Cardinality(xs) + Cardinality(calls) = 1
  <2>1. CASE q \in {<<"free", 0>>, <<"delayed", 0>>, <<"page", 0>>}
    <3>1. xs = {}
      BY <1>3, <1>7, <2>1
    <3>2. calls = {}
      BY <1>4, <1>7, <2>1
    <3> QED
      BY <1>2, <1>6, <2>1, <3>1, <3>2
  <2>2. ASSUME NEW y \in batches, q = <<"batch", y>>
        PROVE  In(bfree) + In(delayed) + In(free) + Cardinality(xs) + Cardinality(calls) = 1
    <3>1. xs = {y}
      BY <1>3, <1>7, <2>2
    <3>2. calls = {}
      BY <1>4, <1>7, <2>2
    <3>3. Cardinality({y}) = 1
      BY FS_Singleton
    <3> QED
      BY <1>2, <1>6, <2>2, <3>1, <3>2, <3>3
  <2>3. ASSUME NEW u \in Threads, q = <<"call", u>>
        PROVE  In(bfree) + In(delayed) + In(free) + Cardinality(xs) + Cardinality(calls) = 1
    <3>1. xs = {}
      BY <1>3, <1>7, <2>3
    <3>2. calls = {u}
      BY <1>4, <1>7, <2>3
    <3>3. Cardinality({u}) = 1
      BY FS_Singleton
    <3> QED
      BY <1>2, <1>6, <2>3, <3>1, <3>2, <3>3
  <2> QED
    BY <1>5, <2>1, <2>2, <2>3
<1> QED
  BY <1>8 DEF free, xs, calls, HeldBy

-----------------------------------------------------------------------------
(* The allocators together: each step is of one of them, and leaves the     *)
(* state of the others alone.                                               *)

VectorInv == PomaiInv /\ VecInv /\ PoolInv /\ BatchInv

LEMMA VectorInitially ==
  ASSUME VectorInit
  PROVE  VectorInv
BY PomaiInitially, VecInitially, PoolInitially, BatchInitially DEF VectorInit, VectorInv

LEMMA VectorPreserved ==
  ASSUME "create" \notin VecCommitFails, VectorInv, [VectorNext]_vectorVars
  PROVE  VectorInv'
<1>1. PomaiInv /\ VecInv /\ PoolInv /\ BatchInv
  BY DEF VectorInv
<1>2. /\ [PomaiNext]_pomaiVars /\ [VecNext]_vecVars
      /\ [PoolNext]_poolVars /\ [BatchNext]_batchVars
  BY DEF VectorNext, vectorVars
<1>3. PomaiInv'
  BY <1>1, <1>2, PomaiPreserved
<1>4. VecInv'
  BY <1>1, <1>2, VecPreserved
<1>5. PoolInv'
  BY <1>1, <1>2, PoolPreserved
<1>6. BatchInv'
  BY <1>1, <1>2, BatchPreserved
<1> QED
  BY <1>3, <1>4, <1>5, <1>6 DEF VectorInv

\* The memory of a vector is its own and can be used, whatever the sizes and however many
\* threads bump, commit and roll back at once (arena_pomai.c), after failed commits and resets
\* (vector_arena.c), and the slots of a pool are taken once and counted (palloc_vector.c).  It
\* needs that the first commit of pa_vec_arena_create succeeds: the code does not look at its
\* result.
THEOREM VectorsAreUsable ==
  ASSUME "create" \notin VecCommitFails
  PROVE  VectorSpec => []VectorsUsable
<1>1. VectorInit => VectorInv
  BY VectorInitially
<1>2. VectorInv /\ [VectorNext]_vectorVars => VectorInv'
  BY VectorPreserved
<1>3. VectorInv => VectorsUsable
  BY PomaiSound, VecSound, PoolSound DEF VectorInv, VectorsUsable, RunsApart
<1> QED
  BY <1>1, <1>2, <1>3, PTL DEF VectorSpec

\* Every block is in exactly one place, whoever frees the batches and whatever the owners of the
\* pages do meanwhile: pa_vector_batch_free frees each block once and loses none, and the
\* rollback of pa_vector_batch_alloc gives back what it took.
THEOREM BatchesAreFreedOnce ==
  VectorSpec => []BatchFreesOnce
<1>1. VectorInit => BatchInv
  BY BatchInitially DEF VectorInit
<1>2. BatchInv /\ [VectorNext]_vectorVars => BatchInv'
  <2>1. [VectorNext]_vectorVars => [BatchNext]_batchVars
    BY DEF VectorNext, vectorVars
  <2> QED
    BY <2>1, BatchPreserved
<1>3. BatchInv => BatchFreesOnce
  BY BatchSound
<1> QED
  BY <1>1, <1>2, <1>3, PTL DEF VectorSpec

=============================================================================
