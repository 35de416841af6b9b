----------------------------- MODULE ArenaProofs -----------------------------
(***************************************************************************)
(* Theorems about Arena, for any number of blocks and threads, any sizes,  *)
(* options and lag.                                                        *)
(***************************************************************************)
EXTENDS Arena, WellFoundedInduction, TLAPS

-----------------------------------------------------------------------------
(* Records of threads.                                                      *)

LEMMA Updates ==
  ASSUME NEW r \in ThreadRecord
  PROVE  /\ \A pc \in Pcs : [r EXCEPT !.pc = pc] \in ThreadRecord
         /\ \A R \in SUBSET Blocks : [r EXCEPT !.claim = R] \in ThreadRecord
         /\ \A n \in -MaxLag..0 : [r EXCEPT !.now = n] \in ThreadRecord
         /\ \A pc \in Pcs, n \in -MaxLag..0 : [r EXCEPT !.pc = pc, !.now = n] \in ThreadRecord
         /\ \A f \in BOOLEAN : /\ [r EXCEPT !.zero = f] \in ThreadRecord
                               /\ [r EXCEPT !.ok = f] \in ThreadRecord
                               /\ [r EXCEPT !.any = f] \in ThreadRecord
                               /\ [r EXCEPT !.all = f] \in ThreadRecord
         /\ \A pc \in Pcs, f \in BOOLEAN : [r EXCEPT !.pc = pc, !.force = f] \in ThreadRecord
         /\ \A pc \in Pcs, R \in SUBSET Blocks : [r EXCEPT !.pc = pc, !.range = R] \in ThreadRecord
         /\ \A pc \in Pcs, R \in SUBSET Blocks, f \in BOOLEAN :
              [r EXCEPT !.pc = pc, !.range = R, !.commit = f] \in ThreadRecord
         /\ \A pc \in Pcs, R, M \in SUBSET Blocks :
              [r EXCEPT !.pc = pc, !.range = R, !.mask = M] \in ThreadRecord
         /\ \A pc \in Pcs, at \in 0..BlockCount + 1, R, M \in SUBSET Blocks :
              [r EXCEPT !.pc = pc, !.at = at, !.mask = M, !.claim = R] \in ThreadRecord
BY DEF ThreadRecord

-----------------------------------------------------------------------------
(* The smallest block of a set, and the walk over the purge bits.           *)

LEMMA MinOfBlocks ==
  ASSUME NEW S \in SUBSET Blocks, S # {}
  PROVE  Min(S) \in S
<1>1. S \subseteq Nat
  BY ArenaAssumption DEF Blocks
<1>2. PICK x \in S : \A y \in S : ~ (<<y, x>> \in OpToRel(<, Nat))
  BY <1>1, WFMin, NatLessThanWellFounded
<1>3. \A y \in S : ~ (y < x)
  BY <1>1, <1>2 DEF OpToRel
<1>4. \A y \in S : x =< y
  BY <1>1, <1>3
<1> QED
  BY <1>4 DEF Min

\* What the walk over the purge bits leaves in the thread.
LEMMA WalkRecord ==
  ASSUME thread \in [Threads -> ThreadRecord], NEW t \in Threads,
         NEW at, NEW mask \in SUBSET Blocks
  PROVE  /\ Walk(t, at, mask) \in ThreadRecord
         /\ Walk(t, at, mask).pc \in {"finish", "claim"}
<1> DEFINE next == {b \in mask : b >= at}
           w    == Walk(t, at, mask)
<1>1. CASE next = {}
  <2>1. w = [thread[t] EXCEPT !.pc = "finish", !.at = 0, !.mask = {}, !.claim = {}]
    BY <1>1 DEF Walk, Step
  <2> QED
    <3>1. /\ {} \in SUBSET Blocks /\ 0 \in 0..BlockCount + 1
          /\ "finish" \in Pcs /\ thread[t] \in ThreadRecord
      BY ArenaAssumption DEF Pcs
    <3>2. w \in ThreadRecord
      <4> HIDE DEF w
      <4> QED
        BY <2>1, <3>1, Updates
    <3>3. w.pc = "finish"
      BY <2>1 DEF ThreadRecord
    <3> QED
      BY <3>2, <3>3
<1>2. CASE next # {}
  <2>1. w = [thread[t] EXCEPT !.pc = "claim", !.at = Min(next), !.mask = mask,
                              !.claim = RunFrom(mask, Min(next))]
    BY <1>2 DEF Walk, Step
  <2>2. Min(next) \in 0..BlockCount + 1
    <3>1. Min(next) \in Blocks
      BY <1>2, MinOfBlocks
    <3> QED
      BY <3>1, ArenaAssumption DEF Blocks
  <2>3. RunFrom(mask, Min(next)) \in SUBSET Blocks
    BY DEF RunFrom
  <2> QED
    <3>1. "claim" \in Pcs /\ thread[t] \in ThreadRecord
      BY DEF Pcs
    <3>2. w \in ThreadRecord
      <4> DEFINE b   == Min(next)
                 run == RunFrom(mask, b)
      <4>1. /\ w = [thread[t] EXCEPT !.pc = "claim", !.at = b, !.mask = mask, !.claim = run]
            /\ b \in 0..BlockCount + 1 /\ run \in SUBSET Blocks
        BY <2>1, <2>2, <2>3
      <4> HIDE DEF w, b, run
      <4> QED
        BY <4>1, <3>1, Updates
    <3>3. w.pc = "claim"
      BY <2>1 DEF ThreadRecord
    <3> QED
      BY <3>2, <3>3
<1> QED
  BY <1>1, <1>2

\* The next run of a claimed range lies in the range.
LEMMA NextRunRecord ==
  ASSUME thread \in [Threads -> ThreadRecord], NEW t \in Threads,
         NEW mask \in SUBSET Blocks, NEW b
  PROVE  LET n == NextRun(t, mask, b)
         IN /\ n \in ThreadRecord
            /\ n.pc \in {"unclaim", "os_purge"}
            /\ n.claim = thread[t].claim
            /\ n.range \subseteq n.claim
<1> DEFINE next == {c \in thread[t].claim \cap mask : c >= b}
           run  == RunFrom(mask \cap thread[t].claim, Min(next))
           n    == NextRun(t, mask, b)
<1>1. run \subseteq thread[t].claim /\ run \in SUBSET Blocks
  BY DEF RunFrom
<1>2. n = IF next = {} THEN [thread[t] EXCEPT !.pc = "unclaim", !.range = {}, !.mask = mask]
          ELSE [thread[t] EXCEPT !.pc = "os_purge", !.range = run, !.mask = mask]
  BY DEF NextRun, Step
<1> HIDE DEF run, next, n
<1> QED
  <2>1. /\ {} \in SUBSET Blocks /\ "unclaim" \in Pcs /\ "os_purge" \in Pcs
        /\ thread[t] \in ThreadRecord
    BY DEF Pcs
  <2>2. n \in ThreadRecord
    BY <1>1, <1>2, <2>1, Updates
  <2>3. n.pc \in {"unclaim", "os_purge"} /\ n.claim = thread[t].claim
    BY <1>2 DEF ThreadRecord
  <2>4. n.range = {} \/ n.range = run
    BY <1>2 DEF ThreadRecord
  <2> QED
    BY <1>1, <2>2, <2>3, <2>4 DEF n

-----------------------------------------------------------------------------
(* Type correctness.                                                        *)

LEMMA IdleType == Idle \in ThreadRecord
<1>1. /\ 0 \in -MaxLag..0 /\ 0 \in 0..BlockCount + 1 /\ "idle" \in Pcs
      /\ {} \in SUBSET Blocks
  BY ArenaAssumption DEF Pcs
<1> HIDE DEF Pcs, Blocks
<1> QED
  BY <1>1 DEF Idle, ThreadRecord

LEMMA InitType == Init => TypeOK
BY IdleType, ArenaAssumption DEF Init, TypeOK, Blocks

LEMMA Records ==
  ASSUME TypeOK, NEW t \in Threads
  PROVE  /\ thread[t] \in ThreadRecord
         /\ thread[t].range \in SUBSET Blocks /\ thread[t].claim \in SUBSET Blocks
         /\ thread[t].mask \in SUBSET Blocks
         /\ thread[t].now \in Int /\ options.delay \in Int
BY ArenaAssumption DEF TypeOK, ThreadRecord, OptionRecord

\* A step that only changes the record of one thread, or that and the parts given.
LEMMA ToType ==
  ASSUME TypeOK, NEW t \in Threads, NEW r \in ThreadRecord, To(t, r)
  PROVE  thread' \in [Threads -> ThreadRecord]
BY DEF TypeOK, To

LEMMA StepType ==
  ASSUME TypeOK, NEW t \in Threads, NEW pc \in Pcs
  PROVE  Step(t, pc) \in ThreadRecord
BY Records, Updates DEF Step

LEMMA AllocType ==
  ASSUME TypeOK, NEW t \in Threads,
         \/ \E start \in Blocks, count \in Sizes, commit \in BOOLEAN : TryClaim(t, start, count, commit)
         \/ Unschedule(t) \/ CommitBits(t) \/ OsCommit(t) \/ Return(t)
  PROVE  TypeOK'
<1> USE Records
<1>1. ASSUME NEW start \in Blocks, NEW count \in Sizes, NEW commit \in BOOLEAN,
             TryClaim(t, start, count, commit)
      PROVE  TypeOK'
  <2> DEFINE range == BlocksAt(start, count)
             r == [Idle EXCEPT !.pc = "unschedule", !.range = range, !.commit = commit]
  <2>1. range \in SUBSET Blocks /\ To(t, r)
    BY <1>1 DEF TryClaim
  <2>2. r \in ThreadRecord
    BY <2>1, IdleType, Updates DEF Pcs
  <2>3. thread' \in [Threads -> ThreadRecord]
    BY <2>1, <2>2, ToType
  <2> QED
    BY <1>1, <2>1, <2>3 DEF TryClaim, TypeOK, times
<1>2. CASE Unschedule(t)
  <2> DEFINE zero == dirty \cap thread[t].range = {}
             r    == [Step(t, "commit") EXCEPT !.zero = zero]
  <2>1. zero \in BOOLEAN
    OBVIOUS
  <2>2. r \in ThreadRecord
    <3>1. Step(t, "commit") \in ThreadRecord
      BY StepType DEF Pcs
    <3> HIDE DEF zero
    <3> QED
      BY <2>1, <3>1, Updates
  <2>3. thread' \in [Threads -> ThreadRecord]
    BY <1>2, <2>2, ToType DEF Unschedule
  <2> QED
    BY <1>2, <2>3 DEF Unschedule, TypeOK, times
<1>3. CASE CommitBits(t)
  <2> DEFINE all == thread[t].range \subseteq committed
  <2>1. all \in BOOLEAN
    OBVIOUS
  <2>2. /\ [Step(t, IF all THEN "return" ELSE "oscommit") EXCEPT !.ok = TRUE] \in ThreadRecord
        /\ [Step(t, "return") EXCEPT !.ok = all] \in ThreadRecord
    <3> HIDE DEF all
    <3> QED
      BY <2>1, StepType, Updates DEF Pcs
  <2>3. thread' \in [Threads -> ThreadRecord]
    BY <1>3, <2>2, ToType DEF CommitBits
  <2> QED
    BY <1>3, <2>3 DEF CommitBits, TypeOK, times
<1>4. CASE OsCommit(t)
  <2>1. /\ Step(t, "return") \in ThreadRecord
        /\ [Step(t, "return") EXCEPT !.ok = FALSE] \in ThreadRecord
    BY StepType, Updates DEF Pcs
  <2>2. thread' \in [Threads -> ThreadRecord]
    BY <1>4, <2>1, ToType DEF OsCommit
  <2> QED
    BY <1>4, <2>2 DEF OsCommit, TypeOK, times, bits
<1>5. CASE Return(t)
  <2>1. thread' \in [Threads -> ThreadRecord]
    BY <1>5, IdleType, ToType DEF Return
  <2> QED
    BY <1>5, <2>1 DEF Return, TypeOK, times, bits
<1> QED
  BY <1>1, <1>2, <1>3, <1>4, <1>5

LEMMA ClientType ==
  ASSUME TypeOK, ClientStep
  PROVE  TypeOK'
<1>0. PICK a \in allocs : \E b \in a.blocks : ClientCommit(a, b) \/ ClientPurge(a, b)
  BY DEF ClientStep
<1>1. PICK b \in a.blocks : ClientCommit(a, b) \/ ClientPurge(a, b)
  BY <1>0
<1>2. a \in [blocks : SUBSET Blocks, committed : SUBSET Blocks] /\ b \in Blocks
  BY DEF TypeOK
<1>3. CASE ClientCommit(a, b)
  BY <1>2, <1>3 DEF ClientCommit, Changed, TypeOK, times, bits
<1>4. CASE ClientPurge(a, b)
  BY <1>2, <1>4 DEF ClientPurge, Changed, TypeOK, times, bits
<1> QED
  BY <1>1, <1>3, <1>4

LEMMA FreeType ==
  ASSUME TypeOK, NEW t \in Threads,
         \/ \E a \in allocs : Free(t, a)
         \/ Schedule(t) \/ ScheduleAll(t) \/ ScheduleBits(t) \/ Release(t)
  PROVE  TypeOK'
<1> USE Records
<1>1. ASSUME NEW a \in allocs, Free(t, a)
      PROVE  TypeOK'
  <2>1. a.blocks \in SUBSET Blocks
    BY DEF TypeOK
  <2>2. [Idle EXCEPT !.pc = "schedule", !.range = a.blocks] \in ThreadRecord
    BY <2>1, IdleType, Updates DEF Pcs
  <2>3. thread' \in [Threads -> ThreadRecord]
    BY <1>1, <2>2, ToType DEF Free
  <2> QED
    BY <1>1, <2>3 DEF Free, TypeOK, times
<1>2. CASE Schedule(t)
  <2>1. thread' \in [Threads -> ThreadRecord]
    BY <1>2, StepType, ToType DEF Schedule, Pcs
  <2> QED
    BY <1>2, <2>1 DEF Schedule, TypeOK, bits
<1>3. CASE ScheduleAll(t)
  <2>1. [Step(t, "schedule_bits") EXCEPT !.now = 0] \in ThreadRecord
    <3>1. Step(t, "schedule_bits") \in ThreadRecord
      BY StepType DEF Pcs
    <3>2. 0 \in -MaxLag..0
      BY ArenaAssumption
    <3> QED
      BY <3>1, <3>2, Updates
  <2>2. thread' \in [Threads -> ThreadRecord]
    BY <1>3, <2>1, ToType DEF ScheduleAll
  <2> QED
    BY <1>3, <2>2 DEF ScheduleAll, TypeOK, bits
<1>4. CASE ScheduleBits(t)
  <2>1. thread' \in [Threads -> ThreadRecord]
    BY <1>4, StepType, ToType DEF ScheduleBits, Pcs
  <2> QED
    BY <1>4, <2>1 DEF ScheduleBits, TypeOK, times
<1>5. CASE Release(t)
  <2>1. [Idle EXCEPT !.pc = "try"] \in ThreadRecord
    BY IdleType, Updates DEF Pcs
  <2>2. thread' \in [Threads -> ThreadRecord]
    BY <1>5, <2>1, ToType DEF Release
  <2> QED
    BY <1>5, <2>2 DEF Release, TypeOK, times
<1> QED
  BY <1>1, <1>2, <1>3, <1>4, <1>5

LEMMA PurgeType ==
  ASSUME TypeOK, NEW t \in Threads,
         \/ \E force \in BOOLEAN : Collect(t, force)
         \/ TryPurge(t) \/ Guard(t) \/ Expired(t) \/ LoadPurge(t) \/ ClaimRange(t)
         \/ Reload(t) \/ OsPurge(t) \/ Purged(t) \/ Unclaim(t) \/ Finish(t)
  PROVE  TypeOK'
<1> USE Records, IdleType
<1>0. thread \in [Threads -> ThreadRecord] /\ purge \in SUBSET Blocks
  BY DEF TypeOK
<1>1. ASSUME NEW force \in BOOLEAN, Collect(t, force)
      PROVE  TypeOK'
  <2>1. [Idle EXCEPT !.pc = "try", !.force = force] \in ThreadRecord
    BY Updates DEF Pcs
  <2>2. thread' \in [Threads -> ThreadRecord]
    BY <1>1, <2>1, ToType DEF Collect
  <2> QED
    BY <1>1, <2>2 DEF Collect, TypeOK, times, bits
<1>2. CASE TryPurge(t)
  <2>1. Step(t, "guard") \in ThreadRecord
    BY StepType DEF Pcs
  <2>2. thread' \in [Threads -> ThreadRecord]
    BY <1>2, <2>1, ToType DEF TryPurge
  <2> QED
    BY <1>2, <2>2 DEF TryPurge, TypeOK, times, bits
<1>3. CASE Guard(t)
  <2>1. Step(t, "expired") \in ThreadRecord
    BY StepType DEF Pcs
  <2>2. thread' \in [Threads -> ThreadRecord]
    BY <1>3, <2>1, ToType DEF Guard
  <2> QED
    BY <1>3, <2>2 DEF Guard, TypeOK, bits
<1>4. CASE Expired(t)
  <2>1. \A pc \in {"load", "finish"} : [Step(t, pc) EXCEPT !.now = 0] \in ThreadRecord
    <3>1. Step(t, "load") \in ThreadRecord /\ Step(t, "finish") \in ThreadRecord
      BY StepType DEF Pcs
    <3>2. 0 \in -MaxLag..0
      BY ArenaAssumption
    <3> QED
      BY <3>1, <3>2, Updates
  <2>2. thread' \in [Threads -> ThreadRecord]
    BY <1>4, <2>1, ToType DEF Expired
  <2> QED
    BY <1>4, <2>2 DEF Expired, TypeOK, bits
<1>5. CASE LoadPurge(t)
  <2>1. Walk(t, 0, purge) \in ThreadRecord
    BY <1>0, WalkRecord
  <2> QED
    BY <1>5, <2>1 DEF LoadPurge, TypeOK, To, times, bits
<1>6. CASE ClaimRange(t)
  <2>1. Walk(t, thread[t].at + 1, thread[t].mask) \in ThreadRecord
    BY <1>0, WalkRecord
  <2>2. [thread[t] EXCEPT !.claim = thread[t].claim \ {Max(thread[t].claim)}] \in ThreadRecord
    BY Updates
  <2>3. [Step(t, "reload") EXCEPT !.any = TRUE] \in ThreadRecord
    BY StepType, Updates DEF Pcs
  <2> QED
    BY <1>6, <2>1, <2>2, <2>3 DEF ClaimRange, TypeOK, To, times
<1>7. CASE Reload(t)
  <2>1. NextRun(t, purge, 0) \in ThreadRecord
    BY <1>0, NextRunRecord
  <2>2. \A x \in BOOLEAN : [NextRun(t, purge, 0) EXCEPT !.all = x] \in ThreadRecord
    BY <2>1 DEF ThreadRecord
  <2>3. (thread[t].all /\ RunFrom(purge \cap thread[t].claim, Min(thread[t].claim)) = thread[t].claim)
          \in BOOLEAN
    BY DEF ThreadRecord
  <2> QED
    BY <1>7, <2>2, <2>3 DEF Reload, TypeOK, To, times, bits
<1>8. CASE OsPurge(t)
  <2>1. thread' \in [Threads -> ThreadRecord]
    BY <1>8, StepType, ToType DEF OsPurge, Pcs
  <2> QED
    BY <1>8, <2>1 DEF OsPurge, TypeOK, times, bits
<1>9. CASE Purged(t)
  <2>1. NextRun(t, thread[t].mask, Max(thread[t].range) + 1) \in ThreadRecord
    BY <1>0, NextRunRecord
  <2>2. Step(t, "release") \in ThreadRecord
    BY StepType DEF Pcs
  <2> QED
    BY <1>9, <2>1, <2>2 DEF Purged, TypeOK, To, times
<1>10. CASE Unclaim(t)
  <2>1. Walk(t, Max(thread[t].claim) + 2, thread[t].mask) \in ThreadRecord
    BY <1>0, WalkRecord
  <2> QED
    BY <1>10, <2>1 DEF Unclaim, TypeOK, To, times
<1>11. CASE Finish(t)
  BY <1>11 DEF Finish, TypeOK, To, times, bits
<1> QED
  BY <1>1, <1>2, <1>3, <1>4, <1>5, <1>6, <1>7, <1>8, <1>9, <1>10, <1>11

LEMMA TickType ==
  ASSUME TypeOK, Tick
  PROVE  TypeOK'
<1>1. purge_expire' \in Int \cup {None} /\ arenas_expire' \in Int \cup {None}
  BY ArenaAssumption DEF Tick, Earlier, TypeOK
<1>2. thread' \in [Threads -> ThreadRecord]
  <2>1. ASSUME NEW t \in Threads, t \in ReadClock
        PROVE  [thread[t] EXCEPT !.now = @ - 1] \in ThreadRecord
    <3> DEFINE n == thread[t].now - 1
    <3>1. n \in -MaxLag..0
      BY <2>1, ArenaAssumption DEF Tick, TypeOK, ThreadRecord
    <3>2. [thread[t] EXCEPT !.now = @ - 1] = [thread[t] EXCEPT !.now = n]
      OBVIOUS
    <3> HIDE DEF n
    <3> QED
      BY <3>1, <3>2 DEF TypeOK, ThreadRecord
  <2> QED
    BY <2>1 DEF Tick, TypeOK
<1> QED
  BY <1>1, <1>2 DEF Tick, TypeOK, bits

\* The bitmaps, the expirations, the allocations and the records of all threads keep
\* their types; no operation touches a block outside the arena.
THEOREM TypeCorrect == Spec => []TypeOK
<1>1. Init => TypeOK
  BY InitType
<1>2. TypeOK /\ [Next]_vars => TypeOK'
  <2> SUFFICES ASSUME TypeOK, [Next]_vars PROVE TypeOK'
    OBVIOUS
  <2>1. ASSUME NEW t \in Threads, ThreadStep(t) \/ Call(t)
        PROVE  TypeOK'
    BY <2>1, AllocType, FreeType, PurgeType DEF ThreadStep, Call
  <2>2. CASE ClientStep
    BY <2>2, ClientType
  <2>3. CASE Tick
    BY <2>3, TickType
  <2>4. CASE UNCHANGED vars
    BY <2>4 DEF vars, bits, times, TypeOK
  <2> QED
    BY <2>1, <2>2, <2>3, <2>4 DEF Next
<1> QED
  BY <1>1, <1>2, PTL DEF Spec

-----------------------------------------------------------------------------
(* Ownership of blocks, as a relation between the bits in use, the          *)
(* allocations and what the threads own.                                    *)

Owners(I, A, O) ==
  /\ \A t \in Threads : O[t] \subseteq I
  /\ \A a \in A : a.blocks \subseteq I
  /\ \A b \in I : (\E a \in A : b \in a.blocks) \/ (\E t \in Threads : b \in O[t])
  /\ \A a, c \in A : a # c => a.blocks \cap c.blocks = {}
  /\ \A t \in Threads, a \in A : O[t] \cap a.blocks = {}
  /\ \A t, u \in Threads : t # u => O[t] \cap O[u] = {}

Own == [t \in Threads |-> OwnedBy(thread[t])]

LEMMA OneOwnerOwners == OneOwner <=> Owners(inuse, allocs, Own)
<1> DEFINE clients == UNION {a.blocks : a \in allocs}
           calls   == UNION {Owned(t) : t \in Threads}
<1>1. \A t \in Threads : Own[t] = Owned(t)
  BY DEF Own, Owned
<1>2. \A b : b \in clients <=> \E a \in allocs : b \in a.blocks
  OBVIOUS
<1>3. \A b : b \in calls <=> \E t \in Threads : b \in Owned(t)
  OBVIOUS
<1> HIDE DEF clients, calls
<1>4. OneOwner <=> /\ inuse = clients \cup calls
                   /\ \A a, b \in allocs : a # b => a.blocks \cap b.blocks = {}
                   /\ \A t \in Threads : /\ \A a \in allocs : Owned(t) \cap a.blocks = {}
                                         /\ \A u \in Threads : t # u => Owned(t) \cap Owned(u) = {}
  BY DEF OneOwner, clients, calls
<1>5. ASSUME OneOwner PROVE Owners(inuse, allocs, Own)
  BY <1>1, <1>2, <1>3, <1>4, <1>5 DEF Owners
<1>6. ASSUME Owners(inuse, allocs, Own) PROVE OneOwner
  <2>1. \A b : b \in inuse <=> b \in clients \cup calls
    BY <1>1, <1>2, <1>3, <1>6 DEF Owners
  <2>2. inuse = clients \cup calls
    BY <2>1
  <2> QED
    BY <1>1, <1>4, <1>6, <2>2 DEF Owners
<1> QED
  BY <1>5, <1>6

\* A thread claims blocks that are free.
LEMMA OwnersClaim ==
  ASSUME NEW I, NEW A, NEW O, DOMAIN O = Threads, Owners(I, A, O), NEW t \in Threads, NEW R,
         O[t] = {}, R \cap I = {}
  PROVE  Owners(I \cup R, A, [O EXCEPT ![t] = R])
BY DEF Owners

\* A thread releases what it owns.
LEMMA OwnersRelease ==
  ASSUME NEW I, NEW A, NEW O, DOMAIN O = Threads, Owners(I, A, O), NEW t \in Threads
  PROVE  Owners(I \ O[t], A, [O EXCEPT ![t] = {}])
BY DEF Owners

\* A thread gives what it owns to a client, and takes it back.
LEMMA OwnersGive ==
  ASSUME NEW I, NEW A, NEW O, DOMAIN O = Threads, Owners(I, A, O), NEW t \in Threads,
         NEW a, a.blocks = O[t]
  PROVE  Owners(I, A \cup {a}, [O EXCEPT ![t] = {}])
BY DEF Owners

LEMMA OwnersTake ==
  ASSUME NEW I, NEW A, NEW O, DOMAIN O = Threads, Owners(I, A, O), NEW t \in Threads,
         NEW a \in A, O[t] = {}
  PROVE  Owners(I, A \ {a}, [O EXCEPT ![t] = a.blocks])
BY DEF Owners

\* A client changes what it knows of its blocks.
LEMMA OwnersChange ==
  ASSUME NEW I, NEW A, NEW O, Owners(I, A, O), NEW a \in A, NEW c, c.blocks = a.blocks
  PROVE  Owners(I, (A \ {a}) \cup {c}, O)
BY DEF Owners
-----------------------------------------------------------------------------
(* The steps of a thread, by what they do to what it owns.                  *)

LEMMA OwnTo ==
  ASSUME thread \in [Threads -> ThreadRecord], NEW t \in Threads, NEW r, To(t, r)
  PROVE  Own' = [Own EXCEPT ![t] = OwnedBy(r)] /\ Own[t] = OwnedBy(thread[t])
BY DEF Own, To

LEMMA KeepStep ==
  ASSUME TypeOK, OneOwner, NEW t \in Threads, NEW r, To(t, r),
         OwnedBy(r) = OwnedBy(thread[t]), UNCHANGED <<inuse, allocs>>
  PROVE  OneOwner'
<1>1. Own' = Own
  BY OwnTo DEF TypeOK, Own
<1>2. Owners(inuse, allocs, Own)'
  BY <1>1, OneOwnerOwners DEF Owners
<1> QED
  BY <1>2, OneOwnerOwners, PTL

LEMMA ClaimStep ==
  ASSUME TypeOK, OneOwner, NEW t \in Threads, NEW r, To(t, r),
         OwnedBy(thread[t]) = {}, OwnedBy(r) \cap inuse = {},
         inuse' = inuse \cup OwnedBy(r), allocs' = allocs
  PROVE  OneOwner'
<1>1. Own' = [Own EXCEPT ![t] = OwnedBy(r)] /\ Own[t] = {} /\ DOMAIN Own = Threads
  BY OwnTo DEF TypeOK, Own
<1>2. Owners(inuse \cup OwnedBy(r), allocs, [Own EXCEPT ![t] = OwnedBy(r)])
  BY <1>1, OneOwnerOwners, OwnersClaim
<1>3. Owners(inuse, allocs, Own)'
  BY <1>1, <1>2 DEF Owners
<1> QED
  BY <1>3, OneOwnerOwners, PTL

LEMMA ReleaseStep ==
  ASSUME TypeOK, OneOwner, NEW t \in Threads, NEW r, To(t, r), OwnedBy(r) = {},
         inuse' = inuse \ OwnedBy(thread[t]), allocs' = allocs
  PROVE  OneOwner'
<1>1. Own' = [Own EXCEPT ![t] = {}] /\ Own[t] = OwnedBy(thread[t]) /\ DOMAIN Own = Threads
  BY OwnTo DEF TypeOK, Own
<1>2. Owners(inuse \ Own[t], allocs, [Own EXCEPT ![t] = {}])
  BY <1>1, OneOwnerOwners, OwnersRelease
<1>3. Owners(inuse, allocs, Own)'
  BY <1>1, <1>2 DEF Owners
<1> QED
  BY <1>3, OneOwnerOwners, PTL

LEMMA GiveStep ==
  ASSUME TypeOK, OneOwner, NEW t \in Threads, NEW r, To(t, r), OwnedBy(r) = {},
         NEW a, a.blocks = OwnedBy(thread[t]),
         inuse' = inuse, allocs' = allocs \cup {a}
  PROVE  OneOwner'
<1>1. Own' = [Own EXCEPT ![t] = {}] /\ Own[t] = OwnedBy(thread[t]) /\ DOMAIN Own = Threads
  BY OwnTo DEF TypeOK, Own
<1>2. Owners(inuse, allocs \cup {a}, [Own EXCEPT ![t] = {}])
  BY <1>1, OneOwnerOwners, OwnersGive
<1>3. Owners(inuse, allocs, Own)'
  BY <1>1, <1>2 DEF Owners
<1> QED
  BY <1>3, OneOwnerOwners, PTL

LEMMA TakeStep ==
  ASSUME TypeOK, OneOwner, NEW t \in Threads, NEW r, To(t, r), OwnedBy(thread[t]) = {},
         NEW a \in allocs, OwnedBy(r) = a.blocks,
         inuse' = inuse, allocs' = allocs \ {a}
  PROVE  OneOwner'
<1>1. Own' = [Own EXCEPT ![t] = a.blocks] /\ Own[t] = {} /\ DOMAIN Own = Threads
  BY OwnTo DEF TypeOK, Own
<1>2. Owners(inuse, allocs \ {a}, [Own EXCEPT ![t] = a.blocks])
  BY <1>1, OneOwnerOwners, OwnersTake
<1>3. Owners(inuse, allocs, Own)'
  BY <1>1, <1>2 DEF Owners
<1> QED
  BY <1>3, OneOwnerOwners, PTL

\* A thread that purges its own blocks has claimed none, and one that purges a
\* claimed range stays inside it.
Shape ==
  \A t \in Threads :
    /\ thread[t].pc = "schedule" => thread[t].claim = {}
    /\ thread[t].pc \in {"os_purge", "purged"} =>
         thread[t].claim = {} \/ thread[t].range \subseteq thread[t].claim

ShapeOf(r) ==
  /\ r.pc = "schedule" => r.claim = {}
  /\ r.pc \in {"os_purge", "purged"} => r.claim = {} \/ r.range \subseteq r.claim

LEMMA ShapeTo ==
  ASSUME TypeOK, Shape, NEW t \in Threads, NEW r, To(t, r), ShapeOf(r)
  PROVE  Shape'
BY DEF TypeOK, Shape, ShapeOf, To

LEMMA OwnedCases ==
  ASSUME NEW r
  PROVE  /\ r.pc \in {"unschedule", "commit", "oscommit", "return", "schedule",
                     "schedule_all", "schedule_bits", "release"} => OwnedBy(r) = r.range
         /\ r.pc \in {"os_purge", "purged"} =>
              OwnedBy(r) = IF r.claim = {} THEN r.range ELSE r.claim
         /\ r.pc \in {"reload", "unclaim"} => OwnedBy(r) = r.claim
         /\ r.pc \in {"idle", "try", "guard", "expired", "load", "claim", "finish"} => OwnedBy(r) = {}
BY DEF OwnedBy

LEMMA StepFields ==
  ASSUME TypeOK, NEW t \in Threads, NEW pc
  PROVE  /\ Step(t, pc).pc = pc
         /\ Step(t, pc).range = thread[t].range /\ Step(t, pc).claim = thread[t].claim
         /\ Step(t, pc).zero = thread[t].zero /\ Step(t, pc).ok = thread[t].ok
BY DEF Step, TypeOK, ThreadRecord

\* Fields that say nothing about ownership.
LEMMA OtherFields ==
  ASSUME NEW r \in ThreadRecord
  PROVE  /\ \A f : /\ [r EXCEPT !.zero = f].pc = r.pc /\ [r EXCEPT !.zero = f].range = r.range
                   /\ [r EXCEPT !.zero = f].claim = r.claim
         /\ \A f : /\ [r EXCEPT !.ok = f].pc = r.pc /\ [r EXCEPT !.ok = f].range = r.range
                   /\ [r EXCEPT !.ok = f].claim = r.claim
         /\ \A f : /\ [r EXCEPT !.now = f].pc = r.pc /\ [r EXCEPT !.now = f].range = r.range
                   /\ [r EXCEPT !.now = f].claim = r.claim
         /\ \A f : /\ [r EXCEPT !.all = f].pc = r.pc /\ [r EXCEPT !.all = f].range = r.range
                   /\ [r EXCEPT !.all = f].claim = r.claim
         /\ \A f : /\ [r EXCEPT !.any = f].pc = r.pc /\ [r EXCEPT !.any = f].range = r.range
                   /\ [r EXCEPT !.any = f].claim = r.claim
BY DEF ThreadRecord

\* The record of a call that begins.
LEMMA BeginFields ==
  ASSUME NEW pc, NEW R, NEW f
  PROVE  /\ Idle.pc = "idle" /\ Idle.claim = {}
         /\ [Idle EXCEPT !.pc = pc].pc = pc
         /\ [Idle EXCEPT !.pc = pc, !.force = f].pc = pc
         /\ [Idle EXCEPT !.pc = pc, !.range = R].pc = pc
         /\ [Idle EXCEPT !.pc = pc, !.range = R].range = R
         /\ [Idle EXCEPT !.pc = pc, !.range = R].claim = {}
         /\ [Idle EXCEPT !.pc = pc, !.range = R, !.commit = f].pc = pc
         /\ [Idle EXCEPT !.pc = pc, !.range = R, !.commit = f].range = R
BY DEF Idle

LEMMA AllocOwners ==
  ASSUME TypeOK, OneOwner, Shape, NEW t \in Threads,
         \/ \E start \in Blocks, count \in Sizes, commit \in BOOLEAN : TryClaim(t, start, count, commit)
         \/ Unschedule(t) \/ CommitBits(t) \/ OsCommit(t) \/ Return(t)
  PROVE  OneOwner' /\ Shape'
<1> USE Records, StepFields, OwnedCases
<1>0. \A pc \in Pcs : Step(t, pc) \in ThreadRecord
  BY StepType
<1>1. ASSUME NEW start \in Blocks, NEW count \in Sizes, NEW commit \in BOOLEAN,
             TryClaim(t, start, count, commit)
      PROVE  OneOwner' /\ Shape'
  <2> DEFINE range == BlocksAt(start, count)
             r == [Idle EXCEPT !.pc = "unschedule", !.range = range, !.commit = commit]
  <2>0. r.pc = "unschedule" /\ r.range = range
    BY BeginFields
  <2>1. /\ To(t, r) /\ thread[t].pc = "idle"
        /\ range \cap inuse = {} /\ inuse' = inuse \cup range /\ allocs' = allocs
    BY <1>1 DEF TryClaim
  <2> HIDE DEF r, range
  <2>2. OwnedBy(r) = range /\ OwnedBy(thread[t]) = {} /\ ShapeOf(r)
    BY <2>0, <2>1 DEF ShapeOf
  <2>3. OneOwner'
    BY <2>1, <2>2, ClaimStep
  <2> QED
    BY <2>1, <2>2, <2>3, ShapeTo
<1>2. CASE Unschedule(t)
  <2> DEFINE r == [Step(t, "commit") EXCEPT !.zero = (dirty \cap thread[t].range = {})]
  <2>1. r.pc = "commit" /\ r.range = thread[t].range
    BY <1>0, OtherFields DEF Pcs
  <2>2. To(t, r) /\ thread[t].pc = "unschedule" /\ UNCHANGED <<inuse, allocs>>
    BY <1>2 DEF Unschedule
  <2> HIDE DEF r
  <2> QED
    BY <2>1, <2>2, KeepStep, ShapeTo DEF ShapeOf
<1>3. CASE CommitBits(t)
  <2>0. PICK pc \in {"return", "oscommit"} : \E ok : To(t, [Step(t, pc) EXCEPT !.ok = ok])
    BY <1>3 DEF CommitBits
  <2>1. PICK ok : To(t, [Step(t, pc) EXCEPT !.ok = ok])
    BY <2>0
  <2> DEFINE r == [Step(t, pc) EXCEPT !.ok = ok]
  <2>2. r.pc = pc /\ r.range = thread[t].range
    BY <1>0, OtherFields DEF Pcs
  <2>3. To(t, r) /\ thread[t].pc = "commit" /\ UNCHANGED <<inuse, allocs>>
    BY <1>3, <2>1 DEF CommitBits
  <2> HIDE DEF r
  <2> QED
    BY <2>2, <2>3, KeepStep, ShapeTo DEF ShapeOf
<1>4. CASE OsCommit(t)
  <2> DEFINE q == Step(t, "return")
             r == [q EXCEPT !.ok = FALSE]
  <2>1. q.pc = "return" /\ q.range = thread[t].range
    OBVIOUS
  <2>2. r.pc = "return" /\ r.range = thread[t].range
    BY <1>0, OtherFields DEF Pcs
  <2>3. (To(t, q) \/ To(t, r)) /\ thread[t].pc = "oscommit" /\ UNCHANGED <<inuse, allocs>>
    BY <1>4 DEF OsCommit, bits
  <2> HIDE DEF q, r
  <2> QED
    BY <2>1, <2>2, <2>3, KeepStep, ShapeTo DEF ShapeOf
<1>5. CASE Return(t)
  <2> DEFINE a == [blocks |-> thread[t].range,
                   committed |-> IF thread[t].ok THEN thread[t].range ELSE {}]
  <2>1. /\ To(t, Idle) /\ thread[t].pc = "return" /\ inuse' = inuse
        /\ allocs' = allocs \cup {a} /\ a.blocks = thread[t].range
    BY <1>5 DEF Return, bits
  <2>2. Idle.pc = "idle"
    BY BeginFields
  <2> HIDE DEF a
  <2> QED
    BY <2>1, <2>2, GiveStep, ShapeTo DEF ShapeOf
<1> QED
  BY <1>1, <1>2, <1>3, <1>4, <1>5

LEMMA FreeOwners ==
  ASSUME TypeOK, OneOwner, Shape, NEW t \in Threads,
         \/ \E a \in allocs : Free(t, a)
         \/ Schedule(t) \/ ScheduleAll(t) \/ ScheduleBits(t) \/ Release(t)
  PROVE  OneOwner' /\ Shape'
<1> USE Records, StepFields, OwnedCases
<1>1. ASSUME NEW a \in allocs, Free(t, a)
      PROVE  OneOwner' /\ Shape'
  <2> DEFINE r == [Idle EXCEPT !.pc = "schedule", !.range = a.blocks]
  <2>1. r.pc = "schedule" /\ r.range = a.blocks /\ r.claim = {}
    BY BeginFields
  <2>2. /\ To(t, r) /\ thread[t].pc = "idle"
        /\ inuse' = inuse /\ allocs' = allocs \ {a}
    BY <1>1 DEF Free
  <2> HIDE DEF r
  <2>3. OwnedBy(r) = a.blocks /\ OwnedBy(thread[t]) = {} /\ ShapeOf(r)
    BY <2>1, <2>2 DEF ShapeOf
  <2>4. OneOwner'
    BY <2>2, <2>3, TakeStep
  <2> QED
    BY <2>2, <2>3, <2>4, ShapeTo
<1>2. CASE Schedule(t)
  <2>1. PICK pc \in {"release", "os_purge", "schedule_all", "schedule_bits"} : To(t, Step(t, pc))
    BY <1>2 DEF Schedule
  <2>2. /\ thread[t].pc = "schedule" /\ thread[t].claim = {}
        /\ UNCHANGED <<inuse, allocs>>
    BY <1>2 DEF Schedule, bits, Shape
  <2> DEFINE r == Step(t, pc)
  <2>3. r.pc = pc /\ r.range = thread[t].range /\ r.claim = {} /\ To(t, r)
    BY <2>1, <2>2
  <2> HIDE DEF r
  <2>4. OwnedBy(r) = OwnedBy(thread[t]) /\ ShapeOf(r)
    BY <2>2, <2>3 DEF ShapeOf
  <2> QED
    BY <2>2, <2>3, <2>4, KeepStep, ShapeTo
<1>3. CASE ScheduleAll(t)
  <2> DEFINE r == [Step(t, "schedule_bits") EXCEPT !.now = 0]
  <2>1. r.pc = "schedule_bits" /\ r.range = thread[t].range
    BY StepType, OtherFields DEF Pcs
  <2>2. To(t, r) /\ thread[t].pc = "schedule_all" /\ UNCHANGED <<inuse, allocs>>
    BY <1>3 DEF ScheduleAll, bits
  <2> HIDE DEF r
  <2> QED
    BY <2>1, <2>2, KeepStep, ShapeTo DEF ShapeOf
<1>4. CASE ScheduleBits(t)
  <2>1. To(t, Step(t, "release")) /\ thread[t].pc = "schedule_bits" /\ UNCHANGED <<inuse, allocs>>
    BY <1>4 DEF ScheduleBits
  <2> QED
    BY <2>1, KeepStep, ShapeTo DEF ShapeOf
<1>5. CASE Release(t)
  <2> DEFINE r == [Idle EXCEPT !.pc = "try"]
  <2>1. r.pc = "try"
    BY BeginFields
  <2>2. /\ To(t, r) /\ thread[t].pc = "release"
        /\ inuse' = inuse \ thread[t].range /\ allocs' = allocs
    BY <1>5 DEF Release
  <2> HIDE DEF r
  <2> QED
    BY <2>1, <2>2, ReleaseStep, ShapeTo DEF ShapeOf
<1> QED
  BY <1>1, <1>2, <1>3, <1>4, <1>5

\* Where a thread owns nothing; a step from one of these places to another.
FreePcs == {"idle", "try", "guard", "expired", "load", "claim", "finish"}

LEMMA FreeHanded ==
  ASSUME TypeOK, OneOwner, Shape, NEW t \in Threads, NEW r, To(t, r),
         thread[t].pc \in FreePcs, r.pc \in FreePcs, UNCHANGED <<inuse, allocs>>
  PROVE  OneOwner' /\ Shape'
<1>1. OwnedBy(r) = {} /\ OwnedBy(thread[t]) = {} /\ ShapeOf(r)
  BY OwnedCases DEF ShapeOf, FreePcs
<1> QED
  BY <1>1, KeepStep, ShapeTo

LEMMA PurgeOwners ==
  ASSUME TypeOK, OneOwner, Shape, NEW t \in Threads,
         \/ \E force \in BOOLEAN : Collect(t, force)
         \/ TryPurge(t) \/ Guard(t) \/ Expired(t) \/ LoadPurge(t) \/ ClaimRange(t)
         \/ Reload(t) \/ OsPurge(t) \/ Purged(t) \/ Unclaim(t) \/ Finish(t)
  PROVE  OneOwner' /\ Shape'
<1> USE Records, StepFields, OwnedCases
<1>0. thread \in [Threads -> ThreadRecord] /\ purge \in SUBSET Blocks /\ Idle.pc = "idle"
  BY BeginFields DEF TypeOK
<1>1. ASSUME NEW force \in BOOLEAN, Collect(t, force)
      PROVE  OneOwner' /\ Shape'
  <2> DEFINE r == [Idle EXCEPT !.pc = "try", !.force = force]
  <2>1. r.pc = "try"
    BY BeginFields
  <2>2. To(t, r) /\ thread[t].pc = "idle" /\ UNCHANGED <<inuse, allocs>>
    BY <1>1 DEF Collect, bits
  <2> HIDE DEF r
  <2> QED
    BY <2>1, <2>2, FreeHanded DEF FreePcs
<1>2. CASE TryPurge(t)
  <2>1. PICK r \in {Idle, Step(t, "guard")} : To(t, r)
    BY <1>2 DEF TryPurge
  <2>2. thread[t].pc = "try" /\ r.pc \in {"idle", "guard"} /\ UNCHANGED <<inuse, allocs>>
    BY <1>0, <1>2 DEF TryPurge, bits
  <2> QED
    BY <2>1, <2>2, FreeHanded DEF FreePcs
<1>3. CASE Guard(t)
  <2>1. PICK r \in {Idle, Step(t, "expired")} : To(t, r)
    BY <1>3 DEF Guard
  <2>2. thread[t].pc = "guard" /\ r.pc \in {"idle", "expired"} /\ UNCHANGED <<inuse, allocs>>
    BY <1>0, <1>3 DEF Guard, bits
  <2> QED
    BY <2>1, <2>2, FreeHanded DEF FreePcs
<1>4. CASE Expired(t)
  <2>1. PICK pc \in {"load", "finish"} : To(t, [Step(t, pc) EXCEPT !.now = 0])
    BY <1>4 DEF Expired
  <2> DEFINE r == [Step(t, pc) EXCEPT !.now = 0]
  <2>2. r.pc = pc
    BY StepType, OtherFields DEF Pcs
  <2>3. To(t, r) /\ thread[t].pc = "expired" /\ UNCHANGED <<inuse, allocs>>
    BY <1>4, <2>1 DEF Expired, bits
  <2> HIDE DEF r
  <2> QED
    BY <2>2, <2>3, FreeHanded DEF FreePcs
<1>5. CASE LoadPurge(t)
  <2>1. Walk(t, 0, purge).pc \in {"finish", "claim"}
    BY <1>0, WalkRecord
  <2>2. To(t, Walk(t, 0, purge)) /\ thread[t].pc = "load" /\ UNCHANGED <<inuse, allocs>>
    BY <1>5 DEF LoadPurge, bits
  <2> QED
    BY <2>1, <2>2, FreeHanded DEF FreePcs
<1>6. CASE ClaimRange(t)
  <2> DEFINE r == [Step(t, "reload") EXCEPT !.any = TRUE]
             w == Walk(t, thread[t].at + 1, thread[t].mask)
             s == [thread[t] EXCEPT !.claim = thread[t].claim \ {Max(thread[t].claim)}]
  <2>1. r.pc = "reload" /\ r.claim = thread[t].claim
    BY StepType, OtherFields DEF Pcs
  <2>2. w.pc \in {"finish", "claim"}
    BY <1>0, WalkRecord
  <2>3. s.pc = thread[t].pc
    BY DEF ThreadRecord
  <2>4. /\ thread[t].pc = "claim" /\ allocs' = allocs
        /\ \/ thread[t].claim \cap inuse = {} /\ inuse' = inuse \cup thread[t].claim /\ To(t, r)
           \/ inuse' = inuse /\ (To(t, w) \/ To(t, s))
    BY <1>6 DEF ClaimRange
  <2> HIDE DEF r, w, s
  <2>5. CASE inuse' = inuse /\ (To(t, w) \/ To(t, s))
    BY <2>2, <2>3, <2>4, <2>5, FreeHanded DEF FreePcs
  <2>6. CASE thread[t].claim \cap inuse = {} /\ inuse' = inuse \cup thread[t].claim /\ To(t, r)
    <3>1. OwnedBy(r) = thread[t].claim /\ OwnedBy(thread[t]) = {} /\ ShapeOf(r)
      BY <2>1, <2>4 DEF ShapeOf
    <3> QED
      BY <2>4, <2>6, <3>1, ClaimStep, ShapeTo
  <2> QED
    BY <2>4, <2>5, <2>6
<1>7. CASE Reload(t)
  <2> DEFINE n   == NextRun(t, purge, 0)
             all == thread[t].all /\ RunFrom(purge \cap thread[t].claim, Min(thread[t].claim))
                                       = thread[t].claim
             r   == [n EXCEPT !.all = all]
  <2>1. To(t, r) /\ thread[t].pc = "reload" /\ UNCHANGED <<inuse, allocs>>
    BY <1>7 DEF Reload, bits
  <2> HIDE DEF all
  <2>2. /\ n \in ThreadRecord /\ n.pc \in {"unclaim", "os_purge"}
        /\ n.claim = thread[t].claim /\ n.range \subseteq n.claim
    BY <1>0, NextRunRecord
  <2> HIDE DEF n
  <2>3. r.pc = n.pc /\ r.range = n.range /\ r.claim = n.claim
    BY <2>2, OtherFields
  <2> HIDE DEF r
  <2>4. OwnedBy(thread[t]) = thread[t].claim /\ ShapeOf(r)
    BY <2>1, <2>2, <2>3 DEF ShapeOf
  <2>5. OwnedBy(r) = r.claim
    <3>1. r.claim = {} => r.range = r.claim
      BY <2>2, <2>3
    <3> QED
      BY <2>2, <2>3, <3>1
  <2> QED
    BY <2>1, <2>2, <2>3, <2>4, <2>5, KeepStep, ShapeTo
<1>8. CASE OsPurge(t)
  <2> DEFINE r == Step(t, "purged")
  <2>1. To(t, r) /\ thread[t].pc = "os_purge" /\ UNCHANGED <<inuse, allocs>>
    BY <1>8 DEF OsPurge, bits
  <2>2. r.pc = "purged" /\ r.range = thread[t].range /\ r.claim = thread[t].claim
    OBVIOUS
  <2> HIDE DEF r
  <2>3. OwnedBy(r) = OwnedBy(thread[t]) /\ ShapeOf(r)
    BY <2>1, <2>2 DEF Shape, ShapeOf
  <2> QED
    BY <2>1, <2>3, KeepStep, ShapeTo
<1>9. CASE Purged(t)
  <2> DEFINE n == NextRun(t, thread[t].mask, Max(thread[t].range) + 1)
             r == Step(t, "release")
  <2>1. /\ thread[t].pc = "purged" /\ UNCHANGED <<inuse, allocs>>
        /\ IF thread[t].claim = {} THEN To(t, r) ELSE To(t, n)
    BY <1>9 DEF Purged
  <2>2. /\ n.pc \in {"unclaim", "os_purge"}
        /\ n.claim = thread[t].claim /\ n.range \subseteq n.claim
    BY <1>0, NextRunRecord
  <2>3. r.pc = "release" /\ r.range = thread[t].range
    OBVIOUS
  <2> HIDE DEF n, r
  <2>4. CASE thread[t].claim = {}
    <3>1. OwnedBy(r) = OwnedBy(thread[t]) /\ ShapeOf(r)
      BY <2>1, <2>3, <2>4 DEF ShapeOf
    <3> QED
      BY <2>1, <2>4, <3>1, KeepStep, ShapeTo
  <2>5. CASE thread[t].claim # {}
    <3>1. OwnedBy(n) = OwnedBy(thread[t]) /\ ShapeOf(n)
      BY <2>1, <2>2, <2>5 DEF ShapeOf
    <3> QED
      BY <2>1, <2>5, <3>1, KeepStep, ShapeTo
  <2> QED
    BY <2>4, <2>5
<1>10. CASE Unclaim(t)
  <2> DEFINE w == Walk(t, Max(thread[t].claim) + 2, thread[t].mask)
  <2>1. w.pc \in {"finish", "claim"}
    BY <1>0, WalkRecord
  <2>2. /\ To(t, w) /\ thread[t].pc = "unclaim"
        /\ inuse' = inuse \ thread[t].claim /\ allocs' = allocs
    BY <1>10 DEF Unclaim
  <2> HIDE DEF w
  <2>3. OwnedBy(w) = {} /\ OwnedBy(thread[t]) = thread[t].claim /\ ShapeOf(w)
    BY <2>1, <2>2 DEF ShapeOf
  <2> QED
    BY <2>2, <2>3, ReleaseStep, ShapeTo
<1>11. CASE Finish(t)
  <2>1. To(t, Idle) /\ thread[t].pc = "finish" /\ UNCHANGED <<inuse, allocs>>
    BY <1>11 DEF Finish, bits
  <2> QED
    BY <1>0, <2>1, FreeHanded DEF FreePcs
<1> QED
  BY <1>1, <1>2, <1>3, <1>4, <1>5, <1>6, <1>7, <1>8, <1>9, <1>10, <1>11

LEMMA ClientOwners ==
  ASSUME TypeOK, OneOwner, Shape, ClientStep
  PROVE  OneOwner' /\ Shape'
<1>0. PICK a \in allocs : \E b \in a.blocks : ClientCommit(a, b) \/ ClientPurge(a, b)
  BY DEF ClientStep
<1>1. PICK have : allocs' = (allocs \ {a}) \cup {[a EXCEPT !.committed = have]}
  BY <1>0 DEF ClientCommit, ClientPurge, Changed
<1>2. inuse' = inuse /\ thread' = thread
  BY <1>0 DEF ClientCommit, ClientPurge, bits
<1> DEFINE c == [a EXCEPT !.committed = have]
<1>3. c.blocks = a.blocks
  BY DEF TypeOK
<1> HIDE DEF c
<1>4. Owners(inuse, allocs', Own)
  BY <1>1, <1>3, OneOwnerOwners, OwnersChange DEF c
<1>5. Own' = Own
  BY <1>2 DEF Own
<1>6. Owners(inuse, allocs, Own)'
  BY <1>2, <1>4, <1>5 DEF Owners
<1>7. OneOwner'
  BY <1>6, OneOwnerOwners, PTL
<1> QED
  BY <1>2, <1>7 DEF Shape

LEMMA TickOwners ==
  ASSUME TypeOK, OneOwner, Shape, Tick
  PROVE  OneOwner' /\ Shape'
<1>1. ASSUME NEW t \in Threads
      PROVE  /\ thread'[t].pc = thread[t].pc
             /\ thread'[t].range = thread[t].range /\ thread'[t].claim = thread[t].claim
  <2>1. CASE t \in ReadClock
    <3>1. thread[t] \in ThreadRecord
      BY Records
    <3>2. thread'[t] = [thread[t] EXCEPT !.now = @ - 1]
      BY <2>1 DEF Tick
    <3> QED
      BY <3>1, <3>2, OtherFields
  <2>2. CASE t \notin ReadClock
    BY <2>2 DEF Tick
  <2> QED
    BY <2>1, <2>2
<1>2. \A t \in Threads : OwnedBy(thread'[t]) = OwnedBy(thread[t])
  BY <1>1 DEF OwnedBy
<1>3. Own' = Own /\ inuse' = inuse /\ allocs' = allocs
  BY <1>2 DEF Own, Tick, bits
<1>4. Owners(inuse, allocs, Own)'
  BY <1>3, OneOwnerOwners DEF Owners
<1>5. OneOwner'
  BY <1>4, OneOwnerOwners, PTL
<1> QED
  BY <1>1, <1>5 DEF Shape

LEMMA InitOwners == Init => OneOwner /\ Shape
<1> SUFFICES ASSUME Init PROVE OneOwner /\ Shape
  OBVIOUS
<1>1. \A t \in Threads : thread[t] = Idle
  BY DEF Init
<1>2. Idle.pc = "idle"
  BY BeginFields
<1>3. \A t \in Threads : Own[t] = {}
  BY <1>1, <1>2, OwnedCases DEF Own
<1>4. Owners(inuse, allocs, Own)
  BY <1>3 DEF Init, Owners
<1>5. Shape
  BY <1>1, <1>2 DEF Shape
<1> QED
  BY <1>4, <1>5, OneOwnerOwners

LEMMA NextOwners ==
  ASSUME TypeOK, OneOwner, Shape, [Next]_vars
  PROVE  OneOwner' /\ Shape'
<1>1. ASSUME NEW t \in Threads, ThreadStep(t) \/ Call(t)
      PROVE  OneOwner' /\ Shape'
  BY <1>1, AllocOwners, FreeOwners, PurgeOwners DEF ThreadStep, Call
<1>2. CASE ClientStep
  BY <1>2, ClientOwners
<1>3. CASE Tick
  BY <1>3, TickOwners
<1>4. CASE UNCHANGED vars
  <2>1. Owners(inuse, allocs, Own)'
    BY <1>4, OneOwnerOwners DEF vars, bits, Own, Owners
  <2>2. OneOwner'
    BY <2>1, OneOwnerOwners, PTL
  <2> QED
    BY <1>4, <2>2 DEF vars, Shape
<1> QED
  BY <1>1, <1>2, <1>3, <1>4 DEF Next

\* Whatever threads, sizes and options there are: the claims of allocations and of
\* the purger never overlap, and inuse is exactly what clients and calls own.
THEOREM OwnershipCorrect == Spec => []OneOwner
<1>1. Init => TypeOK /\ OneOwner /\ Shape
  BY InitType, InitOwners
<1>2. TypeOK /\ TypeOK' /\ OneOwner /\ Shape /\ [Next]_vars => OneOwner' /\ Shape'
  BY NextOwners
<1> QED
  BY <1>1, <1>2, TypeCorrect, PTL DEF Spec

-----------------------------------------------------------------------------
(***************************************************************************)
(* What ownership of blocks is for: with the claims proved disjoint, the   *)
(* committed and purge bits, and the memory, of a block are touched by its *)
(* owner only.  Three invariants of Arena follow, one for the memory and   *)
(* its committed bits, one for the purge bits, one for the dirty bits.     *)
(***************************************************************************)

\* Where an allocation has its final range; where a committed bit may be ahead of
\* the memory.
AllocPcs == {"commit", "oscommit", "return"}
Needed   == options.decommits /\ options.recommit
Exempt(th) ==
  {b \in th.range : th.pc \in {"oscommit", "return"} \/ (th.pc = "purged" /\ Needed)}

ReturnUsable ==
  \A t \in Threads : thread[t].pc = "return" /\ thread[t].ok => thread[t].range \subseteq os
BitsHonest ==
  \A b \in committed : \/ b \in os
                       \/ \E a \in allocs : b \in a.blocks
                       \/ \E t \in Threads : b \in Exempt(thread[t])
CommitInv ==
  /\ \A a \in allocs : a.committed \subseteq a.blocks
  /\ UsableIsCommitted /\ ReturnUsable /\ BitsHonest

PurgeInv ==
  /\ NoneScheduled
  /\ \A t \in Threads : thread[t].pc \in AllocPcs => thread[t].range \cap purge = {}

ZeroInv ==
  /\ written \subseteq dirty
  /\ \A a \in allocs : a.blocks \subseteq dirty
  /\ \A t \in Threads : thread[t].pc \in AllocPcs =>
       /\ thread[t].range \subseteq dirty
       /\ thread[t].zero => thread[t].range \cap written = {}

-----------------------------------------------------------------------------
(* What the steps do to the record of the thread that takes them.           *)

\* Only the record of the thread itself changes.
LEMMA Others ==
  ASSUME TypeOK, NEW t \in Threads, NEW r, To(t, r)
  PROVE  thread'[t] = r /\ \A u \in Threads : u # t => thread'[u] = thread[u]
BY DEF TypeOK, To

\* A step that changes nothing these invariants are about.
Quiet(t) ==
  /\ UNCHANGED <<options, committed, purge, dirty, os, written, allocs>>
  /\ thread[t].pc \notin AllocPcs \cup {"purged"}
  /\ thread'[t].pc \notin AllocPcs \cup {"purged"}
  /\ \A u \in Threads : u # t => thread'[u] = thread[u]

LEMMA QuietTo ==
  ASSUME TypeOK, NEW t \in Threads, thread[t].pc \notin AllocPcs \cup {"purged"},
         NEW r, To(t, r), r.pc \notin AllocPcs \cup {"purged"},
         UNCHANGED <<options, committed, purge, dirty, os, written, allocs>>
  PROVE  Quiet(t)
BY Others DEF Quiet

LEMMA QuietSteps ==
  ASSUME TypeOK, NEW t \in Threads,
         \/ \E start \in Blocks, count \in Sizes, commit \in BOOLEAN : TryClaim(t, start, count, commit)
         \/ \E force \in BOOLEAN : Collect(t, force)
         \/ Schedule(t) \/ ScheduleAll(t) \/ Release(t) \/ TryPurge(t) \/ Guard(t) \/ Expired(t)
         \/ LoadPurge(t) \/ ClaimRange(t) \/ Reload(t) \/ Unclaim(t) \/ Finish(t)
  PROVE  Quiet(t)
<1> USE Records, StepFields
<1>0. /\ thread \in [Threads -> ThreadRecord] /\ purge \in SUBSET Blocks /\ Idle.pc = "idle"
      /\ \A pc \in Pcs : Step(t, pc) \in ThreadRecord
  BY BeginFields, StepType DEF TypeOK
<1>1. ASSUME NEW start \in Blocks, NEW count \in Sizes, NEW commit \in BOOLEAN,
             TryClaim(t, start, count, commit)
      PROVE  Quiet(t)
  <2>0. thread[t].pc = "idle"
    BY <1>1 DEF TryClaim
  <2> DEFINE r == [Idle EXCEPT !.pc = "unschedule", !.range = BlocksAt(start, count), !.commit = commit]
  <2>1. r.pc = "unschedule"
    BY BeginFields
  <2>2. To(t, r) /\ UNCHANGED <<options, committed, purge, dirty, os, written, allocs>>
    BY <1>1 DEF TryClaim
  <2> HIDE DEF r
  <2> QED
    BY <2>0, <2>1, <2>2, QuietTo DEF AllocPcs
<1>2. ASSUME NEW force \in BOOLEAN, Collect(t, force)
      PROVE  Quiet(t)
  <2>0. thread[t].pc = "idle"
    BY <1>2 DEF Collect
  <2> DEFINE r == [Idle EXCEPT !.pc = "try", !.force = force]
  <2>1. r.pc = "try"
    BY BeginFields
  <2>2. To(t, r) /\ UNCHANGED <<options, committed, purge, dirty, os, written, allocs>>
    BY <1>2 DEF Collect, bits
  <2> HIDE DEF r
  <2> QED
    BY <2>0, <2>1, <2>2, QuietTo DEF AllocPcs
<1>3. CASE Schedule(t)
  <2>0. thread[t].pc = "schedule"
    BY <1>3 DEF Schedule
  <2>1. PICK pc \in {"release", "os_purge", "schedule_all", "schedule_bits"} : To(t, Step(t, pc))
    BY <1>3 DEF Schedule
  <2>2. UNCHANGED <<options, committed, purge, dirty, os, written, allocs>>
    BY <1>3 DEF Schedule, bits
  <2> QED
    BY <2>0, <2>1, <2>2, QuietTo DEF AllocPcs
<1>4. CASE ScheduleAll(t)
  <2>0. thread[t].pc = "schedule_all"
    BY <1>4 DEF ScheduleAll
  <2> DEFINE r == [Step(t, "schedule_bits") EXCEPT !.now = 0]
  <2>1. r.pc = "schedule_bits"
    BY <1>0, OtherFields DEF Pcs
  <2>2. To(t, r) /\ UNCHANGED <<options, committed, purge, dirty, os, written, allocs>>
    BY <1>4 DEF ScheduleAll, bits
  <2> HIDE DEF r
  <2> QED
    BY <2>0, <2>1, <2>2, QuietTo DEF AllocPcs
<1>5. CASE Release(t)
  <2>0. thread[t].pc = "release"
    BY <1>5 DEF Release
  <2> DEFINE r == [Idle EXCEPT !.pc = "try"]
  <2>1. r.pc = "try"
    BY BeginFields
  <2>2. To(t, r) /\ UNCHANGED <<options, committed, purge, dirty, os, written, allocs>>
    BY <1>5 DEF Release
  <2> HIDE DEF r
  <2> QED
    BY <2>0, <2>1, <2>2, QuietTo DEF AllocPcs
<1>6. CASE TryPurge(t)
  <2>0. thread[t].pc = "try"
    BY <1>6 DEF TryPurge
  <2>1. PICK r \in {Idle, Step(t, "guard")} : To(t, r)
    BY <1>6 DEF TryPurge
  <2>2. /\ r.pc \in {"idle", "guard"}
        /\ UNCHANGED <<options, committed, purge, dirty, os, written, allocs>>
    BY <1>0, <1>6 DEF TryPurge, bits
  <2> QED
    BY <2>0, <2>1, <2>2, QuietTo DEF AllocPcs
<1>7. CASE Guard(t)
  <2>0. thread[t].pc = "guard"
    BY <1>7 DEF Guard
  <2>1. PICK r \in {Idle, Step(t, "expired")} : To(t, r)
    BY <1>7 DEF Guard
  <2>2. /\ r.pc \in {"idle", "expired"}
        /\ UNCHANGED <<options, committed, purge, dirty, os, written, allocs>>
    BY <1>0, <1>7 DEF Guard, bits
  <2> QED
    BY <2>0, <2>1, <2>2, QuietTo DEF AllocPcs
<1>8. CASE Expired(t)
  <2>0. thread[t].pc = "expired"
    BY <1>8 DEF Expired
  <2>1. PICK pc \in {"load", "finish"} : To(t, [Step(t, pc) EXCEPT !.now = 0])
    BY <1>8 DEF Expired
  <2> DEFINE r == [Step(t, pc) EXCEPT !.now = 0]
  <2>2. r.pc = pc
    BY <1>0, OtherFields DEF Pcs
  <2>3. To(t, r) /\ UNCHANGED <<options, committed, purge, dirty, os, written, allocs>>
    BY <1>8, <2>1 DEF Expired, bits
  <2> HIDE DEF r
  <2> QED
    BY <2>0, <2>2, <2>3, QuietTo DEF AllocPcs
<1>9. CASE LoadPurge(t)
  <2>0. thread[t].pc = "load"
    BY <1>9 DEF LoadPurge
  <2>1. Walk(t, 0, purge).pc \in {"finish", "claim"}
    BY <1>0, WalkRecord
  <2>2. To(t, Walk(t, 0, purge)) /\ UNCHANGED <<options, committed, purge, dirty, os, written, allocs>>
    BY <1>9 DEF LoadPurge, bits
  <2> QED
    BY <2>0, <2>1, <2>2, QuietTo DEF AllocPcs
<1>10. CASE ClaimRange(t)
  <2>0. thread[t].pc = "claim"
    BY <1>10 DEF ClaimRange
  <2> DEFINE r == [Step(t, "reload") EXCEPT !.any = TRUE]
             w == Walk(t, thread[t].at + 1, thread[t].mask)
             s == [thread[t] EXCEPT !.claim = thread[t].claim \ {Max(thread[t].claim)}]
  <2>1. r.pc = "reload"
    BY <1>0, OtherFields DEF Pcs
  <2>2. w.pc \in {"finish", "claim"}
    BY <1>0, WalkRecord
  <2>3. s.pc = thread[t].pc
    BY DEF ThreadRecord
  <2>4. /\ thread[t].pc = "claim" /\ (To(t, r) \/ To(t, w) \/ To(t, s))
        /\ UNCHANGED <<options, committed, purge, dirty, os, written, allocs>>
    BY <1>10 DEF ClaimRange
  <2> HIDE DEF r, w, s
  <2> QED
    BY <2>0, <2>1, <2>2, <2>3, <2>4, QuietTo DEF AllocPcs
<1>11. CASE Reload(t)
  <2>0. thread[t].pc = "reload"
    BY <1>11 DEF Reload
  <2> DEFINE n   == NextRun(t, purge, 0)
             all == thread[t].all /\ RunFrom(purge \cap thread[t].claim, Min(thread[t].claim))
                                       = thread[t].claim
             r   == [n EXCEPT !.all = all]
  <2>1. To(t, r) /\ UNCHANGED <<options, committed, purge, dirty, os, written, allocs>>
    BY <1>11 DEF Reload, bits
  <2> HIDE DEF all
  <2>2. n \in ThreadRecord /\ n.pc \in {"unclaim", "os_purge"}
    BY <1>0, NextRunRecord
  <2> HIDE DEF n
  <2>3. r.pc = n.pc
    BY <2>2, OtherFields
  <2> HIDE DEF r
  <2> QED
    BY <2>0, <2>1, <2>2, <2>3, QuietTo DEF AllocPcs
<1>12. CASE Unclaim(t)
  <2>0. thread[t].pc = "unclaim"
    BY <1>12 DEF Unclaim
  <2> DEFINE w == Walk(t, Max(thread[t].claim) + 2, thread[t].mask)
  <2>1. w.pc \in {"finish", "claim"}
    BY <1>0, WalkRecord
  <2>2. To(t, w) /\ UNCHANGED <<options, committed, purge, dirty, os, written, allocs>>
    BY <1>12 DEF Unclaim
  <2> HIDE DEF w
  <2> QED
    BY <2>0, <2>1, <2>2, QuietTo DEF AllocPcs
<1>13. CASE Finish(t)
  <2>0. thread[t].pc = "finish"
    BY <1>13 DEF Finish
  <2>1. To(t, Idle) /\ UNCHANGED <<options, committed, purge, dirty, os, written, allocs>>
    BY <1>13 DEF Finish, bits
  <2> QED
    BY <2>0, <1>0, <2>1, QuietTo DEF AllocPcs
<1> QED
  BY <1>1, <1>2, <1>3, <1>4, <1>5, <1>6, <1>7, <1>8, <1>9, <1>10, <1>11, <1>12, <1>13

\* The other steps: where they go, and the fields that matter after them.
LEMMA UnscheduleFields ==
  ASSUME TypeOK, NEW t \in Threads, Unschedule(t)
  PROVE  /\ thread[t].pc = "unschedule" /\ thread'[t].pc = "commit"
         /\ thread'[t].range = thread[t].range
         /\ thread'[t].zero => dirty \cap thread[t].range = {}
         /\ \A u \in Threads : u # t => thread'[u] = thread[u]
<1> DEFINE zero == dirty \cap thread[t].range = {}
           r    == [Step(t, "commit") EXCEPT !.zero = zero]
<1>1. To(t, r) /\ thread[t].pc = "unschedule"
  BY DEF Unschedule
<1>2. Step(t, "commit") \in ThreadRecord
  BY StepType DEF Pcs
<1>3. r.zero = zero /\ r.pc = "commit" /\ r.range = thread[t].range
  <2> HIDE DEF zero
  <2>1. r.zero = zero
    BY <1>2 DEF ThreadRecord
  <2> QED
    BY <1>2, <2>1, OtherFields, StepFields
<1> HIDE DEF r
<1>4. r.zero => zero
  <2> HIDE DEF zero
  <2> QED
    BY <1>3
<1> QED
  BY <1>1, <1>3, <1>4, Others

LEMMA CommitFields ==
  ASSUME TypeOK, NEW t \in Threads, CommitBits(t)
  PROVE  /\ thread[t].pc = "commit"
         /\ thread'[t].range = thread[t].range /\ thread'[t].zero = thread[t].zero
         /\ \/ /\ committed' = committed \cup thread[t].range
               /\ thread'[t].pc = "oscommit"
            \/ /\ committed' = committed /\ thread[t].range \subseteq committed
               /\ thread'[t].pc = "return"
            \/ /\ committed' = committed \ thread[t].range
               /\ thread'[t].pc = "return" /\ ~ thread'[t].ok
         /\ \A u \in Threads : u # t => thread'[u] = thread[u]
<1> DEFINE all  == thread[t].range \subseteq committed
           R(f) == [Step(t, "return") EXCEPT !.ok = f]
           O    == [Step(t, "oscommit") EXCEPT !.ok = TRUE]
<1>1. Step(t, "return") \in ThreadRecord /\ Step(t, "oscommit") \in ThreadRecord
  BY StepType DEF Pcs
<1>2. \A f : R(f).pc = "return" /\ R(f).range = thread[t].range
  BY <1>1, OtherFields, StepFields
<1>3. O.pc = "oscommit" /\ O.range = thread[t].range
  BY <1>1, OtherFields, StepFields
<1>4. \A f : R(f).ok = f /\ R(f).zero = thread[t].zero
  BY <1>1, StepFields DEF ThreadRecord
<1>5. O.zero = thread[t].zero
  BY <1>1, StepFields DEF ThreadRecord
<1>6. thread[t].pc = "commit"
  BY DEF CommitBits
<1>7. CASE all
  <2>1. \/ To(t, R(TRUE)) /\ committed' = committed \cup thread[t].range
        \/ To(t, R(all)) /\ committed' = committed
    BY <1>7 DEF CommitBits
  <2>2. committed' = committed
    BY <1>7, <2>1
  <2>3. PICK f : To(t, R(f))
    BY <2>1
  <2>4. thread'[t] = R(f) /\ \A u \in Threads : u # t => thread'[u] = thread[u]
    BY <2>3, Others
  <2> HIDE DEF R
  <2> QED
    BY <1>2, <1>4, <1>6, <1>7, <2>2, <2>4
<1>8. CASE ~ all
  <2>1. \/ To(t, O) /\ committed' = committed \cup thread[t].range
        \/ To(t, R(FALSE)) /\ committed' = committed \ thread[t].range
    BY <1>8 DEF CommitBits
  <2>2. To(t, O) => thread'[t] = O /\ \A u \in Threads : u # t => thread'[u] = thread[u]
    BY Others
  <2>3. To(t, R(FALSE)) => thread'[t] = R(FALSE) /\ \A u \in Threads : u # t => thread'[u] = thread[u]
    BY Others
  <2> HIDE DEF R, O
  <2> QED
    BY <1>2, <1>3, <1>4, <1>5, <1>6, <2>1, <2>2, <2>3
<1> QED
  BY <1>7, <1>8

LEMMA OsCommitFields ==
  ASSUME TypeOK, NEW t \in Threads, OsCommit(t)
  PROVE  /\ thread[t].pc = "oscommit" /\ thread'[t].pc = "return"
         /\ thread'[t].range = thread[t].range /\ thread'[t].zero = thread[t].zero
         /\ \/ os' = os \cup thread[t].range
            \/ os' = os /\ ~ thread'[t].ok
         /\ \A u \in Threads : u # t => thread'[u] = thread[u]
<1> DEFINE q == Step(t, "return")
           r == [q EXCEPT !.ok = FALSE]
<1>1. q \in ThreadRecord
  BY StepType DEF Pcs
<1>2. q.pc = "return" /\ q.range = thread[t].range /\ q.zero = thread[t].zero
  BY StepFields
<1>3. r.pc = "return" /\ r.range = thread[t].range
  BY <1>1, OtherFields, StepFields
<1>4. r.ok = FALSE /\ r.zero = q.zero
  BY <1>1 DEF ThreadRecord
<1>5. /\ thread[t].pc = "oscommit"
      /\ (os' = os \cup thread[t].range /\ To(t, q)) \/ (os' = os /\ To(t, r))
  BY DEF OsCommit
<1> HIDE DEF q, r
<1> QED
  BY <1>2, <1>3, <1>4, <1>5, Others

LEMMA ReturnFields ==
  ASSUME TypeOK, NEW t \in Threads, Return(t)
  PROVE  \E a : /\ a.blocks = thread[t].range
                /\ a.committed = IF thread[t].ok THEN thread[t].range ELSE {}
                /\ allocs' = allocs \cup {a} /\ written' = written \cup a.committed
                /\ thread[t].pc = "return" /\ thread'[t].pc = "idle"
                /\ \A u \in Threads : u # t => thread'[u] = thread[u]
<1> DEFINE have == IF thread[t].ok THEN thread[t].range ELSE {}
           a    == [blocks |-> thread[t].range, committed |-> have]
<1>1. /\ To(t, Idle) /\ thread[t].pc = "return"
      /\ allocs' = allocs \cup {a} /\ written' = written \cup have
  BY DEF Return
<1>2. thread'[t].pc = "idle" /\ \A u \in Threads : u # t => thread'[u] = thread[u]
  BY <1>1, Others, BeginFields
<1>3. a.blocks = thread[t].range /\ a.committed = have
  OBVIOUS
<1> HIDE DEF a
<1> QED
  BY <1>1, <1>2, <1>3

\* A free, the end of its scheduling, and the end of a purge leave the thread at a
\* place the invariants do not speak of.
LEMMA OtherMoves ==
  ASSUME TypeOK, NEW t \in Threads,
         (\E a \in allocs : Free(t, a)) \/ ScheduleBits(t) \/ Purged(t)
  PROVE  /\ thread'[t].pc \notin AllocPcs \cup {"purged"}
         /\ \A u \in Threads : u # t => thread'[u] = thread[u]
<1>1. ASSUME NEW a \in allocs, Free(t, a)
      PROVE  \E r : To(t, r) /\ r.pc \notin AllocPcs \cup {"purged"}
  <2> DEFINE r == [Idle EXCEPT !.pc = "schedule", !.range = a.blocks]
  <2>1. r.pc = "schedule"
    BY BeginFields
  <2>2. To(t, r)
    BY <1>1 DEF Free
  <2> HIDE DEF r
  <2> QED
    BY <2>1, <2>2 DEF AllocPcs
<1>2. CASE ScheduleBits(t)
  BY <1>2, Others, StepFields DEF ScheduleBits, AllocPcs
<1>3. CASE Purged(t)
  <2> DEFINE n == NextRun(t, thread[t].mask, Max(thread[t].range) + 1)
             r == Step(t, "release")
  <2>1. To(t, r) \/ To(t, n)
    BY <1>3 DEF Purged
  <2>2. n.pc \in {"unclaim", "os_purge"}
    BY Records, NextRunRecord DEF TypeOK
  <2>3. r.pc = "release"
    BY StepFields
  <2> HIDE DEF n, r
  <2> QED
    BY <2>1, <2>2, <2>3, Others DEF AllocPcs
<1> QED
  BY <1>1, <1>2, <1>3, Others

LEMMA OsPurgeFields ==
  ASSUME TypeOK, NEW t \in Threads, OsPurge(t)
  PROVE  /\ thread[t].pc = "os_purge" /\ thread'[t].pc = "purged"
         /\ thread'[t].range = thread[t].range
         /\ \A u \in Threads : u # t => thread'[u] = thread[u]
BY Others, StepFields DEF OsPurge

LEMMA ClientFields ==
  ASSUME TypeOK, ClientStep
  PROVE  \E a \in allocs : \E b, c :
           /\ b \in a.blocks /\ c.blocks = a.blocks
           /\ allocs' = (allocs \ {a}) \cup {c}
           /\ UNCHANGED <<options, committed, purge, dirty, thread>>
           /\ \/ /\ os' = os \cup {b} /\ written' = written \cup {b}
                 /\ c.committed = a.committed \cup {b}
              \/ /\ os' = os \ {b} /\ written' = written
                 /\ c.committed = a.committed \ {b}
<1>0. PICK a \in allocs : \E b \in a.blocks : ClientCommit(a, b) \/ ClientPurge(a, b)
  BY DEF ClientStep
<1>1. PICK b \in a.blocks : ClientCommit(a, b) \/ ClientPurge(a, b)
  BY <1>0
<1> DEFINE C(h) == [a EXCEPT !.committed = h]
<1>2. \A h : C(h).blocks = a.blocks /\ C(h).committed = h
  BY DEF TypeOK
<1>3. CASE ClientCommit(a, b)
  <2>1. /\ allocs' = (allocs \ {a}) \cup {C(a.committed \cup {b})}
        /\ os' = os \cup {b} /\ written' = written \cup {b}
        /\ UNCHANGED <<options, committed, purge, dirty, thread>>
    BY <1>3 DEF ClientCommit, Changed, bits
  <2> HIDE DEF C
  <2> QED
    BY <1>2, <2>1
<1>4. CASE ClientPurge(a, b)
  <2>1. /\ allocs' = (allocs \ {a}) \cup {C(a.committed \ {b})}
        /\ os' = os \ {b} /\ written' = written
        /\ UNCHANGED <<options, committed, purge, dirty, thread>>
    BY <1>4 DEF ClientPurge, Changed, bits
  <2> HIDE DEF C
  <2> QED
    BY <1>2, <2>1
<1> QED
  BY <1>1, <1>3, <1>4

LEMMA TickFields ==
  ASSUME TypeOK, Tick, NEW t \in Threads
  PROVE  /\ thread'[t].pc = thread[t].pc /\ thread'[t].range = thread[t].range
         /\ thread'[t].ok = thread[t].ok /\ thread'[t].zero = thread[t].zero
<1>1. CASE t \in ReadClock
  <2>1. thread[t] \in ThreadRecord
    BY Records
  <2>2. thread'[t] = [thread[t] EXCEPT !.now = @ - 1]
    BY <1>1 DEF Tick
  <2>3. \A n : LET r == [thread[t] EXCEPT !.now = n]
               IN r.ok = thread[t].ok /\ r.zero = thread[t].zero
    BY <2>1 DEF ThreadRecord
  <2> QED
    BY <2>1, <2>2, <2>3, OtherFields
<1>2. CASE t \notin ReadClock
  BY <1>2 DEF Tick
<1> QED
  BY <1>1, <1>2

-----------------------------------------------------------------------------
(* What ownership says about the ranges of threads.                         *)

\* Where a thread works on blocks of its range that it owns.
Acting == AllocPcs \cup {"unschedule", "schedule_bits", "os_purge", "purged"}

LEMMA RangesDisjoint ==
  ASSUME TypeOK, OneOwner, Shape
  PROVE  /\ \A t, u \in Threads : t # u /\ thread[t].pc \in Acting /\ thread[u].pc \in Acting
                                    => thread[t].range \cap thread[u].range = {}
         /\ \A t \in Threads, a \in allocs : thread[t].pc \in Acting
                                    => thread[t].range \cap a.blocks = {}
         /\ \A t \in Threads : thread[t].pc \in Acting => thread[t].range \subseteq inuse
         /\ \A a, b \in allocs : a # b => a.blocks \cap b.blocks = {}
         /\ \A a \in allocs : a.blocks \subseteq inuse
<1>1. \A t \in Threads : thread[t].pc \in Acting => thread[t].range \subseteq Own[t]
  <2> SUFFICES ASSUME NEW t \in Threads, thread[t].pc \in Acting
               PROVE  thread[t].range \subseteq OwnedBy(thread[t])
    BY DEF Own
  <2>1. CASE thread[t].pc \in {"os_purge", "purged"}
    BY <2>1, OwnedCases DEF Shape
  <2>2. CASE thread[t].pc \notin {"os_purge", "purged"}
    BY <2>2, OwnedCases DEF Acting, AllocPcs
  <2> QED
    BY <2>1, <2>2
<1>2. Owners(inuse, allocs, Own)
  BY OneOwnerOwners
<1> QED
  BY <1>1, <1>2 DEF Owners

-----------------------------------------------------------------------------
(* The purge bits.                                                          *)

LEMMA PurgeInvThread ==
  ASSUME TypeOK, OneOwner, Shape, PurgeInv, NEW t \in Threads, ThreadStep(t) \/ Call(t)
  PROVE  PurgeInv'
<1> USE RangesDisjoint DEF Acting, AllocPcs, PurgeInv, NoneScheduled
<1>1. CASE Quiet(t)
  BY <1>1 DEF Quiet
<1>2. CASE Unschedule(t)
  BY <1>2, UnscheduleFields DEF Unschedule
<1>3. CASE CommitBits(t)
  BY <1>3, CommitFields DEF CommitBits
<1>4. CASE OsCommit(t)
  BY <1>4, OsCommitFields DEF OsCommit, bits
<1>5. CASE Return(t)
  BY <1>5, ReturnFields DEF Return, bits
<1>6. ASSUME NEW a \in allocs, Free(t, a)
      PROVE  PurgeInv'
  BY <1>6, OtherMoves DEF Free
<1>7. CASE ScheduleBits(t)
  BY <1>7, OtherMoves DEF ScheduleBits
<1>8. CASE OsPurge(t)
  BY <1>8, OsPurgeFields DEF OsPurge, bits
<1>9. CASE Purged(t)
  BY <1>9, OtherMoves DEF Purged
<1> QED
  BY <1>1, <1>2, <1>3, <1>4, <1>5, <1>6, <1>7, <1>8, <1>9, QuietSteps DEF ThreadStep, Call

LEMMA PurgeInvNext ==
  ASSUME TypeOK, OneOwner, Shape, PurgeInv, [Next]_vars
  PROVE  PurgeInv'
<1>1. CASE ClientStep
  BY <1>1, ClientFields DEF PurgeInv, NoneScheduled
<1>2. CASE Tick
  BY <1>2, TickFields DEF PurgeInv, NoneScheduled, Tick, bits
<1>3. CASE UNCHANGED vars
  BY <1>3 DEF PurgeInv, NoneScheduled, vars, bits
<1> QED
  BY <1>1, <1>2, <1>3, PurgeInvThread DEF Next

\* No block that a client has is scheduled for a purge, whatever the purger and the
\* other threads do: "none of the claimed blocks should be scheduled for a decommit".
THEOREM PurgeCorrect == Spec => []NoneScheduled
<1>1. Init => PurgeInv
  BY BeginFields DEF Init, PurgeInv, NoneScheduled
<1>2. TypeOK /\ OneOwner /\ Shape /\ PurgeInv /\ [Next]_vars => OneOwner' /\ Shape' /\ PurgeInv'
  BY NextOwners, PurgeInvNext
<1>3. PurgeInv => NoneScheduled
  BY DEF PurgeInv
<1> QED
  BY <1>1, <1>2, <1>3, InitOwners, TypeCorrect, PTL DEF Spec

-----------------------------------------------------------------------------
(* The dirty bits.                                                          *)

LEMMA ZeroInvThread ==
  ASSUME TypeOK, OneOwner, Shape, ZeroInv, NEW t \in Threads, ThreadStep(t) \/ Call(t)
  PROVE  ZeroInv'
<1> USE RangesDisjoint DEF Acting, AllocPcs, ZeroInv
<1>1. CASE Quiet(t)
  BY <1>1 DEF Quiet
<1>2. CASE Unschedule(t)
  BY <1>2, UnscheduleFields DEF Unschedule
<1>3. CASE CommitBits(t)
  BY <1>3, CommitFields DEF CommitBits
<1>4. CASE OsCommit(t)
  BY <1>4, OsCommitFields DEF OsCommit, bits
<1>5. CASE Return(t)
  BY <1>5, ReturnFields DEF Return, bits
<1>6. ASSUME NEW a \in allocs, Free(t, a)
      PROVE  ZeroInv'
  BY <1>6, OtherMoves DEF Free
<1>7. CASE ScheduleBits(t)
  BY <1>7, OtherMoves DEF ScheduleBits
<1>8. CASE OsPurge(t)
  BY <1>8, OsPurgeFields DEF OsPurge, bits
<1>9. CASE Purged(t)
  BY <1>9, OtherMoves DEF Purged
<1> QED
  BY <1>1, <1>2, <1>3, <1>4, <1>5, <1>6, <1>7, <1>8, <1>9, QuietSteps DEF ThreadStep, Call

LEMMA ZeroInvNext ==
  ASSUME TypeOK, OneOwner, Shape, ZeroInv, [Next]_vars
  PROVE  ZeroInv'
<1>1. CASE ClientStep
  BY <1>1, ClientFields, RangesDisjoint DEF ZeroInv, Acting
<1>2. CASE Tick
  BY <1>2, TickFields DEF ZeroInv, Tick, bits
<1>3. CASE UNCHANGED vars
  BY <1>3 DEF ZeroInv, vars, bits
<1> QED
  BY <1>1, <1>2, <1>3, ZeroInvThread DEF Next

\* Memory that is handed out as zero has never been used by a client.
THEOREM ZeroCorrect == Spec => []ZeroIsUnused
<1>1. Init => ZeroInv
  BY BeginFields DEF Init, ZeroInv, AllocPcs
<1>2. TypeOK /\ OneOwner /\ Shape /\ ZeroInv /\ [Next]_vars => OneOwner' /\ Shape' /\ ZeroInv'
  BY NextOwners, ZeroInvNext
<1>3. ZeroInv => ZeroIsUnused
  BY DEF ZeroInv, ZeroIsUnused, AllocPcs
<1> QED
  BY <1>1, <1>2, <1>3, InitOwners, TypeCorrect, PTL DEF Spec

-----------------------------------------------------------------------------
(* The committed bits and the memory.                                       *)

LEMMA CommitInvThread ==
  ASSUME TypeOK, OneOwner, Shape, CommitInv, NEW t \in Threads, ThreadStep(t) \/ Call(t)
  PROVE  CommitInv'
<1> USE RangesDisjoint DEF Acting, AllocPcs, CommitInv, UsableIsCommitted, ReturnUsable, BitsHonest,
                           Exempt, Needed
<1>1. CASE Quiet(t)
  BY <1>1 DEF Quiet
<1>2. CASE Unschedule(t)
  BY <1>2, UnscheduleFields DEF Unschedule
<1>3. CASE CommitBits(t)
  BY <1>3, CommitFields DEF CommitBits
<1>4. CASE OsCommit(t)
  BY <1>4, OsCommitFields DEF OsCommit, bits
<1>5. CASE Return(t)
  BY <1>5, ReturnFields DEF Return, bits
<1>6. ASSUME NEW a \in allocs, Free(t, a)
      PROVE  CommitInv'
  <2>0. /\ thread[t].pc = "idle" /\ allocs' = allocs \ {a} /\ os' = os /\ options' = options
        /\ committed' = (IF a.committed = a.blocks THEN committed ELSE committed \ a.blocks)
        /\ thread'[t].pc \notin AllocPcs \cup {"purged"}
        /\ \A u \in Threads : u # t => thread'[u] = thread[u]
    BY <1>6, OtherMoves DEF Free
  <2>1. (\A c \in allocs : c.committed \subseteq c.blocks)' /\ UsableIsCommitted' /\ ReturnUsable'
    BY <2>0
  <2>2. ASSUME NEW b \in committed', b \notin os
        PROVE  \/ \E c \in allocs \ {a} : b \in c.blocks
               \/ \E u \in Threads : u # t /\ b \in Exempt(thread[u])
    <3>1. b \in committed /\ b \notin a.blocks
      BY <2>0, <2>2
    <3>2. b \notin Exempt(thread[t])
      BY <2>0
    <3> QED
      BY <2>2, <3>1, <3>2
  <2>3. BitsHonest'
    BY <2>0, <2>2
  <2> QED
    BY <2>1, <2>3
<1>7. CASE ScheduleBits(t)
  BY <1>7, OtherMoves DEF ScheduleBits
<1>8. CASE OsPurge(t)
  BY <1>8, OsPurgeFields DEF OsPurge, bits
<1>9. CASE Purged(t)
  <2>0. /\ thread[t].pc = "purged" /\ UNCHANGED <<options, os, allocs>>
        /\ committed' = (IF Needed THEN committed \ thread[t].range ELSE committed)
        /\ thread'[t].pc \notin AllocPcs \cup {"purged"}
        /\ \A u \in Threads : u # t => thread'[u] = thread[u]
    BY <1>9, OtherMoves DEF Purged
  <2>1. (\A c \in allocs : c.committed \subseteq c.blocks)' /\ UsableIsCommitted' /\ ReturnUsable'
    BY <2>0
  <2>2. ASSUME NEW b \in committed', b \notin os
        PROVE  \/ \E c \in allocs : b \in c.blocks
               \/ \E u \in Threads : u # t /\ b \in Exempt(thread[u])
    <3>1. b \in committed /\ b \notin Exempt(thread[t])
      BY <2>0
    <3> QED
      BY <2>2, <3>1
  <2>3. BitsHonest'
    BY <2>0, <2>2
  <2> QED
    BY <2>1, <2>3
<1> QED
  BY <1>1, <1>2, <1>3, <1>4, <1>5, <1>6, <1>7, <1>8, <1>9, QuietSteps DEF ThreadStep, Call

LEMMA CommitInvNext ==
  ASSUME TypeOK, OneOwner, Shape, CommitInv, [Next]_vars
  PROVE  CommitInv'
<1> USE DEF CommitInv, UsableIsCommitted, ReturnUsable, BitsHonest, Exempt, Needed
<1>1. CASE ClientStep
  <2>1. PICK a \in allocs : \E b, c :
           /\ b \in a.blocks /\ c.blocks = a.blocks
           /\ allocs' = (allocs \ {a}) \cup {c}
           /\ UNCHANGED <<options, committed, purge, dirty, thread>>
           /\ \/ os' = os \cup {b} /\ c.committed = a.committed \cup {b}
              \/ os' = os \ {b} /\ c.committed = a.committed \ {b}
    BY <1>1, ClientFields
  <2>2. PICK b, c :
           /\ b \in a.blocks /\ c.blocks = a.blocks
           /\ allocs' = (allocs \ {a}) \cup {c}
           /\ UNCHANGED <<options, committed, purge, dirty, thread>>
           /\ \/ os' = os \cup {b} /\ c.committed = a.committed \cup {b}
              \/ os' = os \ {b} /\ c.committed = a.committed \ {b}
    BY <2>1
  <2>3. (\A d \in allocs : d.committed \subseteq d.blocks)' /\ UsableIsCommitted'
    BY <2>2, RangesDisjoint
  <2>4. ReturnUsable'
    BY <2>2, RangesDisjoint DEF Acting, AllocPcs
  <2>5. BitsHonest'
    BY <2>2
  <2> QED
    BY <2>3, <2>4, <2>5
<1>2. CASE Tick
  BY <1>2, TickFields DEF Tick, bits
<1>3. CASE UNCHANGED vars
  BY <1>3 DEF vars, bits
<1> QED
  BY <1>1, <1>2, <1>3, CommitInvThread DEF Next

LEMMA CommitInvAlways == Spec => [](TypeOK /\ OneOwner /\ Shape /\ CommitInv)
<1>1. Init => CommitInv
  BY BeginFields DEF Init, CommitInv, UsableIsCommitted, ReturnUsable, BitsHonest
<1>2. TypeOK /\ OneOwner /\ Shape /\ CommitInv /\ [Next]_vars => OneOwner' /\ Shape' /\ CommitInv'
  BY NextOwners, CommitInvNext
<1> QED
  BY <1>1, <1>2, InitOwners, TypeCorrect, PTL DEF Spec

\* What a client has committed is never decommitted under it, by a purge of any
\* thread.
THEOREM UsableCorrect == Spec => []UsableIsCommitted
<1>1. CommitInv => UsableIsCommitted
  BY DEF CommitInv
<1> QED
  BY <1>1, CommitInvAlways, PTL

\* The committed bits of free blocks are true: the next allocation may use the memory
\* without a commit.
THEOREM CommittedCorrect == Spec => []CommittedIsCommitted
<1>1. TypeOK /\ OneOwner /\ Shape /\ CommitInv => CommittedIsCommitted
  BY RangesDisjoint DEF CommitInv, BitsHonest, CommittedIsCommitted, Exempt, Acting, AllocPcs
<1> QED
  BY <1>1, CommitInvAlways, PTL
=============================================================================
