-------------------------------- MODULE Arena --------------------------------
(***************************************************************************)
(* One arena of arena.c: threads claim ranges of blocks, commit them, free *)
(* them and purge what was freed, all through atomic bitmaps.  A thread    *)
(* may touch the committed and purge bits, and the memory, of a block only *)
(* while it owns the block in blocks_inuse; the purger has to claim free   *)
(* blocks for the time it purges them.                                     *)
(*                                                                         *)
(* The arena fits one bitmap field, as the default reserve of 1 GiB does:  *)
(* every operation on a range of a bitmap is one atomic step (Bitmap has   *)
(* the claims across fields).  Times are relative to the clock, and may    *)
(* lie up to MaxLag + 1 ticks in the past.                                 *)
(***************************************************************************)
EXTENDS Integers, FiniteSetsExt

CONSTANTS
  Threads,
  BlockCount,  \* block_count
  Sizes,       \* numbers of blocks that are asked for
  Options,     \* option settings, see OptionRecord
  MaxLag,      \* ticks that may pass between reading the clock and using it
  None         \* an expiration that is not set (0 in the code), and no thread

\* delay: purge_delay * arena_purge_mult; decommits: purge_decommits; recommit:
\* whether decommitted memory needs a commit before it can be used again (it
\* depends on the build); eager: the arena is committed when it is reserved.
OptionRecord == [delay : Int, decommits : BOOLEAN, recommit : BOOLEAN, eager : BOOLEAN]

ASSUME ArenaAssumption ==
  /\ BlockCount \in Nat \ {0}
  /\ Sizes \subseteq 1..BlockCount
  /\ Options \subseteq OptionRecord
  /\ MaxLag \in Nat
  /\ None \notin Int /\ None \notin Threads

VARIABLES
  options,       \* the option settings; they do not change
  inuse,         \* blocks_inuse
  committed,     \* blocks_committed
  purge,         \* blocks_purge
  dirty,         \* blocks_dirty
  purge_expire,  \* purge_expire of the arena
  arenas_expire, \* pa_arenas_purge_expire
  purge_guard,   \* the thread inside the guard of pa_arenas_try_purge
  os,            \* blocks the program may access, as the OS has them
  written,       \* blocks whose memory a client has used
  allocs,        \* memory in the hands of clients, with the part they committed
  thread         \* thread[t]: progress of t in its call

bits  == <<inuse, committed, purge, dirty>>
times == <<purge_expire, arenas_expire, purge_guard>>
vars  == <<options, bits, times, os, written, allocs, thread>>

Blocks == 0..BlockCount - 1
BlocksAt(start, count) == start..start + count - 1

\* The longest run of blocks of mask that starts at block b.
RunFrom(mask, b) == {e \in mask : e >= b /\ b..e \subseteq mask}

Pcs ==
  {"idle", "unschedule", "commit", "oscommit", "return",
   "schedule", "schedule_all", "schedule_bits", "release",
   "try", "guard", "expired", "load", "claim", "reload", "os_purge", "purged",
   "unclaim", "finish"}

\* range: the blocks of an allocation or a free, then of one pa_arena_purge;
\* commit, zero, ok: request and result of an allocation; now: the clock as it
\* was read; force: of try_purge, at: its bitidx, mask: its copy of the purge
\* bits, claim: what it tries to claim or has claimed, all, any: full_purge and
\* any_purged.
ThreadRecord ==
  [pc : Pcs, range : SUBSET Blocks, commit : BOOLEAN, zero : BOOLEAN, ok : BOOLEAN,
   now : -MaxLag..0, force : BOOLEAN, at : 0..BlockCount + 1, mask : SUBSET Blocks,
   claim : SUBSET Blocks, all : BOOLEAN, any : BOOLEAN]

Idle == [pc |-> "idle", range |-> {}, commit |-> FALSE, zero |-> FALSE, ok |-> FALSE,
         now |-> 0, force |-> FALSE, at |-> 0, mask |-> {}, claim |-> {},
         all |-> TRUE, any |-> FALSE]

\* pa_manage_os_memory_ex2.
Init ==
  /\ options \in Options
  /\ inuse = {} /\ purge = {} /\ dirty = {}
  /\ committed = (IF options.eager THEN Blocks ELSE {})
  /\ purge_expire = None /\ arenas_expire = None /\ purge_guard = None
  /\ os = committed
  /\ written = {} /\ allocs = {}
  /\ thread = [t \in Threads |-> Idle]

To(t, record) == thread' = [thread EXCEPT ![t] = record]
Step(t, pc) == [thread[t] EXCEPT !.pc = pc]

-----------------------------------------------------------------------------
(* Allocation: pa_arena_try_alloc_at.                                       *)

\* Claim any range that is free; without one the call returns NULL.
TryClaim(t, start, count, commit) ==
  LET range == BlocksAt(start, count)
  IN /\ thread[t].pc = "idle"
     /\ range \subseteq Blocks \ inuse
     /\ inuse' = inuse \cup range
     /\ To(t, [Idle EXCEPT !.pc = "unschedule", !.range = range, !.commit = commit])
     /\ UNCHANGED <<options, committed, purge, dirty, times, os, written, allocs>>

\* Mutant of Unschedule: the dirty bits stay as they are.
UnscheduleClean(t) ==
  LET range == thread[t].range
  IN /\ thread[t].pc = "unschedule"
     /\ purge' = purge \ range
     /\ To(t, [Step(t, "commit") EXCEPT !.zero = (dirty \cap range = {})])
     /\ UNCHANGED <<options, inuse, committed, dirty, times, os, written, allocs>>

\* Mutant of Unschedule: the blocks stay scheduled for a purge.
UnscheduleNot(t) ==
  LET range == thread[t].range
  IN /\ thread[t].pc = "unschedule"
     /\ dirty' = dirty \cup range
     /\ To(t, [Step(t, "commit") EXCEPT !.zero = (dirty \cap range = {})])
     /\ UNCHANGED <<options, inuse, committed, purge, times, os, written, allocs>>

\* None of the claimed blocks stays scheduled for a purge; set the dirty bits.
Unschedule(t) ==
  LET range == thread[t].range
  IN /\ thread[t].pc = "unschedule"
     /\ purge' = purge \ range
     /\ dirty' = dirty \cup range
     /\ To(t, [Step(t, "commit") EXCEPT !.zero = (dirty \cap range = {})])
     /\ UNCHANGED <<options, inuse, committed, times, os, written, allocs>>

\* Set the commit state.  With a commit all bits are set before the OS is asked;
\* without one a partly committed range counts as not committed.
CommitBits(t) ==
  LET th  == thread[t]
      all == th.range \subseteq committed
  IN /\ th.pc = "commit"
     /\ \/ /\ th.commit
           /\ committed' = committed \cup th.range
           /\ To(t, [Step(t, IF all THEN "return" ELSE "oscommit") EXCEPT !.ok = TRUE])
        \/ /\ ~ th.commit
           /\ committed' = (IF all THEN committed ELSE committed \ th.range)
           /\ To(t, [Step(t, "return") EXCEPT !.ok = all])
     /\ UNCHANGED <<options, inuse, purge, dirty, times, os, written, allocs>>

\* _pa_os_commit_ex may fail: the range is then handed out as not committed.
OsCommit(t) ==
  /\ thread[t].pc = "oscommit"
  /\ \/ os' = os \cup thread[t].range /\ To(t, Step(t, "return"))
     \/ os' = os /\ To(t, [Step(t, "return") EXCEPT !.ok = FALSE])
  /\ UNCHANGED <<options, bits, times, written, allocs>>

\* The client uses what it was given; it can not use the rest before it commits it.
Return(t) ==
  LET th   == thread[t]
      have == IF th.ok THEN th.range ELSE {}
  IN /\ th.pc = "return"
     /\ allocs' = allocs \cup {[blocks |-> th.range, committed |-> have]}
     /\ written' = written \cup have
     /\ To(t, Idle)
     /\ UNCHANGED <<options, bits, times, os>>

-----------------------------------------------------------------------------
(* The client of an allocation is a segment: it commits parts of it on      *)
(* demand, and purges parts of it that its pages do not use.                *)

Changed(a, have) == allocs' = (allocs \ {a}) \cup {[a EXCEPT !.committed = have]}

\* pa_segment_commit.
ClientCommit(a, b) ==
  /\ b \in a.blocks \ a.committed
  /\ os' = os \cup {b}
  /\ written' = written \cup {b}
  /\ Changed(a, a.committed \cup {b})
  /\ UNCHANGED <<options, bits, times, thread>>

\* pa_segment_purge, when it decommits; the commit mask changes if the memory has
\* to be committed again.
ClientPurge(a, b) ==
  /\ b \in a.committed
  /\ options.delay >= 0 /\ options.decommits /\ options.recommit
  /\ os' = os \ {b}
  /\ Changed(a, a.committed \ {b})
  /\ UNCHANGED <<options, bits, times, written, thread>>

-----------------------------------------------------------------------------
(* _pa_arena_free and pa_arena_schedule_purge.                              *)

\* Mutant of Free: a partly committed range keeps its committed bits.
FreeCommitted(t, a) ==
  /\ thread[t].pc = "idle"
  /\ allocs' = allocs \ {a}
  /\ To(t, [Idle EXCEPT !.pc = "schedule", !.range = a.blocks])
  /\ UNCHANGED <<options, bits, times, os, written>>

\* A range that is partly committed is marked as not committed.
Free(t, a) ==
  /\ thread[t].pc = "idle"
  /\ allocs' = allocs \ {a}
  /\ committed' = (IF a.committed = a.blocks THEN committed ELSE committed \ a.blocks)
  /\ To(t, [Idle EXCEPT !.pc = "schedule", !.range = a.blocks])
  /\ UNCHANGED <<options, inuse, purge, dirty, times, os, written>>

\* Purge at once, or set the expiration of the arena if it is not set.
Schedule(t) ==
  LET delay == options.delay
  IN /\ thread[t].pc = "schedule"
     /\ \/ delay < 0 /\ To(t, Step(t, "release")) /\ UNCHANGED purge_expire
        \/ delay = 0 /\ To(t, Step(t, "os_purge")) /\ UNCHANGED purge_expire
        \/ /\ delay > 0 /\ purge_expire = None
           /\ purge_expire' = delay
           /\ To(t, Step(t, "schedule_all"))
        \/ /\ delay > 0 /\ purge_expire # None
           /\ To(t, Step(t, "schedule_bits")) /\ UNCHANGED purge_expire
     /\ UNCHANGED <<options, bits, arenas_expire, purge_guard, os, written, allocs>>

\* Set the global expiration too, if it is not set.
ScheduleAll(t) ==
  /\ thread[t].pc = "schedule_all"
  /\ arenas_expire' = (IF arenas_expire = None THEN thread[t].now + options.delay
                                                ELSE arenas_expire)
  /\ To(t, [Step(t, "schedule_bits") EXCEPT !.now = 0])
  /\ UNCHANGED <<options, bits, purge_expire, purge_guard, os, written, allocs>>

ScheduleBits(t) ==
  /\ thread[t].pc = "schedule_bits"
  /\ purge' = purge \cup thread[t].range
  /\ To(t, Step(t, "release"))
  /\ UNCHANGED <<options, inuse, committed, dirty, times, os, written, allocs>>

\* Make the blocks available to others; then look for expired purges.
Release(t) ==
  /\ thread[t].pc = "release"
  /\ inuse' = inuse \ thread[t].range
  /\ To(t, [Idle EXCEPT !.pc = "try"])
  /\ UNCHANGED <<options, committed, purge, dirty, times, os, written, allocs>>

-----------------------------------------------------------------------------
(* pa_arenas_try_purge and pa_arena_try_purge.                              *)

\* _pa_arenas_collect.
Collect(t, force) ==
  /\ thread[t].pc = "idle"
  /\ To(t, [Idle EXCEPT !.pc = "try", !.force = force])
  /\ UNCHANGED <<options, bits, times, os, written, allocs>>

\* Is there anything to purge?
TryPurge(t) ==
  LET skip == \/ options.delay <= 0
              \/ ~ thread[t].force /\ (arenas_expire = None \/ arenas_expire < 0)
  IN /\ thread[t].pc = "try"
     /\ To(t, IF skip THEN Idle ELSE Step(t, "guard"))
     /\ UNCHANGED <<options, bits, times, os, written, allocs>>

\* One thread at a time; the others do not wait.
Guard(t) ==
  /\ thread[t].pc = "guard"
  /\ \/ /\ purge_guard # None
        /\ To(t, Idle)
        /\ UNCHANGED <<arenas_expire, purge_guard>>
     \/ /\ purge_guard = None
        /\ purge_guard' = t
        /\ arenas_expire' = thread[t].now + options.delay
        /\ To(t, Step(t, "expired"))
  /\ UNCHANGED <<options, bits, purge_expire, os, written, allocs>>

\* Is the purge of the arena due?  Its expiration is reset before the bits are
\* read; only the thread inside the guard changes one that is set.
Expired(t) ==
  LET th  == thread[t]
      due == th.force \/ (purge_expire # None /\ purge_expire <= th.now)
  IN /\ th.pc = "expired"
     /\ purge_expire' = (IF due THEN None ELSE purge_expire)
     /\ To(t, [Step(t, IF due THEN "load" ELSE "finish") EXCEPT !.now = 0])
     /\ UNCHANGED <<options, bits, arenas_expire, purge_guard, os, written, allocs>>

\* Where the walk over the bits goes from bit at with the given mask: to the next
\* run of purge bits, or to the end.
Walk(t, at, mask) ==
  LET next == {b \in mask : b >= at}
      b    == Min(next)
  IN IF next = {} THEN [Step(t, "finish") EXCEPT !.at = 0, !.mask = {}, !.claim = {}]
     ELSE [Step(t, "claim") EXCEPT !.at = b, !.mask = mask, !.claim = RunFrom(mask, b)]

LoadPurge(t) ==
  /\ thread[t].pc = "load"
  /\ To(t, Walk(t, 0, purge))
  /\ UNCHANGED <<options, bits, times, os, written, allocs>>

\* Mutant of ClaimRange: the range is claimed when its first block is free.
ClaimRangeFirst(t) ==
  LET th == thread[t]
  IN /\ th.pc = "claim"
     /\ \/ /\ th.at \notin inuse
           /\ inuse' = inuse \cup th.claim
           /\ To(t, [Step(t, "reload") EXCEPT !.any = TRUE])
        \/ /\ th.at \in inuse
           /\ inuse' = inuse
           /\ To(t, Walk(t, th.at + 1, th.mask))
     /\ UNCHANGED <<options, committed, purge, dirty, times, os, written, allocs>>

\* Claim the range as in use; when that fails try one block less.
ClaimRange(t) ==
  LET th == thread[t]
  IN /\ th.pc = "claim"
     /\ \/ /\ th.claim \cap inuse = {}
           /\ inuse' = inuse \cup th.claim
           /\ To(t, [Step(t, "reload") EXCEPT !.any = TRUE])
        \/ /\ th.claim \cap inuse # {}
           /\ inuse' = inuse
           /\ To(t, IF Cardinality(th.claim) > 1
                    THEN [th EXCEPT !.claim = th.claim \ {Max(th.claim)}]
                    ELSE Walk(t, th.at + 1, th.mask))
     /\ UNCHANGED <<options, committed, purge, dirty, times, os, written, allocs>>

\* pa_arena_purge_range: the next run of purge bits in the claimed range, from
\* block b on, or the end of the range.
NextRun(t, mask, b) ==
  LET next == {c \in thread[t].claim \cap mask : c >= b}
  IN IF next = {} THEN [Step(t, "unclaim") EXCEPT !.range = {}, !.mask = mask]
     ELSE [Step(t, "os_purge") EXCEPT !.range = RunFrom(mask \cap thread[t].claim, Min(next)),
                                      !.mask = mask]

\* Read the purge bits again now that the blocks are claimed.
Reload(t) ==
  LET th == thread[t]
  IN /\ th.pc = "reload"
     /\ To(t, [NextRun(t, purge, 0) EXCEPT
                 !.all = th.all /\ RunFrom(purge \cap th.claim, Min(th.claim)) = th.claim])
     /\ UNCHANGED <<options, bits, times, os, written, allocs>>

\* pa_arena_purge calls _pa_os_purge_ex: decommit, or reset, which only drops the
\* contents.
OsPurge(t) ==
  /\ thread[t].pc = "os_purge"
  /\ os' = (IF options.decommits /\ options.recommit THEN os \ thread[t].range ELSE os)
  /\ To(t, Step(t, "purged"))
  /\ UNCHANGED <<options, bits, times, written, allocs>>

\* Clear the purge bits, and the committed bits if a commit is needed again.
Purged(t) ==
  LET th == thread[t]
  IN /\ th.pc = "purged"
     /\ purge' = purge \ th.range
     /\ committed' = (IF options.decommits /\ options.recommit
                      THEN committed \ th.range ELSE committed)
     /\ To(t, IF th.claim = {} THEN Step(t, "release") ELSE NextRun(t, th.mask, Max(th.range) + 1))
     /\ UNCHANGED <<options, inuse, dirty, times, os, written, allocs>>

\* Mutant of Unclaim: the run is released up to its end, not as far as it was claimed.
UnclaimRun(t) ==
  LET th == thread[t]
  IN /\ th.pc = "unclaim"
     /\ inuse' = inuse \ (th.at..BlockCount)
     /\ To(t, Walk(t, Max(th.claim) + 2, th.mask))
     /\ UNCHANGED <<options, committed, purge, dirty, times, os, written, allocs>>

\* Release the claimed range, and skip the bit after it.
Unclaim(t) ==
  LET th == thread[t]
  IN /\ th.pc = "unclaim"
     /\ inuse' = inuse \ th.claim
     /\ To(t, Walk(t, Max(th.claim) + 2, th.mask))
     /\ UNCHANGED <<options, committed, purge, dirty, times, os, written, allocs>>

\* If not all was purged set the expiration again.  The global one is reset,
\* unless this was a forced collect that purged: it stops after one arena then.
Finish(t) ==
  LET th == thread[t]
  IN /\ th.pc = "finish"
     /\ purge_expire' = (IF th.all \/ purge_expire # None THEN purge_expire ELSE options.delay)
     /\ arenas_expire' = (IF th.any /\ th.force THEN arenas_expire ELSE None)
     /\ purge_guard' = None
     /\ To(t, Idle)
     /\ UNCHANGED <<options, bits, os, written, allocs>>

-----------------------------------------------------------------------------
(* The clock.                                                               *)

Earlier(e) == IF e = None \/ e < -MaxLag THEN e ELSE e - 1

ReadClock == {t \in Threads : thread[t].pc \in {"schedule_all", "guard", "expired"}}

Tick ==
  /\ \A t \in ReadClock : thread[t].now > -MaxLag
  /\ purge_expire' = Earlier(purge_expire)
  /\ arenas_expire' = Earlier(arenas_expire)
  /\ thread' = [t \in Threads |-> IF t \in ReadClock THEN [thread[t] EXCEPT !.now = @ - 1]
                                                    ELSE thread[t]]
  /\ UNCHANGED <<options, bits, purge_guard, os, written, allocs>>

-----------------------------------------------------------------------------
ThreadStep(t) ==
  \/ Unschedule(t) \/ CommitBits(t) \/ OsCommit(t) \/ Return(t)
  \/ Schedule(t) \/ ScheduleAll(t) \/ ScheduleBits(t) \/ Release(t)
  \/ TryPurge(t) \/ Guard(t) \/ Expired(t) \/ LoadPurge(t) \/ ClaimRange(t)
  \/ Reload(t) \/ OsPurge(t) \/ Purged(t) \/ Unclaim(t) \/ Finish(t)

ClientStep ==
  \E a \in allocs : \E b \in a.blocks : ClientCommit(a, b) \/ ClientPurge(a, b)

Call(t) ==
  \/ \E start \in Blocks, count \in Sizes, commit \in BOOLEAN : TryClaim(t, start, count, commit)
  \/ \E a \in allocs : Free(t, a)
  \/ \E force \in BOOLEAN : Collect(t, force)

Next == (\E t \in Threads : ThreadStep(t) \/ Call(t)) \/ ClientStep \/ Tick

Spec == Init /\ [][Next]_vars

\* A call that was begun goes on, time passes, and threads free other memory or
\* collect now and then.
Fairness ==
  /\ \A t \in Threads : WF_vars(ThreadStep(t)) /\ WF_vars(Collect(t, FALSE))
  /\ WF_vars(Tick)

FairSpec == Spec /\ Fairness

-----------------------------------------------------------------------------
(* Properties.                                                              *)

TypeOK ==
  /\ options \in Options
  /\ inuse \subseteq Blocks /\ committed \subseteq Blocks
  /\ purge \subseteq Blocks /\ dirty \subseteq Blocks
  /\ os \subseteq Blocks /\ written \subseteq Blocks
  /\ purge_expire \in Int \cup {None} /\ arenas_expire \in Int \cup {None}
  /\ purge_guard \in Threads \cup {None}
  /\ allocs \subseteq [blocks : SUBSET Blocks, committed : SUBSET Blocks]
  /\ thread \in [Threads -> ThreadRecord]

\* The blocks a thread owns in the middle of a call: those it allocates or frees,
\* and those the purger has claimed.
OwnedBy(th) ==
  CASE th.pc \in {"unschedule", "commit", "oscommit", "return",
                 "schedule", "schedule_all", "schedule_bits", "release"} -> th.range
    [] th.pc \in {"os_purge", "purged"} -> IF th.claim = {} THEN th.range ELSE th.claim
    [] th.pc \in {"reload", "unclaim"} -> th.claim
    [] OTHER -> {}

Owned(t) == OwnedBy(thread[t])

\* Every block in use has exactly one owner, a client or a thread in a call, and
\* a free block has none: claims of clients and of the purger never overlap.
OneOwner ==
  /\ inuse = (UNION {a.blocks : a \in allocs}) \cup (UNION {Owned(t) : t \in Threads})
  /\ \A a, b \in allocs : a # b => a.blocks \cap b.blocks = {}
  /\ \A t \in Threads : /\ \A a \in allocs : Owned(t) \cap a.blocks = {}
                        /\ \A u \in Threads : t # u => Owned(t) \cap Owned(u) = {}

\* What a client has committed stays accessible until the client gives it up: no
\* purge, scheduled before the memory was allocated, decommits it.
UsableIsCommitted == \A a \in allocs : a.committed \subseteq os

\* A committed bit of a free block tells the truth: an allocation that finds all
\* bits set uses the memory without asking the OS.
CommittedIsCommitted == committed \ inuse \subseteq os

\* "none of the claimed blocks should be scheduled for a decommit" (arena.c): a
\* purge bit on memory in use would purge it as soon as it is free, or when the
\* purger gets in between.
NoneScheduled == \A a \in allocs : a.blocks \cap purge = {}

\* Memory handed out as zero has never been used.
ZeroIsUnused == \A t \in Threads :
  thread[t].pc = "return" /\ thread[t].zero => thread[t].range \cap written = {}

\* "purge expired decommits" (arena.c), "memory purging is delayed by N milli
\* seconds" (palloc.h): a block that is scheduled for a purge is purged, or used
\* again, some time.
ScheduledIsPurged == \A b \in Blocks : b \in purge ~> b \notin purge
=============================================================================
