----------------------------- MODULE PomaiArena -----------------------------
(***************************************************************************)
(* The vector arena of arena_pomai.c: one reservation of the OS, a header, *)
(* and a bump pointer behind it, with the memory committed slab by slab as *)
(* the pointer moves on.  A shared arena is used by several threads: the   *)
(* pointer moves by compare-and-swap, and the commits take a spin lock.    *)
(*                                                                         *)
(* Offsets are in units of which PA_ARENA_VECTOR_ALIGN has ALIGN.          *)
(***************************************************************************)
EXTENDS VectorParams

CONSTANTS
  ALIGN,        \* PA_ARENA_VECTOR_ALIGN
  Capacities,   \* capacities the client asks for
  Requests      \* <<vector_dim, element_size>> the client asks for

ASSUME PomaiAssumption ==
  /\ ALIGN \in Nat \ {0} /\ PAGE % ALIGN = 0
  /\ Capacities \subseteq 0 .. SIZE_MAX
  /\ Requests \subseteq (0 .. SIZE_MAX) \X (0 .. SIZE_MAX)

VARIABLES
  pomai,        \* the arena's header, or NoPomai
  pomai_os,     \* the offsets the OS has committed
  pomai_live,   \* the vectors handed out since the last reset, <<offset, size>>
  pomai_th      \* what each thread is doing in p_arena_alloc_vector

pomaiVars == <<pomai, pomai_os, pomai_live, pomai_th>>

NoPomai == [total |-> 0]
PomaiIdle == [pc |-> "idle", size |-> 0, old |-> 0, new |-> 0]

PomaiInit ==
  /\ pomai = NoPomai
  /\ pomai_os = {}
  /\ pomai_live = {}
  /\ pomai_th = [t \in Threads |-> PomaiIdle]

PayloadStart == PAGE                     \* the header is smaller than a page
PomaiLimit == PayloadStart + pomai.capacity
PomaiCreated == pomai # NoPomai
PomaiQuiet == \A t \in Threads : pomai_th[t].pc = "idle"

-----------------------------------------------------------------------------
\* p_arena_create_for_vector_ex; the OS may refuse the reservation or the
\* commit of the first slab, and then nothing is left behind.
PomaiCreate(capacity, shared, can_reserve) ==
  LET total == RoundUp(PayloadStart + capacity, PAGE)
      first == RoundUp(PayloadStart + GRAIN, PAGE)
      committed == IF can_reserve /\ first < total THEN first ELSE total
  IN /\ ~PomaiCreated
     /\ capacity # 0 /\ capacity <= SIZE_MAX - PayloadStart
     /\ total # 0                        \* mmap refuses a size of zero
     /\ pomai' = [total |-> total, capacity |-> capacity, shared |-> shared,
                  use_os_reserve |-> can_reserve, offset |-> PayloadStart,
                  committed |-> committed, commit_lock |-> FALSE]
     /\ pomai_os' = Extent(0, committed)
     /\ UNCHANGED <<pomai_live, pomai_th>>

\* _pa_prim_commit of the offsets below `to` that are not yet, from a page
\* boundary.
PrimCommits(from, to) == from % PAGE = 0 /\ pomai_os' = pomai_os \cup Extent(from, to - from)

\* The end of the slab of `need`, or of the arena; the rounding must not wrap.
NewCommitted(need) == Smaller(RoundUp(need, GRAIN), pomai.total)
CommitFits(need) == RoundUp(need, GRAIN) >= need

\* The size check at the start of p_arena_alloc_vector.
VectorSize(dim, element) == dim * element
VectorFits(dim, element) ==
  /\ element # 0
  /\ dim > 0 => element <= SIZE_MAX \div dim
  /\ VectorSize(dim, element) # 0
  /\ RoundUp(VectorSize(dim, element), ALIGN) >= VectorSize(dim, element)

Bumps(offset, size) == size <= PomaiLimit /\ offset <= PomaiLimit - size

\* A single-threaded arena: the memory is committed before the pointer moves.
PomaiAllocSingle(t, dim, element) ==
  LET size == RoundUp(VectorSize(dim, element), ALIGN)
      new == pomai.offset + size
      enough == ~pomai.use_os_reserve \/ new <= pomai.committed
  IN /\ PomaiCreated /\ ~pomai.shared /\ PomaiQuiet
     /\ VectorFits(dim, element) /\ Bumps(pomai.offset, size)
     /\ pomai' = [pomai EXCEPT !.offset = new, !.committed = IF enough THEN @ ELSE NewCommitted(new)]
     /\ IF enough THEN UNCHANGED pomai_os
        ELSE CommitFits(new) /\ PrimCommits(pomai.committed, NewCommitted(new))
     /\ pomai_live' = pomai_live \cup {<<pomai.offset, size>>}
     /\ UNCHANGED pomai_th

-----------------------------------------------------------------------------
(* A shared arena.                                                          *)

PomaiAt(t, pc) == PomaiCreated /\ pomai_th[t].pc = pc
PomaiGo(t, pc) == pomai_th' = [pomai_th EXCEPT ![t].pc = pc]
PomaiReturnNull(t) == pomai_th' = [pomai_th EXCEPT ![t] = PomaiIdle]
PomaiReturn(t) ==
  /\ PomaiReturnNull(t)
  /\ pomai_live' = pomai_live \cup {<<pomai_th[t].old, pomai_th[t].size>>}

PomaiAlloc(t, dim, element) ==
  LET size == RoundUp(VectorSize(dim, element), ALIGN)
  IN /\ PomaiAt(t, "idle") /\ pomai.shared
     /\ VectorFits(dim, element) /\ Bumps(pomai.offset, size)
     /\ pomai_th' = [pomai_th EXCEPT ![t] = [pc |-> "bump", size |-> size, old |-> pomai.offset,
                                             new |-> pomai.offset + size]]
     /\ UNCHANGED <<pomai, pomai_os, pomai_live>>

\* The compare-and-swap of the bump pointer; a failed one loads it anew, and
\* the arena may be full by now.
PomaiBump(t) ==
  LET r == pomai_th[t]
  IN /\ PomaiAt(t, "bump")
     /\ IF pomai.offset = r.old
          THEN /\ pomai' = [pomai EXCEPT !.offset = r.new]
               /\ IF pomai.use_os_reserve THEN PomaiGo(t, "check") /\ UNCHANGED pomai_live
                  ELSE PomaiReturn(t)
          ELSE /\ IF Bumps(pomai.offset, r.size)
                    THEN pomai_th' = [pomai_th EXCEPT ![t].old = pomai.offset,
                                                      ![t].new = pomai.offset + r.size]
                    ELSE PomaiReturnNull(t)
               /\ UNCHANGED <<pomai, pomai_live>>
     /\ UNCHANGED pomai_os

\* pa_arena_ensure_committed_shared: the memory is there, or the lock is needed.
PomaiCheck(t) ==
  /\ PomaiAt(t, "check")
  /\ IF pomai.committed >= pomai_th[t].new THEN PomaiReturn(t)
     ELSE PomaiGo(t, "lock") /\ UNCHANGED pomai_live
  /\ UNCHANGED <<pomai, pomai_os>>

PomaiLock(t) ==
  /\ PomaiAt(t, "lock")
  /\ IF pomai.commit_lock
       THEN /\ pomai.committed >= pomai_th[t].new       \* otherwise it spins
            /\ PomaiReturn(t)
            /\ UNCHANGED pomai
       ELSE /\ pomai' = [pomai EXCEPT !.commit_lock = TRUE]
            /\ PomaiGo(t, "locked")
            /\ UNCHANGED pomai_live
  /\ UNCHANGED pomai_os

\* The commit, if it is still needed: up to the next slab, or to the end.
PomaiCommit(t) ==
  LET new == NewCommitted(pomai_th[t].new)
  IN /\ PomaiAt(t, "locked") /\ pomai.committed < pomai_th[t].new
     /\ CommitFits(pomai_th[t].new) /\ PrimCommits(pomai.committed, new)
     /\ pomai_th' = [pomai_th EXCEPT ![t].pc = "store"]
     /\ UNCHANGED <<pomai, pomai_live>>

\* The OS refuses, or the rounding would wrap.
PomaiCommitFails(t) ==
  /\ PomaiAt(t, "locked") /\ pomai.committed < pomai_th[t].new
  /\ pomai' = [pomai EXCEPT !.commit_lock = FALSE]
  /\ PomaiGo(t, "rollback")
  /\ UNCHANGED <<pomai_os, pomai_live>>

PomaiStore(t) ==
  /\ PomaiAt(t, "store")
  /\ pomai' = [pomai EXCEPT !.committed = NewCommitted(pomai_th[t].new)]
  /\ PomaiGo(t, "locked")
  /\ UNCHANGED <<pomai_os, pomai_live>>

PomaiUnlock(t) ==
  /\ PomaiAt(t, "locked") /\ pomai.committed >= pomai_th[t].new
  /\ pomai' = [pomai EXCEPT !.commit_lock = FALSE]
  /\ PomaiReturn(t)
  /\ UNCHANGED pomai_os

\* Mutant of PomaiRollback: the pointer is set back, whatever it is by now.
PomaiRollbackStore(t) ==
  /\ PomaiAt(t, "rollback")
  /\ pomai' = [pomai EXCEPT !.offset = pomai_th[t].old]
  /\ PomaiReturnNull(t)
  /\ UNCHANGED <<pomai_os, pomai_live>>

\* One compare-and-swap takes the bump back, unless another thread bumped the
\* pointer after it: then the range is never used again before a reset.
PomaiRollback(t) ==
  LET r == pomai_th[t]
  IN /\ PomaiAt(t, "rollback")
     /\ pomai' = [pomai EXCEPT !.offset = IF @ = r.new THEN r.old ELSE @]
     /\ PomaiReturnNull(t)
     /\ UNCHANGED <<pomai_os, pomai_live>>

-----------------------------------------------------------------------------
\* p_arena_reset: the client gives up all vectors, and no call is in progress.
\* The payload is decommitted, and the watermark is back behind the header.
PomaiReset ==
  /\ PomaiCreated /\ PomaiQuiet
  /\ pomai' = [pomai EXCEPT !.offset = PayloadStart,
                            !.committed = IF pomai.use_os_reserve THEN PayloadStart ELSE @]
  /\ pomai_os' = IF pomai.use_os_reserve
                   THEN pomai_os \ Extent(PayloadStart, pomai.committed - PayloadStart) ELSE pomai_os
  /\ pomai_live' = {}
  /\ UNCHANGED pomai_th

\* p_arena_destroy
PomaiDestroy ==
  /\ PomaiCreated /\ PomaiQuiet
  /\ pomai' = NoPomai
  /\ pomai_os' = {}
  /\ pomai_live' = {}
  /\ UNCHANGED pomai_th

PomaiStep(t) ==
  \/ \E r \in Requests : PomaiAllocSingle(t, r[1], r[2]) \/ PomaiAlloc(t, r[1], r[2])
  \/ PomaiBump(t) \/ PomaiCheck(t) \/ PomaiLock(t)
  \/ PomaiCommit(t) \/ PomaiCommitFails(t) \/ PomaiStore(t) \/ PomaiUnlock(t)
  \/ PomaiRollback(t)

PomaiNext ==
  \/ \E capacity \in Capacities, shared, can_reserve \in BOOLEAN :
       PomaiCreate(capacity, shared, can_reserve)
  \/ \E t \in Threads : PomaiStep(t)
  \/ PomaiReset \/ PomaiDestroy

\* Part of VectorsUsable: a vector lies inside the capacity, below the bump
\* pointer, in committed memory.
PomaiUsable ==
  \A v \in pomai_live :
    /\ v[1] % ALIGN = 0
    /\ Extent(v[1], v[2]) \subseteq PayloadStart .. pomai.offset - 1
    /\ v[1] + v[2] <= PomaiLimit
    /\ Extent(v[1], v[2]) \subseteq pomai_os
=============================================================================
