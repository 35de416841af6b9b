----------------------------- MODULE Abandoned ------------------------------
(***************************************************************************)
(* Who may touch a segment (arena-abandon.c, segment-map.c, the thread     *)
(* life cycle of init.c).  A segment is owned by a thread, or abandoned:   *)
(* marked in the blocks_abandoned bitmap of its arena, or linked in the    *)
(* abandoned_os_list of its sub-process.  Threads abandon segments, take   *)
(* them back when they free one of their blocks, and walk all of them with *)
(* a cursor to reclaim, collect or visit them.                             *)
(*                                                                         *)
(* Every step is one access to shared memory, so all interleavings of the  *)
(* bit, the two counters, thread_id and the locks are explored.  What      *)
(* happens inside a segment is module Segments; here a segment has a       *)
(* number of live blocks.                                                  *)
(***************************************************************************)
EXTENDS Integers, Sequences, FiniteSets, SequencesExt

CONSTANTS
  Threads,
  Nobody,          \* thread_id 0, a lock that is free, a NULL pointer
  ArenaSegments,   \* addresses in the arena: bit numbers
  OsSegments,      \* addresses outside the arenas
  BeyondMap,       \* those above PA_SEGMENT_MAP_MAX_ADDRESS
  Subprocs, DefaultSubproc,
  BLOCKS,          \* most live blocks in a segment
  Datas, Slots,    \* pa_thread_data_t objects; entries of td_cache
  Kinds,           \* walks of the cursor: "reclaim", "collect", "force", "visit", "all"
  VisitAbandoned   \* pa_option_visit_abandoned

Segments == ArenaSegments \cup OsSegments

ASSUME AbandonedAssumption ==
  /\ IsFiniteSet(Threads) /\ IsFiniteSet(Segments)
  /\ ArenaSegments \subseteq Nat /\ ArenaSegments \cap OsSegments = {}
  /\ BeyondMap \subseteq OsSegments
  /\ DefaultSubproc \in Subprocs /\ BLOCKS \in Nat \ {0}
  /\ Nobody \notin Threads \cup Datas \cup Segments
  /\ Cardinality(Datas) >= Cardinality(Threads)
  /\ Kinds \subseteq {"reclaim", "collect", "force", "visit", "all"}
  /\ VisitAbandoned \in BOOLEAN

VARIABLES
  seg,       \* seg[s]: [live, thread_id, subproc, blocks]
  bits,      \* blocks_abandoned
  sub,       \* sub[p]: [list, count, os_count, lock, visit]
  arenaLock, \* arena->abandoned_visit_lock
  part, map, \* the part of the segment map, and the bits in the part each thread made;
             \* history: map[Nobody] are the segments for which there was no part
  td_cache,
  th         \* th[t]: what the thread is doing

vars == <<seg, bits, sub, arenaLock, part, map, td_cache, th>>

NoCursor == [kind |-> "none", count |-> 0, arena |-> FALSE, field |-> {}, at |-> 0,
             os |-> 0, tries |-> 0, visit |-> FALSE]

ThreadRecord(t) == [pc |-> "none", seg |-> Nobody, td |-> Nobody, proc |-> DefaultSubproc, cur |-> NoCursor]

Init ==
  /\ seg = [s \in Segments |-> [live |-> FALSE, thread_id |-> Nobody, subproc |-> DefaultSubproc, blocks |-> 0]]
  /\ bits = {}
  /\ sub = [p \in Subprocs |-> [list |-> <<>>, count |-> 0, os_count |-> 0, lock |-> Nobody, visit |-> Nobody]]
  /\ arenaLock = Nobody
  /\ part = Nobody
  /\ map = [t \in Threads \cup {Nobody} |-> {}]
  /\ td_cache = [i \in Slots |-> Nobody]
  /\ th = [t \in Threads |-> ThreadRecord(t)]

-----------------------------------------------------------------------------
At(t, pc) == th[t].pc = pc
Go(t, pc) == th' = [th EXCEPT ![t].pc = pc, ![t].seg = IF pc \in {"idle", "next"} THEN Nobody ELSE @]
Seg(t) == th[t].seg
Proc(t) == th[t].proc
Cur(t) == th[t].cur
IsArena(s) == s \in ArenaSegments
InWalk(t) == Cur(t).kind # "none"

\* The pc after a call that a cursor's walk or the program itself made.
Return(t) == IF InWalk(t) THEN "next" ELSE "idle"

-----------------------------------------------------------------------------
(* Threads start and end (init.c).                                          *)

DatasInUse == {th[t].td : t \in Threads}
Cached == {td_cache[i] : i \in Slots}

\* _pa_thread_heap_init: a slot of td_cache that looks taken is exchanged with
\* NULL in the next step.
ThreadInit(t, i) ==
  /\ At(t, "none")
  /\ td_cache[i] # Nobody
  /\ th' = [th EXCEPT ![t].pc = "exchange", ![t].cur.at = i]
  /\ UNCHANGED <<seg, bits, sub, arenaLock, part, map, td_cache>>

\* Mutant of ThreadDataExchange: the slot is read, not emptied.
ThreadDataExchangeLoad(t) ==
  LET td == td_cache[Cur(t).at]
  IN /\ At(t, "exchange")
     /\ th' = [th EXCEPT ![t].td = td, ![t].pc = IF td = Nobody THEN "zalloc" ELSE "idle",
                         ![t].cur = NoCursor]
     /\ UNCHANGED <<seg, bits, sub, arenaLock, part, map, td_cache>>

\* pa_thread_data_zalloc: another thread may have been first.
ThreadDataExchange(t) ==
  LET td == td_cache[Cur(t).at]
  IN /\ At(t, "exchange")
     /\ td_cache' = [td_cache EXCEPT ![Cur(t).at] = Nobody]
     /\ th' = [th EXCEPT ![t].td = td, ![t].pc = IF td = Nobody THEN "zalloc" ELSE "idle",
                         ![t].cur = NoCursor]
     /\ UNCHANGED <<seg, bits, sub, arenaLock, part, map>>

\* ... from the OS (_pa_os_zalloc), when the cache has nothing.
ThreadDataZalloc(t) ==
  /\ At(t, "zalloc") \/ (At(t, "none") /\ \A i \in Slots : td_cache[i] = Nobody)
  /\ \E td \in Datas \ (DatasInUse \cup Cached) : th' = [th EXCEPT ![t].td = td, ![t].pc = "idle"]
  /\ UNCHANGED <<seg, bits, sub, arenaLock, part, map, td_cache>>

Owned(t) == {s \in Segments : seg[s].live /\ seg[s].thread_id = t}

\* pa_subproc_add_current_thread, before the thread has a segment.
SubprocAddCurrentThread(t, p) ==
  /\ At(t, "idle") /\ Proc(t) = DefaultSubproc /\ Owned(t) = {}
  /\ p # DefaultSubproc
  /\ th' = [th EXCEPT ![t].proc = p]
  /\ UNCHANGED <<seg, bits, sub, arenaLock, part, map, td_cache>>

\* _pa_thread_done: the heap has abandoned its segments; pa_thread_data_free
\* puts the data in an empty slot, or gives it back to the OS.
ThreadDone(t) ==
  /\ At(t, "idle") /\ Owned(t) = {}
  /\ \/ \E i \in Slots : td_cache[i] = Nobody /\ td_cache' = [td_cache EXCEPT ![i] = th[t].td]
     \/ (\A i \in Slots : td_cache[i] # Nobody) /\ UNCHANGED td_cache
  /\ th' = [th EXCEPT ![t] = ThreadRecord(t)]
  /\ UNCHANGED <<seg, bits, sub, arenaLock, part, map>>

\* _pa_thread_data_collect, one slot.
ThreadDataCollect(t, i) ==
  /\ At(t, "idle") /\ td_cache[i] # Nobody
  /\ td_cache' = [td_cache EXCEPT ![i] = Nobody]
  /\ UNCHANGED <<seg, bits, sub, arenaLock, part, map, th>>

-----------------------------------------------------------------------------
(* Segments begin and end, and the segment map knows those of the OS.       *)

\* pa_segment_os_alloc
SegmentAlloc(t, s) ==
  /\ At(t, "idle") /\ ~seg[s].live
  /\ seg' = [seg EXCEPT ![s] = [live |-> TRUE, thread_id |-> t, subproc |-> Proc(t), blocks |-> 0]]
  /\ th' = [th EXCEPT ![t].seg = IF IsArena(s) THEN Nobody ELSE s,
                      ![t].pc = IF IsArena(s) THEN "idle"
                                  ELSE IF part = Nobody \/ s \in BeyondMap THEN "map_cas" ELSE "map_set"]
  /\ UNCHANGED <<bits, sub, arenaLock, part, map, td_cache>>

\* pa_segment_map_index_of: the part is made and published once; the loser
\* frees its own.
MapCas(t) ==
  /\ At(t, "map_cas") /\ Seg(t) \notin BeyondMap
  /\ part' = IF part = Nobody THEN t ELSE part
  /\ Go(t, "map_set")
  /\ UNCHANGED <<seg, bits, sub, arenaLock, map, td_cache>>

\* ... or there is no memory for the part, or the address is beyond the map: the
\* segment is used without a bit.
MapFails(t) ==
  /\ At(t, "map_cas")
  /\ map' = [map EXCEPT ![Nobody] = @ \cup {Seg(t)}]
  /\ Go(t, "idle")
  /\ UNCHANGED <<seg, bits, sub, arenaLock, part, td_cache>>

\* Mutant of MapAllocatedAt: the bit is set in the part the thread made.
MapAllocatedAtOwnPart(t) ==
  /\ At(t, "map_set")
  /\ map' = [map EXCEPT ![t] = @ \cup {Seg(t)}]
  /\ Go(t, "idle")
  /\ UNCHANGED <<seg, bits, sub, arenaLock, part, td_cache>>

\* _pa_segment_map_allocated_at
MapAllocatedAt(t) ==
  /\ At(t, "map_set")
  /\ map' = [map EXCEPT ![part] = @ \cup {Seg(t)}]
  /\ Go(t, "idle")
  /\ UNCHANGED <<seg, bits, sub, arenaLock, part, td_cache>>

\* _pa_segment_of: the segment map says the address is one of ours.
SegmentOf(s) == part # Nobody /\ s \in map[part]

\* A block is allocated by the owner.
Malloc(t, s) ==
  /\ At(t, "idle") /\ s \in Owned(t)
  /\ seg[s].blocks < BLOCKS
  /\ seg' = [seg EXCEPT ![s].blocks = @ + 1]
  /\ UNCHANGED <<bits, sub, arenaLock, part, map, td_cache, th>>

\* pa_segment_free by the owner.
SegmentFree(t, s) ==
  /\ At(t, "idle") /\ s \in Owned(t) /\ seg[s].blocks = 0
  /\ th' = [th EXCEPT ![t].seg = s, ![t].pc = "os_free"]
  /\ UNCHANGED <<seg, bits, sub, arenaLock, part, map, td_cache>>

\* pa_segment_os_free: off the map, then back to the OS.
SegmentOsFree(t) ==
  /\ At(t, "os_free")
  /\ seg' = [seg EXCEPT ![Seg(t)].thread_id = Nobody]
  /\ map' = [map EXCEPT ![part] = @ \ {Seg(t)}, ![Nobody] = @ \ {Seg(t)}]
  /\ Go(t, "unmap")
  /\ UNCHANGED <<bits, sub, arenaLock, part, td_cache>>

ArenaFree(t) ==
  /\ At(t, "unmap")
  /\ seg' = [seg EXCEPT ![Seg(t)].live = FALSE]
  /\ Go(t, Return(t))
  /\ UNCHANGED <<bits, sub, arenaLock, part, map, td_cache>>

-----------------------------------------------------------------------------
(* _pa_arena_segment_mark_abandoned.                                        *)

\* pa_segment_abandon: the last page is abandoned, or the thread ends.
Abandon(t, s) ==
  /\ At(t, "idle") /\ s \in Owned(t) /\ seg[s].blocks > 0
  /\ th' = [th EXCEPT ![t].seg = s, ![t].pc = "mark"]
  /\ UNCHANGED <<seg, bits, sub, arenaLock, part, map, td_cache>>

MarkAbandoned(t) ==
  /\ At(t, "mark")
  /\ seg' = [seg EXCEPT ![Seg(t)].thread_id = Nobody]
  /\ Go(t, IF IsArena(Seg(t)) THEN "mark_bit" ELSE "mark_lock")
  /\ UNCHANGED <<bits, sub, arenaLock, part, map, td_cache>>

\* The bit first, then the count: from here on the segment may be gone.
MarkBit(t) ==
  /\ At(t, "mark_bit")
  /\ bits' = bits \cup {Seg(t)}
  /\ Go(t, "mark_count")
  /\ UNCHANGED <<seg, sub, arenaLock, part, map, td_cache>>

MarkCount(t) ==
  /\ At(t, "mark_count")
  /\ sub' = [sub EXCEPT ![Proc(t)].count = @ + 1]
  /\ Go(t, Return(t))
  /\ UNCHANGED <<seg, bits, arenaLock, part, map, td_cache>>

\* pa_arena_segment_os_mark_abandoned: at the tail of the list, under the lock.
OsMarkLock(t) ==
  /\ At(t, "mark_lock") /\ sub[Proc(t)].lock = Nobody
  /\ sub' = [sub EXCEPT ![Proc(t)].lock = t]
  /\ Go(t, "mark_push")
  /\ UNCHANGED <<seg, bits, arenaLock, part, map, td_cache>>

OsMarkPush(t) ==
  /\ At(t, "mark_push")
  /\ sub' = [sub EXCEPT ![Proc(t)].list = Append(@, Seg(t)), ![Proc(t)].os_count = @ + 1]
  /\ Go(t, "mark_unlock")
  /\ UNCHANGED <<seg, bits, arenaLock, part, map, td_cache>>

OsMarkUnlock(t) ==
  /\ At(t, "mark_unlock")
  /\ sub' = [sub EXCEPT ![Proc(t)].count = @ + 1, ![Proc(t)].lock = Nobody]
  /\ Go(t, Return(t))
  /\ UNCHANGED <<seg, bits, arenaLock, part, map, td_cache>>

-----------------------------------------------------------------------------
(* Freeing a block of an abandoned segment (pa_free_block_mt).              *)

Freeing(s) == {t \in Threads : th[t].seg = s /\ th[t].pc \in {"clear", "clear_count", "clear_own", "clear_os"}}

\* The block leaves the segment: local, or on the page's thread free list.
FreeBlock(s) == seg' = [seg EXCEPT ![s].blocks = @ - 1]

\* A block that nobody frees yet; a thread that does not own the segment and
\* reads thread_id 0 may attempt to reclaim it (_pa_segment_attempt_reclaim).
Free(t, s) ==
  /\ At(t, "idle") /\ seg[s].live
  /\ seg[s].blocks > Cardinality(Freeing(s))
  /\ \/ /\ FreeBlock(s)
        /\ UNCHANGED th
     \/ /\ seg[s].thread_id = Nobody /\ seg[s].subproc = Proc(t)
        /\ th' = [th EXCEPT ![t].seg = s, ![t].pc = "clear"]
        /\ UNCHANGED seg
  /\ UNCHANGED <<bits, sub, arenaLock, part, map, td_cache>>

\* Mutant of ClearAbandoned: thread_id 0 is taken for the mark.
ClearAbandonedUnmarked(t) ==
  /\ At(t, "clear") /\ IsArena(Seg(t))
  /\ bits' = bits \ {Seg(t)}
  /\ Go(t, "clear_count")
  /\ UNCHANGED <<seg, sub, arenaLock, part, map, td_cache>>

\* _pa_arena_segment_clear_abandoned, in an arena: the bit decides.
ClearAbandoned(t) ==
  /\ At(t, "clear") /\ IsArena(Seg(t))
  /\ IF Seg(t) \in bits
       THEN bits' = bits \ {Seg(t)} /\ Go(t, "clear_count") /\ UNCHANGED seg
       ELSE FreeBlock(Seg(t)) /\ Go(t, "idle") /\ UNCHANGED bits
  /\ UNCHANGED <<sub, arenaLock, part, map, td_cache>>

ClearCount(t) ==
  /\ At(t, "clear_count")
  /\ sub' = [sub EXCEPT ![Proc(t)].count = @ - 1]
  /\ Go(t, "clear_own")
  /\ UNCHANGED <<seg, bits, arenaLock, part, map, td_cache>>

\* thread_id is set; the block is then freed as one of the thread's own.
ClearOwn(t) ==
  /\ At(t, "clear_own")
  /\ seg' = [seg EXCEPT ![Seg(t)].thread_id = t, ![Seg(t)].blocks = @ - 1]
  /\ Go(t, "idle")
  /\ UNCHANGED <<bits, sub, arenaLock, part, map, td_cache>>

\* pa_arena_segment_os_clear_abandoned, taking the lock if it is free.
OsClearAbandoned(t) ==
  /\ At(t, "clear") /\ ~IsArena(Seg(t))
  /\ IF sub[Proc(t)].lock = Nobody
       THEN sub' = [sub EXCEPT ![Proc(t)].lock = t] /\ Go(t, "clear_os") /\ UNCHANGED seg
       ELSE FreeBlock(Seg(t)) /\ Go(t, "idle") /\ UNCHANGED sub
  /\ UNCHANGED <<bits, arenaLock, part, map, td_cache>>

Unlink(p, s) == LET list == sub[p].list
                IN RemoveAt(list, CHOOSE k \in 1..Len(list) : list[k] = s)

OsClearRemove(t) ==
  LET p == Proc(t)
      s == Seg(t)
      listed == s \in ToSet(sub[p].list)
  IN /\ At(t, "clear_os")
     /\ sub' = [sub EXCEPT ![p].list = IF listed THEN Unlink(p, s) ELSE @, ![p].lock = Nobody,
                           ![p].count = IF listed THEN @ - 1 ELSE @,
                           ![p].os_count = IF listed THEN @ - 1 ELSE @]
     /\ seg' = [seg EXCEPT ![s].thread_id = IF listed THEN t ELSE @, ![s].blocks = @ - 1]
     /\ Go(t, "idle")
     /\ UNCHANGED <<bits, arenaLock, part, map, td_cache>>

-----------------------------------------------------------------------------
(* The cursor.  "reclaim" is pa_segment_try_reclaim, "collect" and "force"  *)
(* _pa_abandoned_collect, "visit" pa_abandoned_visit_blocks, "all"          *)
(* _pa_abandoned_reclaim_all.                                               *)

\* _pa_arena_field_cursor_done: the walk ends and releases the visit lock.
Visitor(t) == IF Cur(t).visit THEN Nobody ELSE sub[Proc(t)].visit
CursorDone(t) == th' = [th EXCEPT ![t].pc = "idle", ![t].seg = Nobody, ![t].cur = NoCursor]

Blocking(t) == Cur(t).kind \in {"force", "visit", "all"}

\* _pa_arena_field_cursor_init reads the two counts one after the other; a
\* count that has wrapped is large.
CursorInit(t, kind) ==
  /\ At(t, "idle")
  /\ kind = "visit" => VisitAbandoned
  /\ kind = "reclaim" => sub[Proc(t)].count # 0
  /\ th' = [th EXCEPT ![t].pc = "cursor", ![t].seg = Nobody,
                      ![t].cur = [NoCursor EXCEPT !.kind = kind, !.count = sub[Proc(t)].count]]
  /\ UNCHANGED <<seg, bits, sub, arenaLock, part, map, td_cache>>

CursorCounts(t) ==
  LET os == sub[Proc(t)].os_count
      n  == Cur(t).count
  IN /\ At(t, "cursor")
     /\ th' = [th EXCEPT ![t].pc = "next", ![t].cur.os = os, ![t].cur.count = 0,
                         ![t].cur.arena = n > os \/ n < 0,
                         ![t].cur.tries = IF Cur(t).kind = "force" THEN n ELSE 1]
     /\ UNCHANGED <<seg, bits, sub, arenaLock, part, map, td_cache>>

\* max_tries--; only a forced collect and a reclaim count their tries.
Tries(t) == Cur(t).kind \in {"force", "reclaim"}
More(t) == ~Tries(t) \/ Cur(t).tries > 0

\* pa_arena_segment_clear_abandoned_next_field: load the field from the bit
\* where the cursor is, taking the visit lock when there is something.
NextField(t) ==
  LET field == {s \in bits : s >= Cur(t).at}
  IN /\ At(t, "next") /\ More(t) /\ Cur(t).arena /\ field # {}
     /\ \/ VisitAbandoned /\ arenaLock = Nobody /\ arenaLock' = t
        \/ ~VisitAbandoned /\ UNCHANGED arenaLock
     /\ th' = [th EXCEPT ![t].pc = "bit", ![t].cur.field = field,
                         ![t].cur.tries = IF Tries(t) THEN @ - 1 ELSE @]
     /\ UNCHANGED <<seg, bits, sub, part, map, td_cache>>

\* The field is empty, or the lock is taken and the walk does not wait for it.
SkipArena(t) ==
  /\ At(t, "next") /\ More(t) /\ Cur(t).arena
  /\ \/ {s \in bits : s >= Cur(t).at} = {}
     \/ VisitAbandoned /\ arenaLock # Nobody /\ ~Blocking(t)
  /\ th' = [th EXCEPT ![t].cur.arena = FALSE]
  /\ UNCHANGED <<seg, bits, sub, arenaLock, part, map, td_cache>>

First(S) == CHOOSE x \in S : \A y \in S : x <= y

\* pa_arena_segment_clear_abandoned_at, for the next bit of the loaded field.
ClearAbandonedAt(t) ==
  LET s == First(Cur(t).field)
      cur == [Cur(t) EXCEPT !.field = @ \ {s}]
  IN /\ At(t, "bit") /\ Cur(t).field # {}
     /\ IF s \in bits
          THEN /\ bits' = bits \ {s}
               /\ th' = [th EXCEPT ![t].seg = s, ![t].cur = cur,
                                   ![t].pc = IF seg[s].subproc = Proc(t) THEN "bit_count" ELSE "remark"]
          ELSE /\ th' = [th EXCEPT ![t].cur = cur]
               /\ UNCHANGED bits
     /\ UNCHANGED <<seg, sub, arenaLock, part, map, td_cache>>

\* It is from another sub-process: mark it again and go on.
Remark(t) ==
  /\ At(t, "remark")
  /\ bits' = bits \cup {Seg(t)}
  /\ th' = [th EXCEPT ![t].pc = "bit", ![t].seg = Nobody]
  /\ UNCHANGED <<seg, sub, arenaLock, part, map, td_cache>>

Release(t) == arenaLock' = IF arenaLock = t THEN Nobody ELSE arenaLock

\* The segment is ours: count it, release the lock, go on at the next bit.
BitCount(t) ==
  /\ At(t, "bit_count")
  /\ sub' = [sub EXCEPT ![Proc(t)].count = @ - 1]
  /\ th' = [th EXCEPT ![t].pc = "hold", ![t].cur.field = {}, ![t].cur.at = Seg(t) + 1]
  /\ Release(t)
  /\ UNCHANGED <<seg, bits, part, map, td_cache>>

FieldDone(t) ==
  /\ At(t, "bit") /\ Cur(t).field = {}
  /\ th' = [th EXCEPT ![t].pc = "next", ![t].cur.arena = FALSE,
                      ![t].cur.tries = IF Tries(t) THEN @ + 1 ELSE @]
  /\ Release(t)
  /\ UNCHANGED <<seg, bits, sub, part, map, td_cache>>

\* pa_arena_segment_clear_abandoned_next_list: one walk at a time.
NextList(t) ==
  LET p == Proc(t)
  IN /\ At(t, "next") /\ More(t) /\ ~Cur(t).arena /\ ~Cur(t).visit
     /\ \/ /\ sub[p].visit = Nobody
           /\ sub' = [sub EXCEPT ![p].visit = t]
           /\ th' = [th EXCEPT ![t].cur.visit = TRUE]
        \/ /\ sub[p].visit # Nobody /\ ~Blocking(t)
           /\ CursorDone(t)
           /\ UNCHANGED sub
     /\ UNCHANGED <<seg, bits, arenaLock, part, map, td_cache>>

ListLock(t) ==
  LET p == Proc(t)
  IN /\ At(t, "next") /\ More(t) /\ ~Cur(t).arena /\ Cur(t).visit
     /\ Cur(t).os > 0 /\ sub[p].lock = Nobody
     /\ sub' = [sub EXCEPT ![p].lock = t]
     /\ th' = [th EXCEPT ![t].pc = "pop", ![t].cur.os = @ - 1,
                         ![t].cur.tries = IF Tries(t) THEN @ - 1 ELSE @]
     /\ UNCHANGED <<seg, bits, arenaLock, part, map, td_cache>>

\* Mutant of ListPop: os_list_count follows, abandoned_count is forgotten.
ListPopUncounted(t) ==
  LET p == Proc(t)
  IN /\ At(t, "pop")
     /\ IF sub[p].list = <<>>
          THEN sub' = [sub EXCEPT ![p].lock = Nobody, ![p].visit = Nobody] /\ CursorDone(t)
          ELSE /\ sub' = [sub EXCEPT ![p].list = Tail(@)]
               /\ th' = [th EXCEPT ![t].pc = "popped", ![t].seg = Head(sub[p].list)]
     /\ UNCHANGED <<seg, bits, arenaLock, part, map, td_cache>>

\* The head of the list; thread_id stays 0.
ListPop(t) ==
  LET p == Proc(t)
  IN /\ At(t, "pop")
     /\ IF sub[p].list = <<>>
          THEN sub' = [sub EXCEPT ![p].lock = Nobody, ![p].visit = Nobody] /\ CursorDone(t)
          ELSE /\ sub' = [sub EXCEPT ![p].list = Tail(@), ![p].count = @ - 1]
               /\ th' = [th EXCEPT ![t].pc = "popped", ![t].seg = Head(sub[p].list)]
     /\ UNCHANGED <<seg, bits, arenaLock, part, map, td_cache>>

ListUnlock(t) ==
  /\ At(t, "popped")
  /\ sub' = [sub EXCEPT ![Proc(t)].os_count = @ - 1, ![Proc(t)].lock = Nobody]
  /\ Go(t, "hold")
  /\ UNCHANGED <<seg, bits, arenaLock, part, map, td_cache>>

\* Nothing more to walk, or no tries left.
CursorEnd(t) ==
  /\ At(t, "next")
  /\ ~More(t) \/ (~Cur(t).arena /\ Cur(t).visit /\ Cur(t).os = 0)
  /\ sub' = [sub EXCEPT ![Proc(t)].visit = Visitor(t)]
  /\ CursorDone(t)
  /\ UNCHANGED <<seg, bits, arenaLock, part, map, td_cache>>

\* Mutant of HoldFree: a page whose blocks are being freed counts as free.
HoldFreeEarly(t) ==
  /\ At(t, "hold") /\ Cur(t).kind # "visit" /\ seg[Seg(t)].blocks <= Cardinality(Freeing(Seg(t)))
  /\ seg' = [seg EXCEPT ![Seg(t)].thread_id = t]
  /\ Go(t, "os_free")
  /\ UNCHANGED <<bits, sub, arenaLock, part, map, td_cache>>

\* pa_segment_check_free found no live block: reclaimed, and freed by that.
HoldFree(t) ==
  /\ At(t, "hold") /\ Cur(t).kind # "visit" /\ seg[Seg(t)].blocks = 0
  /\ seg' = [seg EXCEPT ![Seg(t)].thread_id = t]
  /\ Go(t, "os_free")
  /\ UNCHANGED <<bits, sub, arenaLock, part, map, td_cache>>

\* pa_segment_reclaim of a segment that stays; a reclaim that found a page ends.
HoldReclaim(t) ==
  /\ At(t, "hold") /\ Cur(t).kind \in {"reclaim", "all"} /\ seg[Seg(t)].blocks > 0
  /\ seg' = [seg EXCEPT ![Seg(t)].thread_id = t]
  /\ \/ Go(t, "next") /\ UNCHANGED sub
     \/ /\ Cur(t).kind = "reclaim" /\ CursorDone(t)
        /\ sub' = [sub EXCEPT ![Proc(t)].visit = Visitor(t)]
  /\ UNCHANGED <<bits, arenaLock, part, map, td_cache>>

\* Back among the abandoned; an unsuitable segment was not a try.
HoldMark(t) ==
  /\ At(t, "hold")
  /\ Cur(t).kind = "visit" \/ (Cur(t).kind \in {"reclaim", "collect", "force"} /\ seg[Seg(t)].blocks > 0)
  /\ th' = [th EXCEPT ![t].pc = "mark", ![t].cur.tries = IF Cur(t).kind = "reclaim" THEN @ + 1 ELSE @]
  /\ UNCHANGED <<seg, bits, sub, arenaLock, part, map, td_cache>>

-----------------------------------------------------------------------------
ThreadStep(t) ==
  \/ \E i \in Slots : ThreadInit(t, i) \/ ThreadDataCollect(t, i)
  \/ ThreadDataExchange(t) \/ ThreadDataZalloc(t) \/ ThreadDone(t)
  \/ \E p \in Subprocs : SubprocAddCurrentThread(t, p)
  \/ \E s \in Segments : SegmentAlloc(t, s) \/ Malloc(t, s) \/ SegmentFree(t, s)
  \/ MapCas(t) \/ MapFails(t) \/ MapAllocatedAt(t) \/ SegmentOsFree(t) \/ ArenaFree(t)

AbandonStep(t) ==
  \/ \E s \in Segments : Abandon(t, s)
  \/ MarkAbandoned(t) \/ MarkBit(t) \/ MarkCount(t)
  \/ OsMarkLock(t) \/ OsMarkPush(t) \/ OsMarkUnlock(t)

FreeStep(t) ==
  \/ \E s \in Segments : Free(t, s)
  \/ ClearAbandoned(t) \/ ClearCount(t) \/ ClearOwn(t)
  \/ OsClearAbandoned(t) \/ OsClearRemove(t)

CursorStep(t) ==
  \/ \E kind \in Kinds : CursorInit(t, kind)
  \/ CursorCounts(t) \/ NextField(t) \/ SkipArena(t) \/ ClearAbandonedAt(t) \/ Remark(t)
  \/ BitCount(t) \/ FieldDone(t) \/ NextList(t) \/ ListLock(t) \/ ListPop(t) \/ ListUnlock(t)
  \/ CursorEnd(t) \/ HoldFree(t) \/ HoldReclaim(t) \/ HoldMark(t)

Next == \E t \in Threads : ThreadStep(t) \/ AbandonStep(t) \/ FreeStep(t) \/ CursorStep(t)

Spec == Init /\ [][Next]_vars

-----------------------------------------------------------------------------
(* Properties.                                                              *)

\* A thread that took the segment out of the abandoned ones, or is putting it
\* back, and works on it alone.
Holders(s) ==
  {t \in Threads : th[t].seg = s /\
     th[t].pc \in {"mark", "mark_bit", "mark_lock", "mark_push", "clear_count", "clear_own",
                   "bit_count", "remark", "popped", "hold", "os_free", "unmap", "map_cas", "map_set"}}

\* The counts of listings of a segment.
Listings(s) == {e \in Subprocs \X (1..Cardinality(Segments)) :
                  e[2] <= Len(sub[e[1]].list) /\ sub[e[1]].list[e[2]] = s}
Listed(s) == (IF s \in bits THEN 1 ELSE 0) + Cardinality(Listings(s))

\* A live segment is in exactly one place: abandoned, once; or in the hands of
\* one thread that takes or returns it; or owned.  Nobody else reaches it, so
\* the owner may use it without a lock (arena-abandon.c, thread_id).
OneHolder ==
  \A s \in Segments :
    /\ seg[s].live => Listed(s) + Cardinality(Holders(s))
                      + (IF seg[s].thread_id # Nobody /\ Holders(s) = {} THEN 1 ELSE 0) = 1
    /\ seg[s].thread_id # Nobody => Holders(s) \subseteq {seg[s].thread_id}
    /\ ~seg[s].live => Listed(s) = 0 /\ Holders(s) = {}

\* Changes of abandoned_count that are still to come.
Due(p) ==
  Cardinality({t \in Threads : Proc(t) = p /\ th[t].pc \in {"mark_count", "mark_unlock"}})
  - Cardinality({t \in Threads : Proc(t) = p /\ th[t].pc \in {"clear_count", "bit_count"}})

\* abandoned_count is the number of abandoned segments of the sub-process, but
\* for the steps under way, so that a reclaim finds what there is and a walk
\* does not stop short (abandoned_count, abandoned_os_list_count).
CountExact ==
  \A p \in Subprocs :
    /\ sub[p].count + Due(p) =
         Len(sub[p].list)
         + Cardinality({s \in Segments : seg[s].live /\ seg[s].subproc = p
                          /\ (s \in bits \/ \E t \in Threads : th[t].seg = s /\ th[t].pc = "remark")})
    /\ sub[p].lock = Nobody => sub[p].os_count = Len(sub[p].list)

\* The segment of a block is live until the block is freed: a thread between
\* its look at thread_id and its free of the block (pa_free_block_mt).
FreeingPins ==
  \A t \in Threads : th[t].pc \in {"clear", "clear_count", "clear_own", "clear_os"} =>
    seg[Seg(t)].live /\ seg[Seg(t)].blocks >= Cardinality(Freeing(Seg(t)))

\* The segment map knows every OS segment that has blocks, but for those that
\* found no part when they were made, and none that was returned, although
\* several threads may make the part at once (segment-map.c).
MapExact ==
  \A s \in OsSegments :
    /\ seg[s].blocks > 0 => (SegmentOf(s) <=> s \notin map[Nobody])
    /\ ~seg[s].live => ~SegmentOf(s) /\ s \notin map[Nobody]

\* The metadata of a thread is its own: no other thread has it, it is not in
\* the cache, and the cache holds nothing twice (td_cache).
DataUnique ==
  /\ \A t, u \in Threads : (t # u /\ th[t].td # Nobody) => th[t].td # th[u].td
  /\ \A t \in Threads, i \in Slots : th[t].td # Nobody => td_cache[i] # th[t].td
  /\ \A i, j \in Slots : (i # j /\ td_cache[i] # Nobody) => td_cache[i] # td_cache[j]
=============================================================================
