------------------------------- MODULE Arenas -------------------------------
(***************************************************************************)
(* The table of arenas (arena.c): memory is reserved from the OS, or given *)
(* by the program, and added to the table while other threads search it; a *)
(* request goes through the arenas that suit it, reserves a new arena, or  *)
(* falls back to the OS.  What happens inside one arena is in Arena: here  *)
(* a claim of blocks, and a free, is one step.                             *)
(*                                                                         *)
(* Addresses are numbers; the memory of the OS begins at one of OsStarts.  *)
(***************************************************************************)
EXTENDS Integers, Sequences, FiniteSets

CONSTANTS
  Users,         \* threads
  MAX_ARENAS,    \* PA_MAX_ARENAS
  MARGIN,        \* entries a reservation on demand leaves (4 in the code)
  SCALE,         \* arenas after which the size doubles (8 in the code)
  BLOCK,         \* PA_ARENA_BLOCK_SIZE, PA_SEGMENT_ALIGN and PA_SEGMENT_SIZE
  RESERVE,       \* the option arena_reserve, in bytes
  HUGE_PAGE,     \* 1 GiB
  NODES,         \* NUMA nodes
  STATIC_MAX,    \* PA_ARENA_STATIC_MAX
  META,          \* size of the structure of an arena
  META_ALIGN,    \* PA_MAX_ALIGN_SIZE
  OsStarts,      \* where the OS may map memory
  Given,         \* memory of the program: [start, size, exclusive, large, node]
  AllocRequests, \* [blocks, req, large, node]
  Reservations,  \* [size, exclusive, large]
  HugeRequests,  \* pages to interleave
  DisallowOs,    \* the option disallow_os_alloc
  MaxCalls       \* bound: calls other than frees

ASSUME ArenasAssumption ==
  /\ {MAX_ARENAS, SCALE, BLOCK, HUGE_PAGE, NODES, META, META_ALIGN} \subseteq Nat \ {0}
  /\ {MARGIN, RESERVE, STATIC_MAX} \subseteq Nat /\ DisallowOs \in BOOLEAN
  /\ OsStarts \subseteq Nat /\ HugeRequests \subseteq Nat \ {0}
  /\ AllocRequests \subseteq [blocks : Nat \ {0}, req : Nat, large : BOOLEAN, node : Nat \cup {-1}]
  /\ Reservations \subseteq [size : Nat \ {0}, exclusive : BOOLEAN, large : BOOLEAN]
  /\ Given \subseteq [start : Nat, size : Nat \ {0}, exclusive : BOOLEAN, large : BOOLEAN, node : Nat \cup {-1}]
  /\ \A g, h \in Given : g = h \/ g.start + g.size <= h.start \/ h.start + h.size <= g.start

VARIABLES
  arenas,        \* pa_arenas: 0 (NULL) or a number of `made`
  arena_count,   \* pa_arena_count
  made,          \* the structures of arenas, in the order they were allocated
  static_top,    \* pa_arena_static_top
  static_live,   \* the parts of the static area in use: <<start, size>>
  mapped,        \* memory the OS has mapped: <<start, size>>
  alive,         \* the memory of clients
  user,          \* what each thread is doing
  calls, ended

arenasVars == <<arenas, arena_count, made, static_top, static_live, mapped, alive, user, calls, ended>>
memoryVars == <<static_top, static_live, mapped>>

NONE == 0        \* _pa_arena_id_none
AnyNode == -1
TableEntries == 0 .. MAX_ARENAS - 1
UserIdle == [pc |-> "idle"]

ArenasInit ==
  /\ arenas = [i \in TableEntries |-> 0] /\ arena_count = 0 /\ made = << >>
  /\ static_top = 0 /\ static_live = {}
  /\ mapped = {} /\ alive = {}
  /\ user = [t \in Users |-> UserIdle] /\ calls = 0 /\ ended = FALSE

AlignTo(n, a) == ((n + a - 1) \div a) * a
BytesAt(start, size) == start .. start + size - 1
BlockStart(a, k) == a.start + k * BLOCK
Beside(s, n, s2, n2) == s + n <= s2 \/ s2 + n2 <= s

\* The OS maps memory that is neither mapped nor of the program.
OsRoom(size) ==
  {s \in OsStarts : /\ \A m \in mapped : Beside(s, size, m[1], m[2])
                    /\ \A g \in Given : Beside(s, size, g.start, g.size)}

UserTo(t, pc) == user' = [user EXCEPT ![t].pc = pc]
Starting(t, call) ==
  /\ user[t] = UserIdle /\ ~ended /\ calls < MaxCalls /\ calls' = calls + 1
  /\ user' = [user EXCEPT ![t] = call]
-----------------------------------------------------------------------------
(* Allocation.                                                              *)

\* What a thread keeps of a call: the request, where it is in the table, the
\* memory it adds, and the reservations of huge pages still to be made.
CallRecord(op, request) ==
  [pc |-> "scan", op |-> op, request |-> request, max |-> 0, i |-> 0, match |-> TRUE,
   only |-> FALSE, toplow |-> 0, mem |-> << >>, handle |-> 0, todo |-> << >>]

\* _pa_arena_alloc_aligned and the first lines of pa_arena_try_alloc; alignment
\* is that of a segment.
AllocAligned(t, r) ==
  LET call == CallRecord("alloc", r)
      index == IF r.req = NONE THEN 0 ELSE r.req - 1
  IN /\ Starting(t, IF index < arena_count THEN [call EXCEPT !.max = arena_count, !.i = index, !.only = (r.req # NONE)]
                    ELSE [call EXCEPT !.pc = IF r.req = NONE THEN "reserve" ELSE "os"])
     /\ UNCHANGED <<arenas, arena_count, made, memoryVars, alive, ended>>

\* pa_arena_id_is_suitable and the checks of pa_arena_try_alloc_at_id: in the first
\* round the arenas of the node, in the second the others.
Suitable(a, u) ==
  LET r == u.request
  IN /\ a.large => r.large
     /\ (~a.exclusive /\ r.req = NONE) \/ a.id = r.req
     /\ r.req = NONE => (u.match <=> (r.node = AnyNode \/ a.node \in {AnyNode, r.node}))

\* Ranges of n free blocks
FreeRanges(a, n) ==
  {k \in 0 .. a.blocks - n : (k .. k + n - 1) \cap a.inuse = {}}

\* One arena of pa_arena_try_alloc; its pointer may still be NULL.
TryArena(t) ==
  LET u == user[t]
      h == arenas[u.i]
      n == u.request.blocks
      ranges == IF h # 0 /\ Suitable(made[h], u) THEN FreeRanges(made[h], n) ELSE {}
  IN /\ u.pc = "scan"
     /\ IF ranges # {}
          THEN \E k \in ranges :
                 /\ made' = [made EXCEPT ![h].inuse = @ \cup (k .. k + n - 1)]
                 /\ alive' = alive \cup {[kind |-> "arena", id |-> made[h].id, block |-> k, req |-> u.request.req,
                                          large |-> u.request.large,
                                          start |-> BlockStart(made[h], k), size |-> n * BLOCK]}
                 /\ user' = [user EXCEPT ![t] = UserIdle]
          ELSE /\ user' = [user EXCEPT ![t] =
                    IF u.only THEN [CallRecord("alloc", u.request) EXCEPT !.pc = "os"]
                    ELSE IF u.i + 1 < u.max THEN [u EXCEPT !.i = @ + 1]
                    ELSE IF u.match /\ u.request.node # AnyNode THEN [u EXCEPT !.i = 0, !.match = FALSE]
                    ELSE [CallRecord("alloc", u.request) EXCEPT !.pc = "reserve"]]
               /\ UNCHANGED <<made, alive>>
     /\ UNCHANGED <<arenas, arena_count, memoryVars, calls, ended>>

\* The end of _pa_arena_alloc_aligned: memory of the OS, which may have none.
FromOs(t) ==
  LET r == user[t].request
      size == r.blocks * BLOCK
      free == OsRoom(size)
  IN /\ user[t].pc = "os"
     /\ \/ UNCHANGED <<alive, mapped>>
        \/ /\ r.req = NONE /\ ~DisallowOs
           /\ \E s \in free :
                /\ \A s2 \in free : s <= s2
                /\ mapped' = mapped \cup {<<s, size>>}
                /\ alive' = alive \cup {[kind |-> "os", start |-> s, size |-> size]}
     /\ user' = [user EXCEPT ![t] = UserIdle]
     /\ UNCHANGED <<arenas, arena_count, made, static_top, static_live, calls, ended>>

\* _pa_arena_free: the memory id leads to the arena.
FreeMemory(t, p) ==
  /\ user[t] = UserIdle /\ ~ended
  /\ alive' = alive \ {p}
  /\ IF p.kind = "os" THEN mapped' = mapped \ {<<p.start, p.size>>} /\ UNCHANGED made
     ELSE LET h == arenas[p.id - 1]
          IN /\ made' = IF h = 0 THEN made
                        ELSE [made EXCEPT ![h].inuse = @ \ (p.block .. p.block + (p.size \div BLOCK) - 1)]
             /\ UNCHANGED mapped
  /\ UNCHANGED <<arenas, arena_count, static_top, static_live, user, calls, ended>>
-----------------------------------------------------------------------------
(* New arenas.                                                              *)

\* pa_arena_reserve: the size of an arena on demand
ReserveSize ==
  LET size == AlignTo(RESERVE, BLOCK)
  IN IF arena_count >= SCALE /\ arena_count <= 16 * SCALE THEN size * 2 ^ (arena_count \div SCALE) ELSE size

Reserve(t) ==
  LET u == user[t]
      mem == [size |-> ReserveSize, exclusive |-> FALSE, large |-> u.request.large, node |-> AnyNode]
      refused == \/ arena_count > MAX_ARENAS - MARGIN \/ RESERVE = 0
                 \/ ReserveSize < u.request.blocks * BLOCK
  IN /\ u.pc = "reserve"
     /\ user' = [user EXCEPT ![t] = [u EXCEPT !.pc = IF refused THEN "os" ELSE "map", !.mem = mem]]
     /\ UNCHANGED <<arenas, arena_count, made, memoryVars, alive, calls, ended>>

\* pa_reserve_os_memory_ex by the program
ReserveOsMemory(t, r) ==
  /\ Starting(t, [CallRecord("reserve", r) EXCEPT !.pc = "map",
        !.mem = [size |-> AlignTo(r.size, BLOCK), exclusive |-> r.exclusive, large |-> r.large, node |-> AnyNode]])
  /\ UNCHANGED <<arenas, arena_count, made, memoryVars, alive, ended>>

\* pa_reserve_huge_os_pages_interleave: the pages of each node, until none is left
HugePages(pages) ==
  [n \in 1 .. (IF pages < NODES THEN pages ELSE NODES) |->
     [size |-> HUGE_PAGE * ((pages \div NODES) + (IF n - 1 < pages % NODES THEN 1 ELSE 0)),
      exclusive |-> FALSE, large |-> TRUE, node |-> n - 1]]

ReserveHuge(t, pages) ==
  LET plan == HugePages(pages)
  IN /\ Starting(t, [CallRecord("huge", [pages |-> pages]) EXCEPT !.pc = "map", !.mem = Head(plan), !.todo = Tail(plan)])
     /\ UNCHANGED <<arenas, arena_count, made, memoryVars, alive, ended>>

\* The call goes on, or ends, when its arena could not be added.
Failed(t) ==
  IF user[t].op = "alloc" THEN [CallRecord("alloc", user[t].request) EXCEPT !.pc = "os"] ELSE UserIdle

\* The memory of the arena: huge pages may be fewer than asked for, and memory
\* that may be large need not be.
MapMemory(t) ==
  LET u == user[t]
      sizes == IF u.op = "huge" THEN {n * HUGE_PAGE : n \in 1 .. u.mem.size \div HUGE_PAGE} ELSE {u.mem.size}
      larges == IF u.op = "huge" THEN {TRUE} ELSE {FALSE, u.mem.large}
  IN /\ u.pc = "map"
     /\ \/ user' = [user EXCEPT ![t] = Failed(t)] /\ UNCHANGED mapped
        \/ \E size \in sizes, large \in larges : \E s \in OsRoom(size) :
             /\ \A s2 \in OsRoom(size) : s <= s2
             /\ mapped' = mapped \cup {<<s, size>>}
             /\ user' = [user EXCEPT ![t] = [u EXCEPT !.pc = "meta", !.mem =
                   [start |-> s, size |-> size, exclusive |-> u.mem.exclusive, large |-> large,
                    node |-> u.mem.node, os |-> TRUE]]]
     /\ UNCHANGED <<arenas, arena_count, made, static_top, static_live, alive, calls, ended>>

\* Mutant of AlignedPart: the size is not lowered.
AlignedPartLong(g) ==
  [start |-> AlignTo(g.start, BLOCK), size |-> g.size, exclusive |-> g.exclusive, large |-> g.large,
   node |-> g.node, os |-> FALSE]

\* The part of memory the program gives that is aligned
AlignedPart(g) ==
  LET start == AlignTo(g.start, BLOCK)
  IN [start |-> start, size |-> g.size - (start - g.start), exclusive |-> g.exclusive, large |-> g.large,
      node |-> g.node, os |-> FALSE]

Adding == {"meta", "metaadd", "metaundo", "metaos", "add", "store", "release"}
GivenBefore(g) == \E h \in 1 .. Len(made) : made[h].start = AlignedPart(g).start
GivenNow(g) == \E t \in Users : user[t].pc \in Adding /\ user[t].mem.start = AlignedPart(g).start

\* pa_manage_os_memory_ex: memory of the program, given once, is cut to the
\* alignment of a segment; too small a part is refused.
ManageOsMemory(t, g) ==
  /\ ~GivenBefore(g) /\ ~GivenNow(g)
  /\ g.size >= BLOCK /\ AlignedPart(g).size >= BLOCK
  /\ Starting(t, [CallRecord("manage", g) EXCEPT !.pc = "meta", !.mem = AlignedPart(g)])
  /\ UNCHANGED <<arenas, arena_count, made, memoryVars, alive, ended>>

\* pa_arena_static_zalloc: load the top, ...
Meta(t) ==
  /\ user[t].pc = "meta"
  /\ UserTo(t, IF static_top + META + META_ALIGN - 1 > STATIC_MAX THEN "metaos" ELSE "metaadd")
  /\ UNCHANGED <<arenas, arena_count, made, memoryVars, alive, calls, ended>>

Structure(mem, place) ==
  [start |-> mem.start, size |-> mem.size, blocks |-> mem.size \div BLOCK, exclusive |-> mem.exclusive,
   large |-> mem.large, node |-> mem.node, os |-> mem.os, inuse |-> {}, id |-> NONE, meta |-> place]

Made(t, place) ==
  /\ made' = Append(made, Structure(user[t].mem, place))
  /\ user' = [user EXCEPT ![t].pc = "add", ![t].handle = Len(made) + 1]

\* ... add to it, which must not go beyond the area, ...
MetaAdd(t) ==
  LET oversize == META + META_ALIGN - 1
  IN /\ user[t].pc = "metaadd"
     /\ static_top' = static_top + oversize
     /\ IF static_top + oversize > STATIC_MAX
          THEN /\ user' = [user EXCEPT ![t].pc = "metaundo", ![t].toplow = static_top]
               /\ UNCHANGED <<made, static_live>>
          ELSE /\ Made(t, "static")
               /\ static_live' = static_live \cup {<<AlignTo(static_top, META_ALIGN), META>>}
     /\ UNCHANGED <<arenas, arena_count, mapped, alive, calls, ended>>

\* ... or else is taken back, unless another thread added to it.
MetaUndo(t) ==
  LET old == user[t].toplow
  IN /\ user[t].pc = "metaundo"
     /\ static_top' = IF static_top = old + META + META_ALIGN - 1 THEN old ELSE static_top
     /\ user' = [user EXCEPT ![t].pc = "metaos", ![t].toplow = 0]
     /\ UNCHANGED <<arenas, arena_count, made, static_live, mapped, alive, calls, ended>>

\* The structure is in memory of the OS, if there is any.
MetaOs(t) ==
  /\ user[t].pc = "metaos"
  /\ \/ Made(t, "os")
     \/ UserTo(t, "release") /\ UNCHANGED made
  /\ UNCHANGED <<arenas, arena_count, memoryVars, alive, calls, ended>>

\* pa_arena_add: a compare-and-swap takes the next entry, which is NULL until ...
AddArena(t) ==
  LET u == user[t]
  IN /\ u.pc = "add"
     /\ IF arena_count < MAX_ARENAS
          THEN /\ arena_count' = arena_count + 1
               /\ made' = [made EXCEPT ![u.handle].id = arena_count + 1]
               /\ user' = [user EXCEPT ![t].pc = "store", ![t].i = arena_count]
          ELSE UserTo(t, "release") /\ UNCHANGED <<arena_count, made>>
     /\ UNCHANGED <<arenas, memoryVars, alive, calls, ended>>

\* ... it is stored.  An allocation then tries this arena; huge pages go on
\* with the next node.
StoreArena(t) ==
  LET u == user[t]
  IN /\ u.pc = "store"
     /\ arenas' = [arenas EXCEPT ![u.i] = u.handle]
     /\ user' = [user EXCEPT ![t] =
          IF u.op = "alloc" THEN [u EXCEPT !.pc = "scan", !.only = TRUE, !.mem = << >>, !.handle = 0]
          ELSE IF u.todo # << >> THEN [CallRecord("huge", u.request) EXCEPT !.pc = "map", !.mem = Head(u.todo), !.todo = Tail(u.todo)]
          ELSE UserIdle]
     /\ UNCHANGED <<arena_count, made, memoryVars, alive, calls, ended>>

\* The memory that could not be added goes back to the OS.
Release(t) ==
  LET mem == user[t].mem
  IN /\ user[t].pc = "release"
     /\ mapped' = IF mem.os THEN mapped \ {<<mem.start, mem.size>>} ELSE mapped
     /\ user' = [user EXCEPT ![t] = Failed(t)]
     /\ UNCHANGED <<arenas, arena_count, made, static_top, static_live, alive, calls, ended>>

\* pa_arenas_unsafe_destroy, at the end of the process: arenas of OS memory go,
\* and the count becomes the index of the last one that stays.
Owned(i) == arenas[i] # 0 /\ made[arenas[i]].os
Kept(i) == arenas[i] # 0 /\ ~made[arenas[i]].os

DestroyAll ==
  /\ ~ended /\ \A t \in Users : user[t] = UserIdle
  /\ ended' = TRUE
  /\ LET known == 0 .. arena_count - 1
     IN /\ arenas' = [i \in TableEntries |-> IF i \in known /\ Owned(i) THEN 0 ELSE arenas[i]]
        /\ mapped' = mapped \ {<<made[arenas[i]].start, made[arenas[i]].size>> : i \in {j \in known : Owned(j)}}
        /\ arena_count' = IF \E i \in known : Kept(i)
                            THEN CHOOSE i \in known : Kept(i) /\ \A j \in known : Kept(j) => j <= i ELSE 0
  /\ UNCHANGED <<made, static_top, static_live, alive, user, calls>>

\* The process has ended.
ArenasEnded == ended /\ UNCHANGED arenasVars

ArenasNext ==
  \/ \E t \in Users :
       \/ \E r \in AllocRequests : AllocAligned(t, r)
       \/ \E r \in Reservations : ReserveOsMemory(t, r)
       \/ \E pages \in HugeRequests : ReserveHuge(t, pages)
       \/ \E g \in Given : ManageOsMemory(t, g)
       \/ \E p \in alive : FreeMemory(t, p)
       \/ TryArena(t) \/ FromOs(t) \/ Reserve(t) \/ MapMemory(t)
       \/ Meta(t) \/ MetaAdd(t) \/ MetaUndo(t) \/ MetaOs(t)
       \/ AddArena(t) \/ StoreArena(t) \/ Release(t)
  \/ DestroyAll \/ ArenasEnded

ArenasSpec == ArenasInit /\ [][ArenasNext]_arenasVars
-----------------------------------------------------------------------------
(* Properties.                                                              *)

\* _pa_arena_contains
ArenaContains(address) ==
  \E i \in 0 .. arena_count - 1 :
    /\ arenas[i] # 0
    /\ LET a == made[arenas[i]] IN address >= a.start /\ address < BlockStart(a, a.blocks)

GivenTo(p) == \E g \in Given : BytesAt(p.start, p.size) \subseteq BytesAt(g.start, g.size)
MappedTo(p) == \E m \in mapped : BytesAt(p.start, p.size) \subseteq BytesAt(m[1], m[2])

\* Memory of a client is in memory of the OS or of the program; an arena finds
\* its blocks again by id, and by address.
FoundAgain(p) ==
  /\ GivenTo(p) \/ MappedTo(p)
  /\ p.kind = "arena" =>
       LET h == arenas[p.id - 1]
       IN /\ h # 0 /\ p.start = BlockStart(made[h], p.block) /\ ArenaContains(p.start)
          /\ p.block .. p.block + (p.size \div BLOCK) - 1 \subseteq made[h].inuse
          /\ made[h].exclusive => p.req = p.id
          /\ made[h].large => p.large

\* Memory from the OS that is still mapped is of an arena in the table, of a
\* client, or of a call that is about to add it or give it back.
Accounted(m) ==
  \/ \E i \in TableEntries : Owned(i) /\ made[arenas[i]].start = m[1]
  \/ \E p \in alive : p.kind = "os" /\ p.start = m[1]
  \/ \E t \in Users : user[t].pc \in Adding /\ user[t].mem.start = m[1]

\* The table of arenas is sound while threads search it and add to it: memory is
\* handed out once, can be freed by what its id says, exclusive and large arenas
\* only to those who ask for them, no reserved memory is lost when the table or
\* the memory for structures is full, and the structures in the static area do
\* not overlap, with threads that roll the top back.
ArenasSound ==
  /\ ~ended => \A p \in alive : FoundAgain(p)
  /\ \A p, q \in alive : p # q => BytesAt(p.start, p.size) \cap BytesAt(q.start, q.size) = {}
  /\ \A m \in mapped : Accounted(m)
  /\ \A x \in static_live : x[1] + x[2] <= STATIC_MAX
  /\ \A x, y \in static_live : x # y => BytesAt(x[1], x[2]) \cap BytesAt(y[1], y[2]) = {}
=============================================================================
