-------------------------- MODULE AbandonedProofs ---------------------------
(***************************************************************************)
(* Proofs about Abandoned, for any finite sets of threads and segments and *)
(* any sub-processes, kinds of walk and caches of thread data.             *)
(*                                                                         *)
(* OneHolder alone is not inductive: that a thread may clear a bit, pop a  *)
(* list or set thread_id depends on where every other thread stands.  The  *)
(* inductive invariant IInv has one part per piece of shared state:        *)
(*   HoldInv     who has a segment: a bit, a list, one thread, or its owner*)
(*   PinInv      blocks outnumber the threads about to free one            *)
(*   MapInv      the segment map, what found no part, what is on its way   *)
(*   LockInv     who has a list's lock, and the list count under it        *)
(*   SubprocInv  segments stay in the sub-process of who works on them     *)
(*   CountInv    abandoned_count, with what threads still owe it           *)
(*   DataInv     the thread data and the cache of it                       *)
(* One lemma per action shows that it keeps all parts; a part an action    *)
(* does not disturb is kept by a lemma of its own (HoldKept, PinKept, ...).*)
(***************************************************************************)
EXTENDS Abandoned, SequenceTheorems, FiniteSetTheorems, TLAPS

-----------------------------------------------------------------------------
(* The inductive invariant.                                                 *)

HolderPcs == {"mark", "mark_bit", "mark_lock", "mark_push", "clear_count", "clear_own", "bit_count",
              "remark", "popped", "hold", "os_free", "unmap", "map_cas", "map_set"}
FreePcs == {"clear", "clear_count", "clear_own", "clear_os"}
LockPcs == {"mark_push", "mark_unlock", "clear_os", "pop", "popped"}
MapPcs == {"map_cas", "map_set", "unmap"}
PlainPcs == {"none", "exchange", "zalloc", "idle", "cursor", "next", "bit", "mark_count"}
Pcs == HolderPcs \cup FreePcs \cup LockPcs \cup PlainPcs

Cursors == [kind : Kinds \cup {"none"}, count : Int, arena : BOOLEAN, field : SUBSET ArenaSegments,
            at : Int \cup Slots, os : Int, tries : Int, visit : BOOLEAN]
ThreadRecords == [pc : Pcs, seg : Segments \cup {Nobody}, td : Datas \cup {Nobody}, proc : Subprocs,
                  cur : Cursors]
SegmentRecords == [live : BOOLEAN, thread_id : Threads \cup {Nobody}, subproc : Subprocs, blocks : Nat]
SubprocRecords == [list : Seq(OsSegments), count : Int, os_count : Int,
                   lock : Threads \cup {Nobody}, visit : Threads \cup {Nobody}]

TypeOK ==
  /\ seg \in [Segments -> SegmentRecords]
  /\ bits \subseteq ArenaSegments
  /\ sub \in [Subprocs -> SubprocRecords]
  /\ arenaLock \in Threads \cup {Nobody}
  /\ part \in Threads \cup {Nobody}
  /\ map \in [Threads \cup {Nobody} -> SUBSET OsSegments]
  /\ td_cache \in [Slots -> Datas \cup {Nobody}]
  /\ th \in [Threads -> ThreadRecords]
  /\ \A t \in Threads : th[t].pc \in HolderPcs \cup FreePcs => th[t].seg \in Segments

Elems(list) == {list[k] : k \in 1..Len(list)}
NoDup(list) == \A j, k \in 1..Len(list) : list[j] = list[k] => j = k

\* A segment in the hands of a thread, in its bit, or in a list.
Held(s) == \E t \in Threads : th[t].pc \in HolderPcs /\ th[t].seg = s
InList(s) == \E p \in Subprocs : s \in Elems(sub[p].list)

OneAlone == \A t, u \in Threads :
  th[t].pc \in HolderPcs /\ th[u].pc \in HolderPcs /\ th[t].seg = th[u].seg => t = u

HeldApart == \A t \in Threads : th[t].pc \in HolderPcs =>
  /\ seg[th[t].seg].live /\ th[t].seg \notin bits
  /\ \A p \in Subprocs : th[t].seg \notin Elems(sub[p].list)
  /\ seg[th[t].seg].thread_id \in {t, Nobody}
  /\ th[t].pc \in {"map_cas", "map_set", "os_free"} => seg[th[t].seg].thread_id = t
  /\ th[t].pc \notin {"map_cas", "map_set", "os_free", "mark"} => seg[th[t].seg].thread_id = Nobody

BitsAbandoned == \A s \in bits : seg[s].live /\ seg[s].thread_id = Nobody

ListsAbandoned == \A p \in Subprocs :
  /\ NoDup(sub[p].list)
  /\ \A s \in Elems(sub[p].list) : seg[s].live /\ seg[s].thread_id = Nobody /\ seg[s].subproc = p

NoneForgotten == \A s \in Segments :
  /\ seg[s].thread_id # Nobody => seg[s].live
  /\ seg[s].live /\ seg[s].thread_id = Nobody => s \in bits \/ InList(s) \/ Held(s)

InRightPlace == \A t \in Threads :
  /\ th[t].pc \in {"mark_bit", "clear_count", "clear_own", "bit_count", "remark"} =>
       th[t].seg \in ArenaSegments
  /\ th[t].pc \in {"mark_lock", "mark_push", "popped", "clear_os", "map_cas", "map_set"} =>
       th[t].seg \in OsSegments

HoldInv == /\ OneAlone /\ HeldApart /\ BitsAbandoned /\ ListsAbandoned /\ NoneForgotten
           /\ InRightPlace

PinInv ==
  /\ \A s \in Segments : seg[s].blocks >= Cardinality(Freeing(s)) /\ (seg[s].blocks > 0 => seg[s].live)
  /\ \A t \in Threads : th[t].pc \in MapPcs \cup {"os_free"} => seg[th[t].seg].blocks = 0

\* The map knows the segment, or it is one that found no part.
Noted(s) == SegmentOf(s) \/ s \in map[Nobody]

MapInv ==
  /\ \A t \in Threads : t # part => map[t] = {}
  /\ \A t \in Threads : th[t].pc = "map_set" => part # Nobody
  /\ \A s \in OsSegments :
       Noted(s) <=> seg[s].live /\ \A t \in Threads : th[t].pc \in MapPcs => th[t].seg # s
  /\ \A s \in OsSegments : ~(SegmentOf(s) /\ s \in map[Nobody])

LockInv ==
  /\ \A t \in Threads : th[t].pc \in LockPcs => sub[th[t].proc].lock = t
  /\ \A p \in Subprocs, t \in Threads : sub[p].lock = t => th[t].proc = p /\ th[t].pc \in LockPcs
  /\ \A p \in Subprocs : sub[p].os_count =
       Len(sub[p].list) + (IF \E t \in Threads : th[t].proc = p /\ th[t].pc = "popped" THEN 1 ELSE 0)

SubprocInv ==
  /\ \A s \in Segments, t \in Threads : seg[s].thread_id = t => seg[s].subproc = th[t].proc
  /\ \A t \in Threads : th[t].pc \in (HolderPcs \ {"remark"}) \cup FreePcs =>
       seg[th[t].seg].subproc = th[t].proc

Coming(p) == {t \in Threads : Proc(t) = p /\ th[t].pc \in {"mark_count", "mark_unlock"}}
Going(p) == {t \in Threads : Proc(t) = p /\ th[t].pc \in {"clear_count", "bit_count"}}
Marked(p) == {s \in Segments : seg[s].live /\ seg[s].subproc = p
                /\ (s \in bits \/ \E t \in Threads : th[t].seg = s /\ th[t].pc = "remark")}
CountInv == \A p \in Subprocs :
  sub[p].count + (Cardinality(Coming(p)) - Cardinality(Going(p)))
    = Len(sub[p].list) + Cardinality(Marked(p))

DataInv ==
  /\ DataUnique
  /\ \A t \in Threads : th[t].pc = "exchange" => th[t].cur.at \in Slots

IInv == HoldInv /\ PinInv /\ MapInv /\ LockInv /\ SubprocInv /\ CountInv /\ DataInv

-----------------------------------------------------------------------------
(* Lists.                                                                   *)

LEMMA ElemsAppend ==
  ASSUME NEW S, NEW list \in Seq(S), NEW x \in S, x \notin Elems(list), NoDup(list)
  PROVE  /\ Append(list, x) \in Seq(S) /\ Len(Append(list, x)) = Len(list) + 1
         /\ Elems(Append(list, x)) = Elems(list) \cup {x}
         /\ NoDup(Append(list, x))
<1> DEFINE new == Append(list, x)
           n == Len(list)
<1>1. /\ n \in Nat /\ new \in Seq(S) /\ Len(new) = n + 1
      /\ \A k \in 1..n : new[k] = list[k]
      /\ new[n + 1] = x
  BY AppendProperties, LenProperties
<1> HIDE DEF new
<1>2. \A k \in 1..n + 1 : k \in 1..n \/ k = n + 1
  BY <1>1
<1>3. Elems(new) = Elems(list) \cup {x}
  BY <1>1, <1>2 DEF Elems
<1>4. NoDup(new)
  BY <1>1, <1>2 DEF NoDup, Elems
<1> QED
  BY <1>1, <1>3, <1>4 DEF new

\* A list with one element taken out, wherever it was.
LEMMA ElemsWithout ==
  ASSUME NEW S, NEW list \in Seq(S), NoDup(list), NEW i \in 1..Len(list), NEW new \in Seq(S),
         Len(new) = Len(list) - 1,
         \A k \in 1..Len(list) - 1 : new[k] = IF k < i THEN list[k] ELSE list[k + 1]
  PROVE  Elems(new) = Elems(list) \ {list[i]} /\ NoDup(new)
<1> DEFINE n == Len(list)
<1>1. n \in Nat /\ i \in 1..n
  BY LenProperties
<1>2. \A k \in 1..n - 1 : /\ k < i => k \in 1..n /\ k # i
                          /\ ~(k < i) => k + 1 \in 1..n /\ k + 1 # i
  BY <1>1
<1>3. ASSUME NEW x \in Elems(new) PROVE x \in Elems(list) \ {list[i]}
  <2>1. PICK k \in 1..n - 1 : x = new[k]
    BY <1>3 DEF Elems
  <2>2. CASE k < i
    BY <1>1, <1>2, <2>1, <2>2 DEF Elems, NoDup
  <2>3. CASE ~(k < i)
    BY <1>1, <1>2, <2>1, <2>3 DEF Elems, NoDup
  <2> QED
    BY <2>2, <2>3
<1>4. ASSUME NEW x \in Elems(list) \ {list[i]} PROVE x \in Elems(new)
  <2>1. PICK k \in 1..n : x = list[k] /\ k # i
    BY <1>4 DEF Elems
  <2>2. CASE k < i
    <3>1. k \in 1..n - 1 /\ new[k] = x
      BY <1>1, <2>1, <2>2
    <3> QED
      BY <3>1 DEF Elems
  <2>3. CASE ~(k < i)
    <3>1. k - 1 \in 1..n - 1 /\ ~(k - 1 < i) /\ k - 1 + 1 = k
      BY <1>1, <2>1, <2>3
    <3>2. new[k - 1] = x
      BY <2>1, <3>1
    <3> QED
      BY <3>1, <3>2 DEF Elems
  <2> QED
    BY <2>2, <2>3
<1>5. ASSUME NEW j \in 1..n - 1, NEW k \in 1..n - 1, new[j] = new[k] PROVE j = k
  <2>1. PICK a \in 1..n : new[j] = list[a] /\ a = IF j < i THEN j ELSE j + 1
    BY <1>1, <1>2
  <2>2. PICK b \in 1..n : new[k] = list[b] /\ b = IF k < i THEN k ELSE k + 1
    BY <1>1, <1>2
  <2>3. a = b
    BY <1>5, <2>1, <2>2 DEF NoDup
  <2> QED
    BY <1>1, <2>1, <2>2, <2>3
<1> QED
  BY <1>3, <1>4, <1>5 DEF NoDup

LEMMA ElemsTail ==
  ASSUME NEW S, NEW list \in Seq(S), NoDup(list), list # <<>>
  PROVE  /\ Tail(list) \in Seq(S) /\ Len(Tail(list)) = Len(list) - 1
         /\ Head(list) \in S /\ Head(list) \in Elems(list)
         /\ Elems(Tail(list)) = Elems(list) \ {Head(list)}
         /\ NoDup(Tail(list))
<1> DEFINE new == Tail(list)
<1>1. /\ Len(list) \in Nat \ {0} /\ new \in Seq(S) /\ Len(new) = Len(list) - 1
      /\ \A k \in 1..Len(new) : new[k] = list[k + 1]
      /\ Head(list) = list[1] /\ Head(list) \in S
  BY HeadTailProperties, EmptySeq, LenProperties
<1> HIDE DEF new
<1>2. 1 \in 1..Len(list) /\ \A k \in 1..Len(list) - 1 : ~(k < 1)
  BY <1>1
<1>3. Elems(new) = Elems(list) \ {list[1]} /\ NoDup(new)
  BY <1>1, <1>2, ElemsWithout
<1> QED
  BY <1>1, <1>2, <1>3 DEF new, Elems

\* Unlink takes the segment out.
LEMMA ElemsUnlink ==
  ASSUME NEW p \in Subprocs, sub[p].list \in Seq(OsSegments), NoDup(sub[p].list),
         NEW s \in Elems(sub[p].list)
  PROVE  /\ Unlink(p, s) \in Seq(OsSegments) /\ Len(Unlink(p, s)) = Len(sub[p].list) - 1
         /\ Elems(Unlink(p, s)) = Elems(sub[p].list) \ {s}
         /\ NoDup(Unlink(p, s))
<1> DEFINE list == sub[p].list
           n == Len(list)
           i == CHOOSE k \in 1..n : list[k] = s
           a == SubSeq(list, 1, i - 1)
           b == SubSeq(list, i + 1, n)
           new == a \o b
<1>0. list \in Seq(OsSegments) /\ NoDup(list)
  OBVIOUS
<1>1. n \in Nat
  BY LenProperties
<1>2. i \in 1..n /\ list[i] = s
  BY DEF Elems
<1>3. Unlink(p, s) = new
  BY DEF Unlink, RemoveAt
<1> HIDE DEF i, list
<1>4. 1 \in Int /\ i - 1 \in Int /\ i + 1 \in Int /\ n \in Int
  BY <1>1, <1>2
<1>5. /\ a \in Seq(OsSegments) /\ Len(a) = i - 1
      /\ \A k \in 1..i - 1 : a[k] = list[k]
  <2>1. \A k \in 1..(i - 1) : k \in 1..n
    BY <1>1, <1>2
  <2>2. /\ a \in Seq(OsSegments)
        /\ Len(a) = IF 1 <= i - 1 THEN i - 1 - 1 + 1 ELSE 0
        /\ \A k \in 1..i - 1 - 1 + 1 : a[k] = list[1 + k - 1]
    BY <1>1, <1>2, <1>4, <2>1, SubSeqProperties DEF list
  <2> QED
    BY <1>1, <1>2, <2>2
<1>6. /\ b \in Seq(OsSegments) /\ Len(b) = n - i
      /\ \A k \in 1..n - i : b[k] = list[i + k]
  <2>1. \A k \in (i + 1)..n : k \in 1..n
    BY <1>1, <1>2
  <2>2. /\ b \in Seq(OsSegments)
        /\ Len(b) = IF i + 1 <= n THEN n - (i + 1) + 1 ELSE 0
        /\ \A k \in 1..n - (i + 1) + 1 : b[k] = list[(i + 1) + k - 1]
    BY <1>1, <1>2, <1>4, <2>1, SubSeqProperties DEF list
  <2> QED
    BY <1>1, <1>2, <2>2
<1> HIDE DEF a, b
<1>7. /\ new \in Seq(OsSegments) /\ Len(new) = n - 1
      /\ \A k \in 1..n - 1 : new[k] = IF k < i THEN list[k] ELSE list[k + 1]
  <2>1. /\ new \in Seq(OsSegments) /\ Len(new) = Len(a) + Len(b)
        /\ \A k \in 1..Len(a) + Len(b) : new[k] = IF k <= Len(a) THEN a[k] ELSE b[k - Len(a)]
    BY <1>5, <1>6, ConcatProperties
  <2>2. Len(a) + Len(b) = n - 1
    BY <1>1, <1>2, <1>5, <1>6
  <2>3. ASSUME NEW k \in 1..n - 1 PROVE new[k] = IF k < i THEN list[k] ELSE list[k + 1]
    <3>1. new[k] = IF k <= i - 1 THEN a[k] ELSE b[k - (i - 1)]
      BY <1>5, <2>1, <2>2
    <3>2. CASE k < i
      BY <1>1, <1>2, <1>5, <3>1, <3>2
    <3>3. CASE ~(k < i)
      <4>1. k - (i - 1) \in 1..n - i /\ i + (k - (i - 1)) = k + 1 /\ ~(k <= i - 1)
        BY <1>1, <1>2, <3>3
      <4> QED
        BY <1>6, <3>1, <3>3, <4>1
    <3> QED
      BY <3>2, <3>3
  <2> QED
    BY <2>1, <2>2, <2>3
<1> HIDE DEF new
<1>8. Elems(new) = Elems(list) \ {list[i]} /\ NoDup(new)
  BY <1>0, <1>2, <1>7, ElemsWithout
<1> QED
  BY <1>2, <1>3, <1>7, <1>8 DEF list

-----------------------------------------------------------------------------
(* A step of a thread.                                                      *)

\* Thread t goes to q with segment s; its sub-process and its data stay.
Moves(t, q, s) ==
  /\ th' \in [Threads -> ThreadRecords]
  /\ \A u \in Threads : u # t => th'[u] = th[u]
  /\ th'[t].pc = q /\ th'[t].seg = s /\ th'[t].proc = th[t].proc /\ th'[t].td = th[t].td

LEMMA Known ==
  /\ IsFiniteSet(Threads) /\ IsFiniteSet(Segments) /\ DefaultSubproc \in Subprocs
  /\ Nobody \notin Threads /\ Nobody \notin Segments /\ Nobody \notin Datas
  /\ \A s : s \in Segments <=> s \in ArenaSegments \/ s \in OsSegments
  /\ \A s : ~(s \in ArenaSegments /\ s \in OsSegments)
BY AbandonedAssumption DEF Segments

LEMMA ThreadFields ==
  ASSUME TypeOK, NEW t \in Threads
  PROVE  /\ th[t] \in ThreadRecords /\ th[t].pc \in Pcs /\ th[t].proc \in Subprocs
         /\ th[t].seg \in Segments \cup {Nobody} /\ th[t].td \in Datas \cup {Nobody}
         /\ th[t].cur \in Cursors
BY DEF TypeOK, ThreadRecords

LEMMA SegmentFields ==
  ASSUME TypeOK, NEW s \in Segments
  PROVE  /\ seg[s] \in SegmentRecords /\ seg[s].thread_id \in Threads \cup {Nobody}
         /\ seg[s].subproc \in Subprocs /\ seg[s].blocks \in Nat
BY DEF TypeOK, SegmentRecords

LEMMA SubprocFields ==
  ASSUME TypeOK, NEW p \in Subprocs
  PROVE  /\ sub[p] \in SubprocRecords /\ sub[p].list \in Seq(OsSegments) /\ sub[p].count \in Int
         /\ sub[p].os_count \in Int /\ sub[p].lock \in Threads \cup {Nobody}
         /\ Len(sub[p].list) \in Nat
<1>1. /\ sub[p] \in SubprocRecords /\ sub[p].list \in Seq(OsSegments) /\ sub[p].count \in Int
      /\ sub[p].os_count \in Int /\ sub[p].lock \in Threads \cup {Nobody}
  BY DEF TypeOK, SubprocRecords
<1> QED
  BY <1>1, LenProperties

\* Go, and the updates that give a thread a segment.
LEMMA GoMoves ==
  ASSUME TypeOK, NEW t \in Threads, NEW q \in Pcs, Go(t, q)
  PROVE  Moves(t, q, IF q \in {"idle", "next"} THEN Nobody ELSE th[t].seg)
<1> DEFINE s == IF q \in {"idle", "next"} THEN Nobody ELSE th[t].seg
           new == [th[t] EXCEPT !.pc = q, !.seg = s]
<1>1. th' = [th EXCEPT ![t] = new]
  BY DEF Go, TypeOK, ThreadRecords
<1>2. s \in Segments \cup {Nobody}
  BY ThreadFields
<1> HIDE DEF s
<1>3. /\ new \in ThreadRecords /\ new.pc = q /\ new.seg = s /\ new.proc = th[t].proc
      /\ new.td = th[t].td
  BY <1>2, ThreadFields DEF ThreadRecords
<1> HIDE DEF new
<1> QED
  BY <1>1, <1>3 DEF Moves, TypeOK, s

LEMMA PutMoves ==
  ASSUME TypeOK, NEW t \in Threads, NEW q \in Pcs, NEW s \in Segments \cup {Nobody},
         th' = [th EXCEPT ![t].seg = s, ![t].pc = q]
  PROVE  Moves(t, q, s)
<1> DEFINE new == [th[t] EXCEPT !.seg = s, !.pc = q]
<1>1. th' = [th EXCEPT ![t] = new]
  BY DEF TypeOK, ThreadRecords
<1>2. /\ new \in ThreadRecords /\ new.pc = q /\ new.seg = s /\ new.proc = th[t].proc
      /\ new.td = th[t].td
  BY ThreadFields DEF ThreadRecords
<1> HIDE DEF new
<1> QED
  BY <1>1, <1>2 DEF Moves, TypeOK

\* A step that changes the cursor too.
LEMMA CurMoves ==
  ASSUME TypeOK, NEW t \in Threads, NEW new \in ThreadRecords, th' = [th EXCEPT ![t] = new],
         new.proc = th[t].proc, new.td = th[t].td
  PROVE  Moves(t, new.pc, new.seg)
BY DEF Moves, TypeOK

-----------------------------------------------------------------------------
(* What a step leaves alone.                                                *)

LEMMA DataKept ==
  ASSUME TypeOK, DataInv, NEW t \in Threads, NEW q, NEW s, Moves(t, q, s), q # "exchange",
         td_cache' = td_cache
  PROVE  DataInv'
<1>1. \A u \in Threads : th'[u].td = th[u].td
  BY DEF Moves
<1>2. DataUnique'
  BY <1>1 DEF DataInv, DataUnique
<1>3. \A u \in Threads : th'[u].pc = "exchange" => th'[u].cur.at \in Slots
  BY DEF DataInv, Moves
<1> QED
  BY <1>2, <1>3 DEF DataInv

LEMMA MapKept ==
  ASSUME TypeOK, MapInv, NEW t \in Threads, NEW q, NEW s, Moves(t, q, s), th[t].pc \notin MapPcs,
         q \notin MapPcs, UNCHANGED <<part, map>>, \A x \in Segments : seg'[x].live = seg[x].live
  PROVE  MapInv'
<1>1. \A u \in Threads : th'[u].pc = IF u = t THEN q ELSE th[u].pc
  BY DEF Moves
<1>2. ASSUME NEW x \in OsSegments
      PROVE  Noted(x)' <=> seg'[x].live /\ \A u \in Threads : th'[u].pc \in MapPcs => th'[u].seg # x
  <2>1. Noted(x)' <=> Noted(x)
    BY DEF Noted, SegmentOf
  <2>2. seg'[x].live = seg[x].live
    BY Known
  <2>3. \A u \in Threads : /\ th'[u].pc \in MapPcs <=> th[u].pc \in MapPcs
                           /\ th'[u].pc \in MapPcs => th'[u].seg = th[u].seg
    BY <1>1 DEF Moves
  <2> QED
    BY <2>1, <2>2, <2>3 DEF MapInv
<1>3. \A u \in Threads : th'[u].pc = "map_set" => part' # Nobody
  BY <1>1 DEF MapInv, MapPcs
<1> QED
  BY <1>2, <1>3 DEF MapInv, SegmentOf

LEMMA FreeingFinite == \A s \in Segments : IsFiniteSet(Freeing(s)) /\ Cardinality(Freeing(s)) \in Nat
<1> SUFFICES ASSUME NEW s \in Segments PROVE IsFiniteSet(Freeing(s)) /\ Cardinality(Freeing(s)) \in Nat
  OBVIOUS
<1>1. Freeing(s) \subseteq Threads
  BY DEF Freeing
<1> QED
  BY <1>1, Known, FS_Subset, FS_CardinalityType

LEMMA FreeingNext ==
  ASSUME TypeOK, NEW t \in Threads, NEW q, NEW s, Moves(t, q, s), NEW x \in Segments
  PROVE  Freeing(x)' = {u \in Threads : /\ (IF u = t THEN s ELSE th[u].seg) = x
                                        /\ (IF u = t THEN q ELSE th[u].pc) \in FreePcs}
BY DEF Freeing, Moves, FreePcs

ZeroPcs == MapPcs \cup {"os_free"}

LEMMA PinKept ==
  ASSUME TypeOK, PinInv, NEW t \in Threads, NEW q, NEW s, Moves(t, q, s),
         th[t].pc \in FreePcs <=> q \in FreePcs, q \in FreePcs => s = th[t].seg,
         q \in ZeroPcs => seg[s].blocks = 0 /\ s \in Segments,
         \A x \in Segments : seg'[x].live = seg[x].live /\ seg'[x].blocks = seg[x].blocks
  PROVE  PinInv'
<1>1. ASSUME NEW x \in Segments PROVE Freeing(x)' = Freeing(x)
  BY FreeingNext DEF Freeing, FreePcs
<1>2. \A x \in Segments : seg'[x].blocks >= Cardinality(Freeing(x)') /\ (seg'[x].blocks > 0 => seg'[x].live)
  BY <1>1 DEF PinInv
<1>3. \A u \in Threads : th'[u].pc \in ZeroPcs => seg'[th'[u].seg].blocks = 0
  <2>1. \A u \in Threads : th[u].pc \in ZeroPcs => th[u].seg \in Segments
    BY DEF TypeOK, ZeroPcs, MapPcs, HolderPcs
  <2> QED
    BY <2>1 DEF PinInv, Moves, ZeroPcs
<1> QED
  BY <1>2, <1>3 DEF PinInv, ZeroPcs

LEMMA LockKept ==
  ASSUME TypeOK, LockInv, NEW t \in Threads, NEW q, NEW s, Moves(t, q, s),
         th[t].pc \in LockPcs <=> q \in LockPcs, th[t].pc = "popped" <=> q = "popped",
         \A p \in Subprocs : /\ sub'[p].lock = sub[p].lock /\ sub'[p].os_count = sub[p].os_count
                             /\ Len(sub'[p].list) = Len(sub[p].list)
  PROVE  LockInv'
<1>1. \A u \in Threads : /\ th'[u].proc = th[u].proc /\ th'[u].proc \in Subprocs
                         /\ th'[u].pc \in LockPcs <=> th[u].pc \in LockPcs
                         /\ th'[u].pc = "popped" <=> th[u].pc = "popped"
  BY ThreadFields DEF Moves
<1>2. \A u \in Threads : th'[u].pc \in LockPcs => sub'[th'[u].proc].lock = u
  BY <1>1 DEF LockInv
<1>3. \A p \in Subprocs, u \in Threads :
        sub'[p].lock = u => th'[u].proc = p /\ th'[u].pc \in LockPcs
  BY <1>1 DEF LockInv
<1>4. ASSUME NEW p \in Subprocs
      PROVE  sub'[p].os_count = Len(sub'[p].list)
               + (IF \E u \in Threads : th'[u].proc = p /\ th'[u].pc = "popped" THEN 1 ELSE 0)
  <2>1. (\E u \in Threads : th'[u].proc = p /\ th'[u].pc = "popped")
          <=> \E u \in Threads : th[u].proc = p /\ th[u].pc = "popped"
    BY <1>1
  <2>2. sub[p].os_count = Len(sub[p].list)
          + (IF \E u \in Threads : th[u].proc = p /\ th[u].pc = "popped" THEN 1 ELSE 0)
    BY DEF LockInv
  <2>3. sub'[p].os_count = sub[p].os_count /\ Len(sub'[p].list) = Len(sub[p].list)
    OBVIOUS
  <2> QED
    BY <2>1, <2>2, <2>3
<1> QED
  BY <1>2, <1>3, <1>4 DEF LockInv

WorkPcs == (HolderPcs \ {"remark"}) \cup FreePcs

LEMMA SubprocKept ==
  ASSUME TypeOK, SubprocInv, NEW t \in Threads, NEW q, NEW s, Moves(t, q, s),
         q \in WorkPcs => s \in Segments /\ seg[s].subproc = th[t].proc,
         \A x \in Segments : seg'[x].thread_id = seg[x].thread_id /\ seg'[x].subproc = seg[x].subproc
  PROVE  SubprocInv'
<1>1. \A u \in Threads : /\ th'[u].proc = th[u].proc
                         /\ u # t => th'[u].pc = th[u].pc /\ th'[u].seg = th[u].seg
                         /\ th[u].pc \in WorkPcs => th[u].seg \in Segments
  BY DEF Moves, TypeOK, WorkPcs
<1>2. \A u \in Threads : th'[u].pc \in WorkPcs => seg'[th'[u].seg].subproc = th'[u].proc
  BY <1>1 DEF SubprocInv, Moves, WorkPcs
<1> QED
  BY <1>1, <1>2 DEF SubprocInv, WorkPcs

LEMMA CountSets ==
  ASSUME NEW p \in Subprocs
  PROVE  /\ IsFiniteSet(Coming(p)) /\ Cardinality(Coming(p)) \in Nat
         /\ IsFiniteSet(Going(p)) /\ Cardinality(Going(p)) \in Nat
         /\ IsFiniteSet(Marked(p)) /\ Cardinality(Marked(p)) \in Nat
<1>1. Coming(p) \subseteq Threads /\ Going(p) \subseteq Threads /\ Marked(p) \subseteq Segments
  BY DEF Coming, Going, Marked
<1> QED
  BY <1>1, Known, FS_Subset, FS_CardinalityType

ComingPcs == {"mark_count", "mark_unlock"}
GoingPcs == {"clear_count", "bit_count"}

\* The sets of CountInv after a step.
LEMMA CountSetsNext ==
  ASSUME TypeOK, NEW t \in Threads, NEW q, NEW s, Moves(t, q, s), NEW p \in Subprocs
  PROVE  /\ th[t].proc # p => Coming(p)' = Coming(p) /\ Going(p)' = Going(p)
         /\ th[t].proc = p => /\ Coming(p)' = IF q \in ComingPcs THEN Coming(p) \cup {t} ELSE Coming(p) \ {t}
                              /\ Going(p)' = IF q \in GoingPcs THEN Going(p) \cup {t} ELSE Going(p) \ {t}
         /\ t \in Coming(p) <=> th[t].proc = p /\ th[t].pc \in ComingPcs
         /\ t \in Going(p) <=> th[t].proc = p /\ th[t].pc \in GoingPcs
<1>1. /\ Coming(p)' = {u \in Threads : th[u].proc = p /\ (IF u = t THEN q ELSE th[u].pc) \in ComingPcs}
      /\ Going(p)' = {u \in Threads : th[u].proc = p /\ (IF u = t THEN q ELSE th[u].pc) \in GoingPcs}
  BY DEF Coming, Going, Moves, Proc, ComingPcs, GoingPcs
<1>2. /\ Coming(p) = {u \in Threads : th[u].proc = p /\ th[u].pc \in ComingPcs}
      /\ Going(p) = {u \in Threads : th[u].proc = p /\ th[u].pc \in GoingPcs}
  BY DEF Coming, Going, Proc, ComingPcs, GoingPcs
<1> QED
  BY <1>1, <1>2

\* No segment is marked or unmarked.
LEMMA MarkedKept ==
  ASSUME TypeOK, NEW t \in Threads, NEW q, NEW s, Moves(t, q, s), bits' = bits,
         th[t].pc # "remark", q # "remark",
         \A x \in Segments : (x \in bits \/ \E u \in Threads : th[u].seg = x /\ th[u].pc = "remark") =>
           seg'[x].live = seg[x].live /\ seg'[x].subproc = seg[x].subproc,
         NEW p \in Subprocs
  PROVE  Marked(p)' = Marked(p)
<1>1. \A x : (\E u \in Threads : th'[u].seg = x /\ th'[u].pc = "remark")
              <=> (\E u \in Threads : th[u].seg = x /\ th[u].pc = "remark")
  BY DEF Moves
<1> QED
  BY <1>1 DEF Marked

\* A step that changes none of the terms of the count.
LEMMA CountKept ==
  ASSUME TypeOK, CountInv, NEW t \in Threads, NEW q, NEW s, Moves(t, q, s),
         th[t].pc \in ComingPcs <=> q \in ComingPcs, th[t].pc \in GoingPcs <=> q \in GoingPcs,
         \A p \in Subprocs : /\ Marked(p)' = Marked(p) /\ sub'[p].count = sub[p].count
                             /\ Len(sub'[p].list) = Len(sub[p].list)
  PROVE  CountInv'
<1>1. ASSUME NEW p \in Subprocs PROVE Coming(p)' = Coming(p) /\ Going(p)' = Going(p)
  <2>1. CASE th[t].proc # p
    BY <2>1, CountSetsNext
  <2>2. CASE th[t].proc = p
    <3>1. /\ Coming(p)' = IF q \in ComingPcs THEN Coming(p) \cup {t} ELSE Coming(p) \ {t}
          /\ Going(p)' = IF q \in GoingPcs THEN Going(p) \cup {t} ELSE Going(p) \ {t}
          /\ t \in Coming(p) <=> q \in ComingPcs
          /\ t \in Going(p) <=> q \in GoingPcs
      BY <2>2, CountSetsNext
    <3> QED
      BY <3>1
  <2> QED
    BY <2>1, <2>2
<1>2. ASSUME NEW p \in Subprocs
      PROVE  sub'[p].count + (Cardinality(Coming(p)') - Cardinality(Going(p)'))
               = Len(sub'[p].list) + Cardinality(Marked(p)')
  <2>1. /\ Coming(p)' = Coming(p) /\ Going(p)' = Going(p) /\ Marked(p)' = Marked(p)
        /\ sub'[p].count = sub[p].count /\ Len(sub'[p].list) = Len(sub[p].list)
    BY <1>1
  <2>2. sub[p].count + (Cardinality(Coming(p)) - Cardinality(Going(p)))
          = Len(sub[p].list) + Cardinality(Marked(p))
    BY DEF CountInv
  <2> QED
    BY <2>1, <2>2
<1> QED
  BY <1>2 DEF CountInv

\* Threads and segments that join or leave a set.
LEMMA OneMore == ASSUME NEW S, IsFiniteSet(S), NEW x, x \notin S PROVE Cardinality(S \cup {x}) = Cardinality(S) + 1
BY FS_AddElement

LEMMA OneLess == ASSUME NEW S, IsFiniteSet(S), NEW x, x \in S PROVE Cardinality(S \ {x}) = Cardinality(S) - 1
BY FS_RemoveElement

\* What a thread still owes the count, after it moves from one pc to another.
LEMMA ComingStep ==
  ASSUME TypeOK, NEW t \in Threads, NEW q, NEW s, Moves(t, q, s), NEW p \in Subprocs, th[t].proc = p
  PROVE  /\ (q \in ComingPcs <=> th[t].pc \in ComingPcs) => Cardinality(Coming(p)') = Cardinality(Coming(p))
         /\ q \in ComingPcs /\ th[t].pc \notin ComingPcs => Cardinality(Coming(p)') = Cardinality(Coming(p)) + 1
         /\ q \notin ComingPcs /\ th[t].pc \in ComingPcs => Cardinality(Coming(p)') = Cardinality(Coming(p)) - 1
<1>1. /\ Coming(p)' = IF q \in ComingPcs THEN Coming(p) \cup {t} ELSE Coming(p) \ {t}
      /\ t \in Coming(p) <=> th[t].pc \in ComingPcs
      /\ IsFiniteSet(Coming(p))
  BY CountSetsNext, CountSets
<1>2. CASE q \in ComingPcs <=> th[t].pc \in ComingPcs
  <2>1. Coming(p)' = Coming(p)
    BY <1>1, <1>2
  <2> QED
    BY <1>2, <2>1
<1>3. CASE q \in ComingPcs /\ th[t].pc \notin ComingPcs
  <2>1. Cardinality(Coming(p) \cup {t}) = Cardinality(Coming(p)) + 1
    BY <1>1, <1>3, OneMore
  <2> QED
    BY <1>1, <1>3, <2>1
<1>4. CASE q \notin ComingPcs /\ th[t].pc \in ComingPcs
  <2>1. Cardinality(Coming(p) \ {t}) = Cardinality(Coming(p)) - 1
    BY <1>1, <1>4, OneLess
  <2> QED
    BY <1>1, <1>4, <2>1
<1> QED
  BY <1>2, <1>3, <1>4

LEMMA GoingStep ==
  ASSUME TypeOK, NEW t \in Threads, NEW q, NEW s, Moves(t, q, s), NEW p \in Subprocs, th[t].proc = p
  PROVE  /\ (q \in GoingPcs <=> th[t].pc \in GoingPcs) => Cardinality(Going(p)') = Cardinality(Going(p))
         /\ q \in GoingPcs /\ th[t].pc \notin GoingPcs => Cardinality(Going(p)') = Cardinality(Going(p)) + 1
         /\ q \notin GoingPcs /\ th[t].pc \in GoingPcs => Cardinality(Going(p)') = Cardinality(Going(p)) - 1
<1>1. /\ Going(p)' = IF q \in GoingPcs THEN Going(p) \cup {t} ELSE Going(p) \ {t}
      /\ t \in Going(p) <=> th[t].pc \in GoingPcs
      /\ IsFiniteSet(Going(p))
  BY CountSetsNext, CountSets
<1>2. CASE q \in GoingPcs <=> th[t].pc \in GoingPcs
  <2>1. Going(p)' = Going(p)
    BY <1>1, <1>2
  <2> QED
    BY <1>2, <2>1
<1>3. CASE q \in GoingPcs /\ th[t].pc \notin GoingPcs
  <2>1. Cardinality(Going(p) \cup {t}) = Cardinality(Going(p)) + 1
    BY <1>1, <1>3, OneMore
  <2> QED
    BY <1>1, <1>3, <2>1
<1>4. CASE q \notin GoingPcs /\ th[t].pc \in GoingPcs
  <2>1. Cardinality(Going(p) \ {t}) = Cardinality(Going(p)) - 1
    BY <1>1, <1>4, OneLess
  <2> QED
    BY <1>1, <1>4, <2>1
<1> QED
  BY <1>2, <1>3, <1>4

\* The sum of a sub-process.
LEMMA CountNow ==
  ASSUME TypeOK, CountInv, NEW p \in Subprocs
  PROVE  /\ sub[p].count + (Cardinality(Coming(p)) - Cardinality(Going(p)))
              = Len(sub[p].list) + Cardinality(Marked(p))
         /\ Cardinality(Coming(p)) \in Int /\ Cardinality(Going(p)) \in Int /\ Cardinality(Marked(p)) \in Int
         /\ sub[p].count \in Int /\ Len(sub[p].list) \in Int
<1>1. /\ Cardinality(Coming(p)) \in Nat /\ Cardinality(Going(p)) \in Nat /\ Cardinality(Marked(p)) \in Nat
      /\ sub[p].count \in Int /\ Len(sub[p].list) \in Nat
  BY CountSets, SubprocFields
<1> QED
  BY <1>1 DEF CountInv

\* The ways in which the terms change together.
LEMMA CountMath ==
  ASSUME NEW a \in Int, NEW b \in Int, NEW c \in Int, NEW d \in Int, NEW e \in Int, a + (b - c) = d + e
  PROVE  /\ a + ((b + 1) - c) = d + (e + 1)
         /\ a + ((b + 1) - c) = (d + 1) + e
         /\ (a + 1) + ((b - 1) - c) = d + e
         /\ a + (b - (c + 1)) = d + (e - 1)
         /\ (a - 1) + (b - (c - 1)) = d + e
         /\ (a - 1) + (b - c) = (d - 1) + e
OBVIOUS

\* Terms of the sum of the sub-process of t change, and the sum still holds.
LEMMA CountStep ==
  ASSUME TypeOK, CountInv, NEW t \in Threads, NEW q, NEW s, Moves(t, q, s),
         NEW p0 \in Subprocs, th[t].proc = p0,
         sub'[p0].count + (Cardinality(Coming(p0)') - Cardinality(Going(p0)'))
           = Len(sub'[p0].list) + Cardinality(Marked(p0)'),
         \A p \in Subprocs : p # p0 =>
           /\ sub'[p].count = sub[p].count /\ Len(sub'[p].list) = Len(sub[p].list)
           /\ Marked(p)' = Marked(p)
  PROVE  CountInv'
<1>1. ASSUME NEW p \in Subprocs, p # p0
      PROVE  sub'[p].count + (Cardinality(Coming(p)') - Cardinality(Going(p)'))
               = Len(sub'[p].list) + Cardinality(Marked(p)')
  <2>1. Coming(p)' = Coming(p) /\ Going(p)' = Going(p)
    BY <1>1, CountSetsNext
  <2>2. sub[p].count + (Cardinality(Coming(p)) - Cardinality(Going(p)))
          = Len(sub[p].list) + Cardinality(Marked(p))
    BY DEF CountInv
  <2>3. /\ sub'[p].count = sub[p].count /\ Len(sub'[p].list) = Len(sub[p].list)
        /\ Marked(p)' = Marked(p)
    BY <1>1
  <2> QED
    BY <2>1, <2>2, <2>3
<1> QED
  BY <1>1 DEF CountInv

-----------------------------------------------------------------------------
(* One segment, one sub-process, one thread change.                         *)

LEMMA SegStep ==
  ASSUME TypeOK, NEW x \in Segments, NEW new \in SegmentRecords, seg' = [seg EXCEPT ![x] = new]
  PROVE  /\ seg' \in [Segments -> SegmentRecords] /\ seg'[x] = new
         /\ \A y \in Segments : y # x => seg'[y] = seg[y]
BY DEF TypeOK

LEMMA SubStep ==
  ASSUME TypeOK, NEW p \in Subprocs, NEW new \in SubprocRecords, sub' = [sub EXCEPT ![p] = new]
  PROVE  /\ sub' \in [Subprocs -> SubprocRecords] /\ sub'[p] = new
         /\ \A r \in Subprocs : r # p => sub'[r] = sub[r]
BY DEF TypeOK

LEMMA TypeStep ==
  ASSUME TypeOK, NEW t \in Threads, NEW q, NEW s, Moves(t, q, s),
         q \in HolderPcs \cup FreePcs => s \in Segments,
         seg' \in [Segments -> SegmentRecords], bits' \subseteq ArenaSegments,
         sub' \in [Subprocs -> SubprocRecords], arenaLock' \in Threads \cup {Nobody},
         part' \in Threads \cup {Nobody},
         map' \in [Threads \cup {Nobody} -> SUBSET OsSegments], td_cache' \in [Slots -> Datas \cup {Nobody}]
  PROVE  TypeOK'
<1>1. th' \in [Threads -> ThreadRecords]
  BY DEF Moves
<1>2. \A u \in Threads : th'[u].pc \in HolderPcs \cup FreePcs => th'[u].seg \in Segments
  BY DEF Moves, TypeOK
<1> QED
  BY <1>1, <1>2 DEF TypeOK

\* Nobody but t holds a segment that t holds or owns, that is abandoned, or that
\* is not there.
LEMMA NotHeld ==
  ASSUME TypeOK, HoldInv, NEW t \in Threads, NEW x \in Segments,
         \/ th[t].pc \in HolderPcs /\ th[t].seg = x
         \/ x \in bits
         \/ \E p \in Subprocs : x \in Elems(sub[p].list)
         \/ ~seg[x].live
         \/ seg[x].thread_id = t
  PROVE  \A u \in Threads : u # t => ~(th[u].pc \in HolderPcs /\ th[u].seg = x)
<1>1. SUFFICES ASSUME NEW u \in Threads, u # t, th[u].pc \in HolderPcs, th[u].seg = x
               PROVE  FALSE
  OBVIOUS
<1>2. /\ seg[x].live /\ x \notin bits /\ \A p \in Subprocs : x \notin Elems(sub[p].list)
      /\ seg[x].thread_id \in {u, Nobody}
  BY <1>1 DEF HoldInv, HeldApart
<1>3. th[t].pc \in HolderPcs /\ th[t].seg = x
  BY <1>1, <1>2, Known
<1> QED
  BY <1>1, <1>3 DEF HoldInv, OneAlone

\* No segment changes hands.
LEMMA HoldKept ==
  ASSUME TypeOK, HoldInv, NEW t \in Threads, NEW q, NEW s, Moves(t, q, s),
         q \notin HolderPcs, th[t].pc \notin HolderPcs,
         q = "clear_os" => s \in OsSegments,
         \A y \in Segments : /\ seg'[y].live = seg[y].live /\ seg'[y].thread_id = seg[y].thread_id
                             /\ seg'[y].subproc = seg[y].subproc,
         bits' = bits, \A p \in Subprocs : sub'[p].list = sub[p].list
  PROVE  HoldInv'
<1>1. \A u \in Threads : /\ th'[u].pc \in HolderPcs <=> th[u].pc \in HolderPcs
                         /\ th'[u].pc \in HolderPcs => th'[u].pc = th[u].pc /\ th'[u].seg = th[u].seg
                         /\ th[u].pc \in HolderPcs => th[u].seg \in Segments
  BY DEF Moves, TypeOK
<1>2. OneAlone'
  BY <1>1 DEF HoldInv, OneAlone
<1>3. HeldApart'
  <2> SUFFICES ASSUME NEW u \in Threads, th'[u].pc \in HolderPcs
               PROVE  /\ seg'[th'[u].seg].live /\ th'[u].seg \notin bits'
                      /\ \A p \in Subprocs : th'[u].seg \notin Elems(sub'[p].list)
                      /\ seg'[th'[u].seg].thread_id \in {u, Nobody}
                      /\ th'[u].pc \in {"map_cas", "map_set", "os_free"} => seg'[th'[u].seg].thread_id = u
                      /\ th'[u].pc \notin {"map_cas", "map_set", "os_free", "mark"} =>
                           seg'[th'[u].seg].thread_id = Nobody
    BY DEF HeldApart, Elems
  <2>1. th'[u].pc = th[u].pc /\ th'[u].seg = th[u].seg /\ th[u].seg \in Segments
    BY <1>1
  <2>2. seg'[th[u].seg].live = seg[th[u].seg].live /\ seg'[th[u].seg].thread_id = seg[th[u].seg].thread_id
    BY <2>1
  <2> QED
    BY <2>1, <2>2 DEF HoldInv, HeldApart
<1>4. BitsAbandoned'
  BY DEF HoldInv, BitsAbandoned, TypeOK, Segments
<1>5. ListsAbandoned'
  <2>1. \A p \in Subprocs : \A y \in Elems(sub[p].list) : y \in Segments
    BY SubprocFields, ElementOfSeq, Known DEF Elems
  <2> QED
    BY <2>1 DEF HoldInv, ListsAbandoned, Elems, NoDup
<1>6. NoneForgotten'
  <2>1. \A y \in Segments : (InList(y)' <=> InList(y)) /\ (Held(y)' <=> Held(y))
    BY <1>1 DEF InList, Elems, Held
  <2> QED
    BY <2>1 DEF HoldInv, NoneForgotten
<1>7. InRightPlace'
  BY DEF HoldInv, InRightPlace, Moves, HolderPcs
<1> QED
  BY <1>2, <1>3, <1>4, <1>5, <1>6, <1>7 DEF HoldInv

\* A step leaves every segment but x where it is.
SameElsewhere(x) ==
  /\ \A y \in Segments : y # x =>
       /\ seg'[y].live = seg[y].live /\ seg'[y].thread_id = seg[y].thread_id
       /\ seg'[y].subproc = seg[y].subproc
       /\ y \in bits' <=> y \in bits
       /\ \A p \in Subprocs : y \in Elems(sub'[p].list) <=> y \in Elems(sub[p].list)
  /\ bits' \subseteq ArenaSegments
  /\ \A p \in Subprocs : NoDup(sub'[p].list) /\ Elems(sub'[p].list) \subseteq Segments

\* Where x is after a step of thread t to q.
Placed(t, q, x) ==
  /\ x \in bits' => seg'[x].live /\ seg'[x].thread_id = Nobody
  /\ \A p \in Subprocs : x \in Elems(sub'[p].list) =>
       seg'[x].live /\ seg'[x].thread_id = Nobody /\ seg'[x].subproc = p
  /\ seg'[x].thread_id # Nobody => seg'[x].live
  /\ seg'[x].live /\ seg'[x].thread_id = Nobody =>
       x \in bits' \/ (\E p \in Subprocs : x \in Elems(sub'[p].list)) \/ q \in HolderPcs
  /\ q \in HolderPcs =>
       /\ seg'[x].live /\ x \notin bits' /\ \A p \in Subprocs : x \notin Elems(sub'[p].list)
       /\ seg'[x].thread_id \in {t, Nobody}
       /\ q \in {"map_cas", "map_set", "os_free"} => seg'[x].thread_id = t
       /\ q \notin {"map_cas", "map_set", "os_free", "mark"} => seg'[x].thread_id = Nobody
  /\ q \in {"mark_bit", "clear_count", "clear_own", "bit_count", "remark"} => x \in ArenaSegments
  /\ q \in {"mark_lock", "mark_push", "popped", "map_cas", "map_set"} => x \in OsSegments
  /\ q # "clear_os"

\* Thread t takes, returns, makes or ends segment x, and no other one.
LEMMA HoldStep ==
  ASSUME TypeOK, HoldInv, NEW t \in Threads, NEW q, NEW s, Moves(t, q, s), NEW x \in Segments,
         th[t].pc \in HolderPcs => th[t].seg = x, q \in HolderPcs => s = x,
         \A u \in Threads : u # t => ~(th[u].pc \in HolderPcs /\ th[u].seg = x),
         SameElsewhere(x), Placed(t, q, x)
  PROVE  HoldInv'
<1> USE DEF SameElsewhere, Placed
<1>1. \A u \in Threads : u # t => th'[u] = th[u]
  BY DEF Moves
<1>0. th'[t].pc = q /\ th'[t].seg = s
  BY DEF Moves
<1>2. \A u \in Threads : u # t /\ th[u].pc \in HolderPcs => th[u].seg \in Segments /\ th[u].seg # x
  BY DEF TypeOK
<1>3. OneAlone'
  BY <1>0, <1>1, <1>2 DEF HoldInv, OneAlone
<1>4. HeldApart'
  <2> SUFFICES ASSUME NEW u \in Threads, th'[u].pc \in HolderPcs
               PROVE  /\ seg'[th'[u].seg].live /\ th'[u].seg \notin bits'
                      /\ \A p \in Subprocs : th'[u].seg \notin Elems(sub'[p].list)
                      /\ seg'[th'[u].seg].thread_id \in {u, Nobody}
                      /\ th'[u].pc \in {"map_cas", "map_set", "os_free"} => seg'[th'[u].seg].thread_id = u
                      /\ th'[u].pc \notin {"map_cas", "map_set", "os_free", "mark"} =>
                           seg'[th'[u].seg].thread_id = Nobody
    BY DEF HeldApart, Elems
  <2>1. CASE u = t
    BY <1>0, <2>1
  <2>2. CASE u # t
    <3>1. th'[u] = th[u] /\ th[u].seg \in Segments /\ th[u].seg # x
      BY <1>1, <1>2, <2>2
    <3>2. /\ seg'[th[u].seg].live = seg[th[u].seg].live
          /\ seg'[th[u].seg].thread_id = seg[th[u].seg].thread_id
          /\ th[u].seg \in bits' <=> th[u].seg \in bits
          /\ \A p \in Subprocs : th[u].seg \in Elems(sub'[p].list) <=> th[u].seg \in Elems(sub[p].list)
      BY <3>1
    <3> QED
      BY <3>1, <3>2 DEF HoldInv, HeldApart
  <2> QED
    BY <2>1, <2>2
<1>5. BitsAbandoned'
  BY Known DEF HoldInv, BitsAbandoned
<1>6. ListsAbandoned'
  <2>1. ASSUME NEW p \in Subprocs, NEW y \in Elems(sub'[p].list)
        PROVE  seg'[y].live /\ seg'[y].thread_id = Nobody /\ seg'[y].subproc = p
    <3>1. y \in Segments
      BY <2>1
    <3>2. CASE y = x
      BY <3>2
    <3>3. CASE y # x
      <4>1. y \in Elems(sub[p].list)
        BY <3>1, <3>3
      <4> QED
        BY <3>1, <3>3, <4>1 DEF HoldInv, ListsAbandoned
    <3> QED
      BY <3>2, <3>3
  <2> QED
    BY <2>1 DEF ListsAbandoned, Elems, NoDup
<1>7. NoneForgotten'
  <2> SUFFICES ASSUME NEW y \in Segments
               PROVE  /\ seg'[y].thread_id # Nobody => seg'[y].live
                      /\ seg'[y].live /\ seg'[y].thread_id = Nobody =>
                           y \in bits' \/ InList(y)' \/ Held(y)'
    BY DEF NoneForgotten
  <2>1. InList(y)' <=> \E p \in Subprocs : y \in Elems(sub'[p].list)
    BY DEF InList, Elems
  <2>2. Held(y)' <=> \E u \in Threads : th'[u].pc \in HolderPcs /\ th'[u].seg = y
    BY DEF Held
  <2>3. CASE y = x
    BY <1>0, <2>1, <2>2, <2>3
  <2>4. CASE y # x
    <3>1. InList(y) <=> InList(y)'
      BY <2>1, <2>4 DEF InList
    <3>2. Held(y) => Held(y)'
      BY <1>0, <1>1, <2>2, <2>4 DEF Held
    <3>3. /\ seg[y].thread_id # Nobody => seg[y].live
          /\ seg[y].live /\ seg[y].thread_id = Nobody => y \in bits \/ InList(y) \/ Held(y)
      BY DEF HoldInv, NoneForgotten
    <3> QED
      BY <2>4, <3>1, <3>2, <3>3
  <2> QED
    BY <2>3, <2>4
<1>8. InRightPlace'
  BY <1>0, <1>1 DEF HoldInv, InRightPlace, HolderPcs
<1> QED
  BY <1>3, <1>4, <1>5, <1>6, <1>7, <1>8 DEF HoldInv

\* The blocks of segment x change, or the threads that free one of them.
LEMMA PinStep ==
  ASSUME TypeOK, PinInv, NEW t \in Threads, NEW q, NEW s, Moves(t, q, s), NEW x \in Segments,
         th[t].pc \in FreePcs => th[t].seg = x, q \in FreePcs \cup ZeroPcs => s = x,
         \A y \in Segments : y # x => seg'[y].live = seg[y].live /\ seg'[y].blocks = seg[y].blocks,
         seg'[x].blocks >= Cardinality(Freeing(x)'), seg'[x].blocks > 0 => seg'[x].live,
         q \in ZeroPcs => seg'[x].blocks = 0,
         \A u \in Threads : u # t /\ th[u].pc \in ZeroPcs /\ th[u].seg = x => seg'[x].blocks = 0
  PROVE  PinInv'
<1>1. ASSUME NEW y \in Segments, y # x PROVE Freeing(y)' = Freeing(y)
  BY <1>1, FreeingNext DEF Freeing, FreePcs
<1>2. \A y \in Segments : seg'[y].blocks >= Cardinality(Freeing(y)') /\ (seg'[y].blocks > 0 => seg'[y].live)
  BY <1>1 DEF PinInv
<1>3. \A u \in Threads : th'[u].pc \in ZeroPcs => seg'[th'[u].seg].blocks = 0
  <2>1. \A u \in Threads : th[u].pc \in ZeroPcs => th[u].seg \in Segments /\ seg[th[u].seg].blocks = 0
    BY DEF TypeOK, ZeroPcs, MapPcs, HolderPcs, PinInv
  <2>2. /\ \A u \in Threads : u # t => th'[u] = th[u]
        /\ th'[t].pc = q /\ th'[t].seg = s
    BY DEF Moves
  <2> QED
    BY <2>1, <2>2
<1> QED
  BY <1>2, <1>3 DEF PinInv, ZeroPcs

\* How many threads are about to free a block of x.
LEMMA FreeingStep ==
  ASSUME TypeOK, NEW t \in Threads, NEW q, NEW s, Moves(t, q, s), NEW x \in Segments
  PROVE  /\ (q \in FreePcs /\ s = x <=> th[t].pc \in FreePcs /\ th[t].seg = x) =>
              Cardinality(Freeing(x)') = Cardinality(Freeing(x))
         /\ q \in FreePcs /\ s = x /\ th[t].pc \notin FreePcs =>
              Cardinality(Freeing(x)') = Cardinality(Freeing(x)) + 1
         /\ q \notin FreePcs /\ th[t].pc \in FreePcs /\ th[t].seg = x =>
              Cardinality(Freeing(x)') = Cardinality(Freeing(x)) - 1 /\ Cardinality(Freeing(x)) > 0
<1>1. /\ Freeing(x)' = {u \in Threads : /\ (IF u = t THEN s ELSE th[u].seg) = x
                                        /\ (IF u = t THEN q ELSE th[u].pc) \in FreePcs}
      /\ Freeing(x) = {u \in Threads : th[u].seg = x /\ th[u].pc \in FreePcs}
      /\ IsFiniteSet(Freeing(x)) /\ Cardinality(Freeing(x)) \in Nat
  BY FreeingNext, FreeingFinite DEF Freeing, FreePcs
<1>2. CASE q \in FreePcs /\ s = x <=> th[t].pc \in FreePcs /\ th[t].seg = x
  <2>1. Freeing(x)' = Freeing(x)
    BY <1>1, <1>2
  <2> QED
    BY <1>2, <2>1
<1>3. CASE q \in FreePcs /\ s = x /\ th[t].pc \notin FreePcs
  <2>1. Freeing(x)' = Freeing(x) \cup {t} /\ t \notin Freeing(x)
    BY <1>1, <1>3
  <2>2. Cardinality(Freeing(x) \cup {t}) = Cardinality(Freeing(x)) + 1
    BY <1>1, <2>1, OneMore
  <2> QED
    BY <1>3, <2>1, <2>2
<1>4. CASE q \notin FreePcs /\ th[t].pc \in FreePcs /\ th[t].seg = x
  <2>1. Freeing(x)' = Freeing(x) \ {t} /\ t \in Freeing(x)
    BY <1>1, <1>4
  <2>2. Cardinality(Freeing(x) \ {t}) = Cardinality(Freeing(x)) - 1
    BY <1>1, <2>1, OneLess
  <2>3. Cardinality(Freeing(x)) # 0
    BY <1>1, <2>1, FS_EmptySet
  <2>4. Cardinality(Freeing(x)) > 0
    BY <1>1, <2>3
  <2>5. Cardinality(Freeing(x)') = Cardinality(Freeing(x)) - 1
    BY <2>1, <2>2
  <2> QED
    BY <1>4, <2>4, <2>5
<1> QED
  BY <1>2, <1>3, <1>4

\* Thread t takes, uses or releases the lock of its sub-process.
LEMMA LockStep ==
  ASSUME TypeOK, LockInv, NEW t \in Threads, NEW q, NEW s, Moves(t, q, s),
         NEW p0 \in Subprocs, th[t].proc = p0, sub[p0].lock = Nobody \/ th[t].pc \in LockPcs,
         q \in LockPcs => sub'[p0].lock = t, q \notin LockPcs => sub'[p0].lock = Nobody,
         q = "popped" => sub'[p0].os_count = Len(sub'[p0].list) + 1,
         q # "popped" => sub'[p0].os_count = Len(sub'[p0].list), Len(sub'[p0].list) \in Nat,
         \A p \in Subprocs : p # p0 => sub'[p] = sub[p]
  PROVE  LockInv'
<1>1. /\ \A u \in Threads : u # t => th'[u] = th[u]
      /\ th'[t].pc = q /\ th'[t].proc = p0
  BY DEF Moves
<1>2. \A u \in Threads : u # t /\ th[u].proc = p0 => th[u].pc \notin LockPcs
  BY Known DEF LockInv
<1>3. \A u \in Threads : th'[u].pc \in LockPcs => sub'[th'[u].proc].lock = u
  BY <1>1, <1>2, ThreadFields DEF LockInv
<1>4. \A p \in Subprocs, u \in Threads : sub'[p].lock = u => th'[u].proc = p /\ th'[u].pc \in LockPcs
  <2> SUFFICES ASSUME NEW p \in Subprocs, NEW u \in Threads, sub'[p].lock = u
               PROVE  th'[u].proc = p /\ th'[u].pc \in LockPcs
    OBVIOUS
  <2>1. CASE p = p0
    BY <1>1, <2>1, Known
  <2>2. CASE p # p0
    <3>1. sub[p].lock = u
      BY <2>2
    <3>2. th[u].proc = p /\ th[u].pc \in LockPcs
      BY <3>1 DEF LockInv
    <3> QED
      BY <1>1, <2>2, <3>2
  <2> QED
    BY <2>1, <2>2
<1>5. ASSUME NEW p \in Subprocs
      PROVE  sub'[p].os_count = Len(sub'[p].list)
               + (IF \E u \in Threads : th'[u].proc = p /\ th'[u].pc = "popped" THEN 1 ELSE 0)
  <2>1. CASE p = p0
    <3> DEFINE out == \E u \in Threads : th'[u].proc = p /\ th'[u].pc = "popped"
    <3>1. out <=> q = "popped"
      BY <1>1, <1>2, <2>1 DEF LockPcs
    <3> HIDE DEF out
    <3>4. sub'[p].os_count = Len(sub'[p].list) + (IF out THEN 1 ELSE 0)
      <4>1. CASE q = "popped"
        BY <2>1, <3>1, <4>1
      <4>2. CASE q # "popped"
        <5>1. (IF out THEN 1 ELSE 0) = 0
          BY <3>1, <4>2
        <5>2. sub'[p].os_count = Len(sub'[p].list) /\ Len(sub'[p].list) \in Nat
          BY <2>1, <4>2
        <5> DEFINE n == Len(sub'[p].list)
        <5> HIDE DEF n
        <5>3. sub'[p].os_count = n + 0
          BY <5>2 DEF n
        <5> QED
          BY <5>1, <5>3 DEF n
      <4> QED
        BY <4>1, <4>2
    <3> QED
      BY <3>4 DEF out
  <2>2. CASE p # p0
    <3>1. (\E u \in Threads : th'[u].proc = p /\ th'[u].pc = "popped")
            <=> \E u \in Threads : th[u].proc = p /\ th[u].pc = "popped"
      BY <1>1, <2>2
    <3>2. sub'[p] = sub[p]
      BY <2>2
    <3>3. sub[p].os_count = Len(sub[p].list)
            + (IF \E u \in Threads : th[u].proc = p /\ th[u].pc = "popped" THEN 1 ELSE 0)
      BY DEF LockInv
    <3> QED
      BY <3>1, <3>2, <3>3
  <2> QED
    BY <2>1, <2>2
<1> QED
  BY <1>3, <1>4, <1>5 DEF LockInv

\* Thread t takes or gives up segments of its own sub-process.
LEMMA SubprocStep ==
  ASSUME TypeOK, SubprocInv, NEW t \in Threads, NEW q, NEW s, Moves(t, q, s),
         q \in WorkPcs => s \in Segments /\ seg[s].subproc = th[t].proc,
         \A x \in Segments :
           /\ seg'[x].subproc = seg[x].subproc
           /\ seg'[x].thread_id \in {seg[x].thread_id, Nobody}
              \/ (seg'[x].thread_id = t /\ seg[x].subproc = th[t].proc)
  PROVE  SubprocInv'
<1>1. \A u \in Threads : /\ th'[u].proc = th[u].proc
                         /\ u # t => th'[u].pc = th[u].pc /\ th'[u].seg = th[u].seg
                         /\ th[u].pc \in WorkPcs => th[u].seg \in Segments
  BY DEF Moves, TypeOK, WorkPcs
<1>2. \A u \in Threads : th'[u].pc \in WorkPcs => seg'[th'[u].seg].subproc = th'[u].proc
  BY <1>1 DEF SubprocInv, Moves, WorkPcs
<1>3. \A x \in Segments, u \in Threads : seg'[x].thread_id = u => seg'[x].subproc = th'[u].proc
  BY <1>1, Known DEF SubprocInv
<1> QED
  BY <1>2, <1>3 DEF SubprocInv, WorkPcs

\* What a thread does on its own: it starts, ends, joins a sub-process, or walks.
QuietPcs == PlainPcs \ {"mark_count"}
SameSubprocs == \A p \in Subprocs :
  /\ sub'[p].list = sub[p].list /\ sub'[p].count = sub[p].count
  /\ sub'[p].os_count = sub[p].os_count /\ sub'[p].lock = sub[p].lock

LEMMA QuietKept ==
  ASSUME TypeOK, HoldInv, PinInv, MapInv, LockInv, SubprocInv, CountInv,
         NEW t \in Threads, \A u \in Threads : u # t => th'[u] = th[u],
         th' \in [Threads -> ThreadRecords], sub' \in [Subprocs -> SubprocRecords],
         th[t].pc \in QuietPcs, th'[t].pc \in QuietPcs,
         th'[t].proc = th[t].proc \/ Owned(t) = {},
         UNCHANGED <<seg, bits, part, map>>, SameSubprocs
  PROVE  HoldInv' /\ PinInv' /\ MapInv' /\ LockInv' /\ SubprocInv' /\ CountInv'
<1> DEFINE q == th'[t].pc
<1>0. q \notin HolderPcs /\ q \notin FreePcs /\ q \notin LockPcs
  BY DEF QuietPcs, PlainPcs, HolderPcs, FreePcs, LockPcs
<1>1. th[t].pc \notin HolderPcs /\ th[t].pc \notin FreePcs /\ th[t].pc \notin LockPcs
  BY DEF QuietPcs, PlainPcs, HolderPcs, FreePcs, LockPcs
<1>2. \A u \in Threads : /\ th'[u].pc \in HolderPcs \cup FreePcs \cup LockPcs <=> th[u].pc \in HolderPcs \cup FreePcs \cup LockPcs
                         /\ th'[u].pc \in HolderPcs \cup FreePcs \cup LockPcs => th'[u] = th[u]
  BY <1>0, <1>1
<1>3. HoldInv'
  <2>1. \A u \in Threads : /\ th'[u].pc \in HolderPcs <=> th[u].pc \in HolderPcs
                           /\ th'[u].pc \in HolderPcs => th'[u] = th[u]
    BY <1>0, <1>1
  <2>2. OneAlone' /\ HeldApart'
    BY <2>1 DEF HoldInv, OneAlone, HeldApart, SameSubprocs, Elems
  <2>3. BitsAbandoned'
    BY DEF HoldInv, BitsAbandoned
  <2>4. ListsAbandoned'
    BY DEF HoldInv, ListsAbandoned, SameSubprocs, Elems, NoDup
  <2>5. \A y : (InList(y)' <=> InList(y)) /\ (Held(y)' <=> Held(y))
    BY <2>1 DEF InList, Held, SameSubprocs, Elems
  <2>6. NoneForgotten'
    BY <2>5 DEF HoldInv, NoneForgotten
  <2>7. InRightPlace'
    BY <1>2 DEF HoldInv, InRightPlace, HolderPcs, FreePcs
  <2> QED
    BY <2>2, <2>3, <2>4, <2>6, <2>7 DEF HoldInv
<1>4. PinInv'
  <2>1. ASSUME NEW x \in Segments PROVE Freeing(x)' = Freeing(x)
    BY <1>2 DEF Freeing, FreePcs
  <2>2. \A u \in Threads : th'[u].pc \in ZeroPcs => th'[u] = th[u] /\ th[u].pc \in ZeroPcs
    BY <1>2 DEF ZeroPcs, MapPcs, HolderPcs
  <2> QED
    BY <2>1, <2>2 DEF PinInv, ZeroPcs
<1>5. MapInv'
  <2>1. \A u \in Threads : /\ th'[u].pc \in MapPcs <=> th[u].pc \in MapPcs
                           /\ th'[u].pc \in MapPcs => th'[u] = th[u]
    BY <1>2 DEF MapPcs, HolderPcs
  <2>2. \A x : Noted(x)' <=> Noted(x)
    BY DEF Noted, SegmentOf
  <2>3. \A u \in Threads : th'[u].pc = "map_set" => part' # Nobody
    BY <2>1 DEF MapInv, MapPcs
  <2>4. ASSUME NEW x \in OsSegments
        PROVE  Noted(x)' <=> seg'[x].live /\ \A u \in Threads : th'[u].pc \in MapPcs => th'[u].seg # x
    BY <2>1, <2>2 DEF MapInv
  <2> QED
    BY <2>3, <2>4 DEF MapInv, SegmentOf
<1>6. LockInv'
  <2>1. \A u \in Threads : /\ th'[u].pc \in LockPcs <=> th[u].pc \in LockPcs
                           /\ th'[u].pc \in LockPcs => th'[u] = th[u]
                           /\ th[u].proc \in Subprocs
    BY <1>2, ThreadFields
  <2>2. \A u \in Threads : th'[u].pc \in LockPcs => sub'[th'[u].proc].lock = u
    BY <2>1 DEF LockInv, SameSubprocs
  <2>3. \A p \in Subprocs, u \in Threads : sub'[p].lock = u => th'[u].proc = p /\ th'[u].pc \in LockPcs
    BY <2>1 DEF LockInv, SameSubprocs
  <2>4. ASSUME NEW p \in Subprocs
        PROVE  sub'[p].os_count = Len(sub'[p].list)
                 + (IF \E u \in Threads : th'[u].proc = p /\ th'[u].pc = "popped" THEN 1 ELSE 0)
    <3>1. (\E u \in Threads : th'[u].proc = p /\ th'[u].pc = "popped")
            <=> \E u \in Threads : th[u].proc = p /\ th[u].pc = "popped"
      BY <2>1 DEF LockPcs
    <3>2. sub[p].os_count = Len(sub[p].list)
            + (IF \E u \in Threads : th[u].proc = p /\ th[u].pc = "popped" THEN 1 ELSE 0)
      BY DEF LockInv
    <3>3. sub'[p].os_count = sub[p].os_count /\ sub'[p].list = sub[p].list
      BY DEF SameSubprocs
    <3> QED
      BY <3>1, <3>2, <3>3
  <2> QED
    BY <2>2, <2>3, <2>4 DEF LockInv
<1>7. SubprocInv'
  <2>1. \A u \in Threads : th'[u].pc \in WorkPcs => th'[u] = th[u] /\ th[u].pc \in WorkPcs
    BY <1>2 DEF WorkPcs
  <2>2. \A x \in Segments : seg[x].thread_id = t /\ Owned(t) = {} => FALSE
    BY Known DEF Owned, HoldInv, NoneForgotten
  <2>3. \A x \in Segments, u \in Threads : seg'[x].thread_id = u => seg'[x].subproc = th'[u].proc
    BY <2>2 DEF SubprocInv
  <2>4. \A u \in Threads : th'[u].pc \in WorkPcs => seg'[th'[u].seg].subproc = th'[u].proc
    BY <2>1 DEF SubprocInv, WorkPcs
  <2> QED
    BY <2>3, <2>4 DEF SubprocInv, WorkPcs
<1>8. CountInv'
  <2>1. \A u \in Threads : /\ th'[u].pc \in ComingPcs <=> th[u].pc \in ComingPcs
                           /\ th'[u].pc \in GoingPcs <=> th[u].pc \in GoingPcs
                           /\ th'[u].pc \in ComingPcs \cup GoingPcs => th'[u] = th[u]
                           /\ th'[u].pc = "remark" <=> th[u].pc = "remark"
                           /\ th'[u].pc = "remark" => th'[u] = th[u]
    BY DEF ComingPcs, GoingPcs, QuietPcs, PlainPcs
  <2>2. ASSUME NEW p \in Subprocs
        PROVE  Coming(p)' = Coming(p) /\ Going(p)' = Going(p) /\ Marked(p)' = Marked(p)
    <3>1. Coming(p)' = Coming(p)
      BY <2>1 DEF Coming, Proc, ComingPcs
    <3>2. Going(p)' = Going(p)
      BY <2>1 DEF Going, Proc, GoingPcs
    <3>3. Marked(p)' = Marked(p)
      BY <2>1 DEF Marked
    <3> QED
      BY <3>1, <3>2, <3>3
  <2>3. ASSUME NEW p \in Subprocs
        PROVE  sub'[p].count + (Cardinality(Coming(p)') - Cardinality(Going(p)'))
                 = Len(sub'[p].list) + Cardinality(Marked(p)')
    <3>1. sub[p].count + (Cardinality(Coming(p)) - Cardinality(Going(p)))
            = Len(sub[p].list) + Cardinality(Marked(p))
      BY DEF CountInv
    <3>2. sub'[p].count = sub[p].count /\ sub'[p].list = sub[p].list
      BY DEF SameSubprocs
    <3> QED
      BY <2>2, <3>1, <3>2
  <2> QED
    BY <2>3 DEF CountInv
<1> QED
  BY <1>3, <1>4, <1>5, <1>6, <1>7, <1>8

-----------------------------------------------------------------------------
(* Threads start and end, and the walks of the cursor that change nothing.  *)

LEMMA Parts ==
  ASSUME IInv
  PROVE  HoldInv /\ PinInv /\ MapInv /\ LockInv /\ SubprocInv /\ CountInv /\ DataInv
BY DEF IInv

LEMMA PcSets ==
  /\ HolderPcs \subseteq Pcs /\ FreePcs \subseteq Pcs /\ LockPcs \subseteq Pcs /\ PlainPcs \subseteq Pcs
  /\ QuietPcs = {"none", "exchange", "zalloc", "idle", "cursor", "next", "bit"} /\ QuietPcs \subseteq Pcs
BY DEF Pcs, QuietPcs, PlainPcs

\* One record of th changes.
LEMMA ThStep ==
  ASSUME TypeOK, NEW t \in Threads, NEW new \in ThreadRecords, th' = [th EXCEPT ![t] = new]
  PROVE  /\ th' \in [Threads -> ThreadRecords] /\ th'[t] = new
         /\ \A u \in Threads : u # t => th'[u] = th[u]
BY DEF TypeOK

LEMMA QuietStep ==
  ASSUME TypeOK, IInv, NEW t \in Threads, NEW new \in ThreadRecords, th' = [th EXCEPT ![t] = new],
         sub' \in [Subprocs -> SubprocRecords], th[t].pc \in QuietPcs, new.pc \in QuietPcs,
         new.proc = th[t].proc \/ Owned(t) = {}, UNCHANGED <<seg, bits, part, map>>, SameSubprocs,
         arenaLock' \in Threads \cup {Nobody}, td_cache' \in [Slots -> Datas \cup {Nobody}],
         DataInv'
  PROVE  TypeOK' /\ IInv'
<1>1. /\ th' \in [Threads -> ThreadRecords] /\ th'[t] = new
      /\ \A u \in Threads : u # t => th'[u] = th[u]
  BY ThStep
<1>2. HoldInv' /\ PinInv' /\ MapInv' /\ LockInv' /\ SubprocInv' /\ CountInv'
  BY <1>1, Parts, QuietKept
<1>3. new.pc \notin HolderPcs \cup FreePcs
  BY PcSets DEF HolderPcs, FreePcs
<1>4. \A u \in Threads : th'[u].pc \in HolderPcs \cup FreePcs => th'[u].seg \in Segments
  BY <1>1, <1>3 DEF TypeOK
<1>5. TypeOK'
  BY <1>1, <1>4 DEF TypeOK
<1> QED
  BY <1>2, <1>5 DEF IInv

\* The data of the threads and of the cache stay as they are.
LEMMA DataSame ==
  ASSUME DataInv, NEW t \in Threads, NEW new, \A u \in Threads : u # t => th'[u] = th[u],
         th'[t] = new, new.td = th[t].td, new.pc # "exchange" \/ new.cur.at \in Slots, td_cache' = td_cache
  PROVE  DataInv'
<1>1. \A u \in Threads : th'[u].td = th[u].td
  OBVIOUS
<1>2. DataUnique'
  BY <1>1 DEF DataInv, DataUnique
<1> QED
  BY <1>2 DEF DataInv

LEMMA ThreadInitInv ==
  ASSUME TypeOK, IInv, NEW t \in Threads, NEW i \in Slots, ThreadInit(t, i)
  PROVE  TypeOK' /\ IInv'
<1> DEFINE cur == [th[t].cur EXCEPT !.at = i]
           new == [th[t] EXCEPT !.pc = "exchange", !.cur = cur]
<1>1. th' = [th EXCEPT ![t] = new]
  BY ZenonT(60) DEF ThreadInit, TypeOK, ThreadRecords, Cursors
<1>2. cur \in Cursors /\ cur.at = i
  BY ThreadFields DEF Cursors
<1> HIDE DEF cur
<1>3. /\ new \in ThreadRecords /\ new.pc = "exchange" /\ new.cur = cur /\ new.td = th[t].td
      /\ new.proc = th[t].proc
  BY <1>2, ThreadFields, PcSets DEF ThreadRecords
<1> HIDE DEF new
<1>5. th'[t] = new /\ \A u \in Threads : u # t => th'[u] = th[u]
  BY <1>1, <1>3, ThStep
<1>4. DataInv'
  BY <1>2, <1>3, <1>5, Parts, DataSame DEF ThreadInit
<1> QED
  BY <1>1, <1>3, <1>4, QuietStep, PcSets DEF ThreadInit, At, TypeOK, SameSubprocs

LEMMA ThreadDataCollectInv ==
  ASSUME TypeOK, IInv, NEW t \in Threads, NEW i \in Slots, ThreadDataCollect(t, i)
  PROVE  TypeOK' /\ IInv'
<1>1. th' = [th EXCEPT ![t] = th[t]]
  BY DEF ThreadDataCollect, TypeOK
<1>2. td_cache' \in [Slots -> Datas \cup {Nobody}]
  BY DEF ThreadDataCollect, TypeOK
<1>3. \A j \in Slots : td_cache'[j] = IF j = i THEN Nobody ELSE td_cache[j]
  BY DEF ThreadDataCollect, TypeOK
<1>4. DataInv'
  <2>1. DataUnique'
    BY <1>3, Parts DEF ThreadDataCollect, DataInv, DataUnique
  <2> QED
    BY <2>1, Parts DEF ThreadDataCollect, DataInv
<1> QED
  BY <1>1, <1>2, <1>4, ThreadFields, QuietStep, PcSets DEF ThreadDataCollect, At, TypeOK, SameSubprocs

LEMMA ThreadDataExchangeInv ==
  ASSUME TypeOK, IInv, NEW t \in Threads, ThreadDataExchange(t)
  PROVE  TypeOK' /\ IInv'
<1> DEFINE at == th[t].cur.at
           td == td_cache[at]
           q == IF td = Nobody THEN "zalloc" ELSE "idle"
           new == [th[t] EXCEPT !.td = td, !.pc = q, !.cur = NoCursor]
<1>0. at \in Slots
  BY Parts DEF ThreadDataExchange, At, DataInv
<1>1. th' = [th EXCEPT ![t] = new]
  BY DEF ThreadDataExchange, TypeOK, ThreadRecords, Cur
<1>2. td_cache' = [td_cache EXCEPT ![at] = Nobody]
  BY DEF ThreadDataExchange, Cur
<1>3. td \in Datas \cup {Nobody} /\ q \in {"zalloc", "idle"} /\ NoCursor \in Cursors
  BY <1>0 DEF TypeOK, NoCursor, Cursors
<1>4. /\ td_cache' \in [Slots -> Datas \cup {Nobody}]
      /\ \A j \in Slots : td_cache'[j] = IF j = at THEN Nobody ELSE td_cache[j]
  BY <1>0, <1>2 DEF TypeOK
<1> HIDE DEF q
<1>5. new \in ThreadRecords /\ new.pc = q /\ new.td = td /\ new.proc = th[t].proc
  BY <1>3, ThreadFields, PcSets DEF ThreadRecords
<1> HIDE DEF new
<1>6. DataInv'
  <2>1. th'[t] = new /\ \A u \in Threads : u # t => th'[u] = th[u]
    BY <1>1, <1>5, ThStep
  <2>2. /\ \A u, v \in Threads : (u # v /\ th[u].td # Nobody) => th[u].td # th[v].td
        /\ \A u \in Threads, j \in Slots : th[u].td # Nobody => td_cache[j] # th[u].td
        /\ \A j, k \in Slots : (j # k /\ td_cache[j] # Nobody) => td_cache[j] # td_cache[k]
    BY Parts DEF DataInv, DataUnique
  <2> HIDE DEF at
  <2>3. \A u, v \in Threads : (u # v /\ th'[u].td # Nobody) => th'[u].td # th'[v].td
    BY <1>0, <1>5, <2>1, <2>2
  <2>4. \A u \in Threads, j \in Slots : th'[u].td # Nobody => td_cache'[j] # th'[u].td
    BY <1>0, <1>4, <1>5, <2>1, <2>2
  <2>5. \A j, k \in Slots : (j # k /\ td_cache'[j] # Nobody) => td_cache'[j] # td_cache'[k]
    BY <1>4, <2>2
  <2>6. \A u \in Threads : th'[u].pc = "exchange" => th'[u].cur.at \in Slots
    BY <1>3, <1>5, <2>1, Parts DEF DataInv
  <2> QED
    BY <2>3, <2>4, <2>5, <2>6 DEF DataInv, DataUnique
<1>7. q \in QuietPcs /\ th[t].pc \in QuietPcs
  BY <1>3, PcSets DEF ThreadDataExchange, At
<1> QED
  BY <1>1, <1>4, <1>5, <1>6, <1>7, QuietStep DEF ThreadDataExchange, TypeOK, SameSubprocs

LEMMA ThreadDataZallocInv ==
  ASSUME TypeOK, IInv, NEW t \in Threads, ThreadDataZalloc(t)
  PROVE  TypeOK' /\ IInv'
<1>0. PICK td \in Datas \ (DatasInUse \cup Cached) : th' = [th EXCEPT ![t].td = td, ![t].pc = "idle"]
  BY DEF ThreadDataZalloc
<1> DEFINE new == [th[t] EXCEPT !.td = td, !.pc = "idle"]
<1>1. th' = [th EXCEPT ![t] = new]
  BY <1>0 DEF TypeOK, ThreadRecords
<1>2. new \in ThreadRecords /\ new.pc = "idle" /\ new.td = td /\ new.proc = th[t].proc
  BY ThreadFields, PcSets DEF ThreadRecords
<1> HIDE DEF new
<1>3. td_cache' = td_cache
  BY DEF ThreadDataZalloc
<1>4. /\ \A u \in Threads : th[u].td # td
      /\ \A j \in Slots : td_cache[j] # td
  BY DEF DatasInUse, Cached
<1>5. th'[t] = new /\ \A u \in Threads : u # t => th'[u] = th[u]
  BY <1>1, <1>2, ThStep
<1>6. DataInv'
  <2>1. DataUnique'
    BY <1>2, <1>3, <1>4, <1>5, Parts DEF DataInv, DataUnique
  <2> QED
    BY <1>2, <1>5, <2>1, Parts DEF DataInv
<1>7. th[t].pc \in QuietPcs /\ "idle" \in QuietPcs
  BY PcSets DEF ThreadDataZalloc, At
<1> QED
  BY <1>1, <1>2, <1>6, <1>7, QuietStep DEF ThreadDataZalloc, TypeOK, SameSubprocs

LEMMA SubprocAddInv ==
  ASSUME TypeOK, IInv, NEW t \in Threads, NEW p \in Subprocs, SubprocAddCurrentThread(t, p)
  PROVE  TypeOK' /\ IInv'
<1> DEFINE new == [th[t] EXCEPT !.proc = p]
<1>1. th' = [th EXCEPT ![t] = new]
  BY DEF SubprocAddCurrentThread, TypeOK, ThreadRecords
<1>2. new \in ThreadRecords /\ new.pc = th[t].pc /\ new.td = th[t].td
  BY ThreadFields, PcSets DEF ThreadRecords
<1> HIDE DEF new
<1>3. th[t].pc = "idle"
  BY DEF SubprocAddCurrentThread, At
<1>4. DataInv'
  BY <1>1, <1>2, <1>3, ThStep, Parts, DataSame DEF SubprocAddCurrentThread
<1> QED
  BY <1>1, <1>2, <1>3, <1>4, QuietStep, PcSets DEF SubprocAddCurrentThread, TypeOK, SameSubprocs

LEMMA ThreadDoneInv ==
  ASSUME TypeOK, IInv, NEW t \in Threads, ThreadDone(t)
  PROVE  TypeOK' /\ IInv'
<1> DEFINE new == ThreadRecord(t)
<1>1. th' = [th EXCEPT ![t] = new]
  BY DEF ThreadDone
<1>2. NoCursor \in Cursors
  BY DEF NoCursor, Cursors
<1>3. new \in ThreadRecords /\ new.pc = "none" /\ new.td = Nobody
  BY <1>2, Known, PcSets DEF ThreadRecord, ThreadRecords, Pcs, PlainPcs
<1> HIDE DEF new
<1>4. th'[t] = new /\ \A u \in Threads : u # t => th'[u] = th[u]
  BY <1>1, <1>3, ThStep
<1>5. /\ \A u, v \in Threads : (u # v /\ th[u].td # Nobody) => th[u].td # th[v].td
      /\ \A u \in Threads, j \in Slots : th[u].td # Nobody => td_cache[j] # th[u].td
      /\ \A j, k \in Slots : (j # k /\ td_cache[j] # Nobody) => td_cache[j] # td_cache[k]
  BY Parts DEF DataInv, DataUnique
<1>6. \A u \in Threads : th'[u].pc = "exchange" => th'[u].cur.at \in Slots
  BY <1>3, <1>4, Parts DEF DataInv
<1>7. DataInv' /\ td_cache' \in [Slots -> Datas \cup {Nobody}]
  <2>1. CASE UNCHANGED td_cache
    <3>1. DataUnique'
      BY <1>3, <1>4, <1>5, <2>1 DEF DataUnique
    <3> QED
      BY <1>6, <2>1, <3>1 DEF DataInv, TypeOK
  <2>2. CASE \E i \in Slots : td_cache[i] = Nobody /\ td_cache' = [td_cache EXCEPT ![i] = th[t].td]
    <3>1. PICK i \in Slots : td_cache[i] = Nobody /\ td_cache' = [td_cache EXCEPT ![i] = th[t].td]
      BY <2>2
    <3>2. /\ td_cache' \in [Slots -> Datas \cup {Nobody}]
          /\ \A j \in Slots : td_cache'[j] = IF j = i THEN th[t].td ELSE td_cache[j]
      BY <3>1, ThreadFields DEF TypeOK
    <3>3. DataUnique'
      BY <1>3, <1>4, <1>5, <3>2 DEF DataUnique
    <3> QED
      BY <1>6, <3>2, <3>3 DEF DataInv
  <2> QED
    BY <2>1, <2>2 DEF ThreadDone
<1>8. th[t].pc \in QuietPcs /\ "none" \in QuietPcs /\ Owned(t) = {}
  BY PcSets DEF ThreadDone, At
<1> QED
  BY <1>1, <1>3, <1>7, <1>8, QuietStep DEF ThreadDone, TypeOK, SameSubprocs

LEMMA QuietWalk ==
  ASSUME TypeOK, IInv, NEW t \in Threads, NEW new \in ThreadRecords, th' = [th EXCEPT ![t] = new],
         new.proc = th[t].proc, new.td = th[t].td, new.pc \in {"idle", "cursor", "next", "bit"},
         th[t].pc \in {"idle", "cursor", "next", "bit"},
         sub' \in [Subprocs -> SubprocRecords], SameSubprocs, arenaLock' \in Threads \cup {Nobody},
         UNCHANGED <<seg, bits, part, map, td_cache>>
  PROVE  TypeOK' /\ IInv'
<1>1. th'[t] = new /\ \A u \in Threads : u # t => th'[u] = th[u]
  BY ThStep
<1>2. DataInv'
  BY <1>1, Parts, DataSame
<1>3. td_cache' \in [Slots -> Datas \cup {Nobody}]
  BY DEF TypeOK
<1> QED
  BY <1>2, <1>3, QuietStep, PcSets

LEMMA SubprocsSame ==
  ASSUME TypeOK, sub' = sub PROVE sub' \in [Subprocs -> SubprocRecords] /\ SameSubprocs
BY DEF TypeOK, SameSubprocs

LEMMA VisitChanges ==
  ASSUME TypeOK, NEW p \in Subprocs, NEW v \in Threads \cup {Nobody}, sub' = [sub EXCEPT ![p].visit = v]
  PROVE  sub' \in [Subprocs -> SubprocRecords] /\ SameSubprocs
<1> DEFINE new == [sub[p] EXCEPT !.visit = v]
<1>1. sub' = [sub EXCEPT ![p] = new]
  BY DEF TypeOK, SubprocRecords
<1>2. /\ new \in SubprocRecords /\ new.list = sub[p].list /\ new.count = sub[p].count
      /\ new.os_count = sub[p].os_count /\ new.lock = sub[p].lock
  BY SubprocFields DEF SubprocRecords
<1> HIDE DEF new
<1> QED
  BY <1>1, <1>2, SubStep DEF SameSubprocs

LEMMA NoCursorType == NoCursor \in Cursors
BY DEF NoCursor, Cursors

LEMMA CursorFields ==
  ASSUME TypeOK, NEW t \in Threads
  PROVE  /\ th[t].cur \in Cursors /\ th[t].cur.count \in Int /\ th[t].cur.tries \in Int
         /\ th[t].cur.os \in Int /\ th[t].cur.field \subseteq ArenaSegments
BY ThreadFields DEF Cursors

\* The end of a walk.
LEMMA CursorDoneIs ==
  ASSUME TypeOK, NEW t \in Threads, CursorDone(t)
  PROVE  \E new \in ThreadRecords :
           /\ th' = [th EXCEPT ![t] = new]
           /\ new.pc = "idle" /\ new.seg = Nobody /\ new.proc = th[t].proc /\ new.td = th[t].td
<1> DEFINE new == [th[t] EXCEPT !.pc = "idle", !.seg = Nobody, !.cur = NoCursor]
<1>1. th' = [th EXCEPT ![t] = new]
  BY DEF CursorDone, TypeOK, ThreadRecords
<1>2. new \in ThreadRecords /\ new.pc = "idle" /\ new.seg = Nobody /\ new.proc = th[t].proc /\ new.td = th[t].td
  BY ThreadFields, PcSets, NoCursorType DEF ThreadRecords
<1> HIDE DEF new
<1> QED
  BY <1>1, <1>2

LEMMA VisitorType ==
  ASSUME TypeOK, NEW t \in Threads
  PROVE  Visitor(t) \in Threads \cup {Nobody} /\ Proc(t) \in Subprocs
<1>1. Proc(t) \in Subprocs
  BY ThreadFields DEF Proc
<1> QED
  BY <1>1 DEF Visitor, TypeOK, SubprocRecords

LEMMA CursorInitInv ==
  ASSUME TypeOK, IInv, NEW t \in Threads, NEW kind \in Kinds, CursorInit(t, kind)
  PROVE  TypeOK' /\ IInv'
<1> DEFINE n == sub[th[t].proc].count
           cur == [NoCursor EXCEPT !.kind = kind, !.count = n]
           new == [th[t] EXCEPT !.pc = "cursor", !.seg = Nobody, !.cur = cur]
<1>0. n \in Int
  BY ThreadFields, SubprocFields
<1>1. th' = [th EXCEPT ![t] = new]
  BY DEF CursorInit, TypeOK, ThreadRecords, Proc
<1> HIDE DEF n
<1>2. cur \in Cursors
  BY <1>0, NoCursorType DEF Cursors
<1> HIDE DEF cur
<1>3. new \in ThreadRecords /\ new.pc = "cursor" /\ new.td = th[t].td /\ new.proc = th[t].proc
  BY <1>2, ThreadFields, PcSets DEF ThreadRecords
<1> HIDE DEF new
<1> QED
  BY <1>1, <1>3, SubprocsSame, QuietWalk DEF CursorInit, At, TypeOK

LEMMA OneThread ==
  ASSUME TypeOK, NEW t \in Threads, th' \in [Threads -> ThreadRecords],
         \A u \in Threads : u # t => th'[u] = th[u]
  PROVE  th' = [th EXCEPT ![t] = th'[t]]
BY DEF TypeOK

LEMMA CountsMove ==
  ASSUME TypeOK, NEW t \in Threads, NEW os \in Int, NEW arena \in BOOLEAN, NEW tries \in Int,
         th' = [th EXCEPT ![t].pc = "next", ![t].cur.os = os, ![t].cur.count = 0,
                          ![t].cur.arena = arena, ![t].cur.tries = tries]
  PROVE  \E new \in ThreadRecords : /\ th' = [th EXCEPT ![t] = new] /\ new.pc = "next"
                                    /\ new.proc = th[t].proc /\ new.td = th[t].td
<1> DEFINE c == th[t].cur
           cur == [kind |-> c.kind, count |-> 0, arena |-> arena, field |-> c.field, at |-> c.at,
                   os |-> os, tries |-> tries, visit |-> c.visit]
           new == [th[t] EXCEPT !.pc = "next", !.cur = cur]
<1>0. th[t] \in ThreadRecords /\ c \in Cursors
  BY ThreadFields
<1>1. th'[t].cur = cur
  BY ZenonT(60), <1>0 DEF TypeOK, ThreadRecords, Cursors
<1>2. cur \in Cursors
  BY <1>0 DEF Cursors
<1>3. /\ th'[t].pc = "next" /\ th'[t].proc = th[t].proc /\ th'[t].td = th[t].td
      /\ th'[t].seg = th[t].seg
  BY <1>0 DEF TypeOK, ThreadRecords
<1>4. DOMAIN th' = Threads /\ \A u \in Threads : u # t => th'[u] = th[u]
  BY DEF TypeOK
<1>5. th'[t] = [th[t] EXCEPT !.pc = "next", !.cur = th'[t].cur]
  BY <1>0 DEF TypeOK, ThreadRecords
<1> HIDE DEF cur
<1>6. new \in ThreadRecords /\ th'[t] = new
  BY <1>0, <1>1, <1>2, <1>3, <1>5 DEF TypeOK, ThreadRecords, Pcs, PlainPcs
<1> HIDE DEF new
<1>7. th' = [u \in Threads |-> th'[u]]
  BY ZenonT(60) DEF TypeOK
<1>8. th' \in [Threads -> ThreadRecords]
  BY ZenonT(60), <1>4, <1>6, <1>7 DEF TypeOK
<1>9. th' = [th EXCEPT ![t] = th'[t]]
  BY <1>4, <1>8, OneThread, Zenon
<1> QED
  BY <1>3, <1>6, <1>9

LEMMA CursorCountsInv ==
  ASSUME TypeOK, IInv, NEW t \in Threads, CursorCounts(t)
  PROVE  TypeOK' /\ IInv'
<1> DEFINE os == sub[th[t].proc].os_count
           n == th[t].cur.count
           arena == n > os \/ n < 0
           tries == IF th[t].cur.kind = "force" THEN n ELSE 1
<1>1. os \in Int /\ n \in Int /\ tries \in Int
  BY ThreadFields, SubprocFields, CursorFields
<1>2. arena \in BOOLEAN
  OBVIOUS
<1>3. /\ th' = [th EXCEPT ![t].pc = "next", ![t].cur.os = os, ![t].cur.count = 0,
                          ![t].cur.arena = arena, ![t].cur.tries = tries]
      /\ th[t].pc = "cursor" /\ UNCHANGED <<seg, bits, sub, arenaLock, part, map, td_cache>>
  BY DEF CursorCounts, Proc, Cur, At
<1> HIDE DEF os, n, arena, tries
<1>4. PICK new \in ThreadRecords : /\ th' = [th EXCEPT ![t] = new] /\ new.pc = "next"
                                   /\ new.proc = th[t].proc /\ new.td = th[t].td
  <2>1. CASE arena
    <3>1. arena = TRUE
      BY <1>2, <2>1, Zenon
    <3> QED
      BY <1>1, <1>3, <3>1, CountsMove, Zenon
  <2>2. CASE ~arena
    <3>1. arena = FALSE
      BY <1>2, <2>2, Zenon
    <3> QED
      BY <1>1, <1>3, <3>1, CountsMove, Zenon
  <2> QED
    BY <2>1, <2>2
<1>5. /\ th[t].pc = "cursor" /\ UNCHANGED <<seg, bits, sub, arenaLock, part, map, td_cache>>
      /\ arenaLock' \in Threads \cup {Nobody}
  BY DEF CursorCounts, At, TypeOK
<1> QED
  BY <1>4, <1>5, SubprocsSame, QuietWalk

LEMMA NextFieldInv ==
  ASSUME TypeOK, IInv, NEW t \in Threads, NextField(t)
  PROVE  TypeOK' /\ IInv'
<1> DEFINE field == {s \in bits : s >= th[t].cur.at}
           tries == IF Tries(t) THEN th[t].cur.tries - 1 ELSE th[t].cur.tries
           cur == [th[t].cur EXCEPT !.field = field, !.tries = tries]
           new == [th[t] EXCEPT !.pc = "bit", !.cur = cur]
<1>0. field \subseteq ArenaSegments /\ tries \in Int
  BY CursorFields DEF TypeOK
<1>1. th' = [th EXCEPT ![t] = new]
  BY ZenonT(60) DEF NextField, TypeOK, ThreadRecords, Cursors, Cur
<1> HIDE DEF field, tries
<1>2. cur \in Cursors
  BY <1>0, CursorFields DEF Cursors
<1> HIDE DEF cur
<1>3. new \in ThreadRecords /\ new.pc = "bit" /\ new.td = th[t].td /\ new.proc = th[t].proc
  BY <1>2, ThreadFields, PcSets DEF ThreadRecords
<1> HIDE DEF new
<1>4. arenaLock' \in Threads \cup {Nobody}
  BY DEF NextField, TypeOK
<1> QED
  BY <1>1, <1>3, <1>4, SubprocsSame, QuietWalk DEF NextField, At

LEMMA SkipArenaInv ==
  ASSUME TypeOK, IInv, NEW t \in Threads, SkipArena(t)
  PROVE  TypeOK' /\ IInv'
<1> DEFINE cur == [th[t].cur EXCEPT !.arena = FALSE]
           new == [th[t] EXCEPT !.cur = cur]
<1>1. th' = [th EXCEPT ![t] = new]
  BY DEF SkipArena, TypeOK, ThreadRecords, Cursors
<1>2. cur \in Cursors
  BY CursorFields DEF Cursors
<1> HIDE DEF cur
<1>3. new \in ThreadRecords /\ new.pc = th[t].pc /\ new.td = th[t].td /\ new.proc = th[t].proc
  BY <1>2, ThreadFields, PcSets DEF ThreadRecords
<1> HIDE DEF new
<1> QED
  BY <1>1, <1>3, SubprocsSame, QuietWalk DEF SkipArena, At, TypeOK

LEMMA FieldMove ==
  ASSUME TypeOK, NEW t \in Threads, NEW tries \in Int,
         th' = [th EXCEPT ![t].pc = "next", ![t].cur.arena = FALSE, ![t].cur.tries = tries]
  PROVE  \E new \in ThreadRecords : /\ th' = [th EXCEPT ![t] = new] /\ new.pc = "next"
                                    /\ new.proc = th[t].proc /\ new.td = th[t].td
<1> DEFINE cur == [th[t].cur EXCEPT !.arena = FALSE, !.tries = tries]
           new == [th[t] EXCEPT !.pc = "next", !.cur = cur]
<1>1. th' = [th EXCEPT ![t] = new]
  BY ZenonT(60) DEF TypeOK, ThreadRecords, Cursors
<1>2. cur \in Cursors
  BY CursorFields DEF Cursors
<1> HIDE DEF cur
<1>3. new \in ThreadRecords /\ new.pc = "next" /\ new.td = th[t].td /\ new.proc = th[t].proc
  BY <1>2, ThreadFields, PcSets DEF ThreadRecords
<1> HIDE DEF new
<1> QED
  BY <1>1, <1>3

LEMMA FieldDoneInv ==
  ASSUME TypeOK, IInv, NEW t \in Threads, FieldDone(t)
  PROVE  TypeOK' /\ IInv'
<1> DEFINE tries == IF Tries(t) THEN th[t].cur.tries + 1 ELSE th[t].cur.tries
<1>1. tries \in Int
  BY CursorFields
<1>2. /\ th' = [th EXCEPT ![t].pc = "next", ![t].cur.arena = FALSE, ![t].cur.tries = tries]
      /\ th[t].pc = "bit" /\ UNCHANGED <<seg, bits, sub, part, map, td_cache>>
  BY DEF FieldDone, At
<1> HIDE DEF tries
<1>3. PICK new \in ThreadRecords : /\ th' = [th EXCEPT ![t] = new] /\ new.pc = "next"
                                   /\ new.proc = th[t].proc /\ new.td = th[t].td
  BY <1>1, <1>2, FieldMove, Zenon
<1>4. arenaLock' \in Threads \cup {Nobody}
  BY DEF FieldDone, Release, TypeOK
<1> QED
  BY <1>2, <1>3, <1>4, SubprocsSame, QuietWalk

LEMMA NextListInv ==
  ASSUME TypeOK, IInv, NEW t \in Threads, NextList(t)
  PROVE  TypeOK' /\ IInv'
<1>0. /\ th[t].pc = "next" /\ UNCHANGED <<seg, bits, arenaLock, part, map, td_cache>>
      /\ arenaLock' \in Threads \cup {Nobody}
  BY DEF NextList, At, TypeOK
<1>1. CASE sub' = [sub EXCEPT ![Proc(t)].visit = t] /\ th' = [th EXCEPT ![t].cur.visit = TRUE]
  <2> DEFINE cur == [th[t].cur EXCEPT !.visit = TRUE]
             new == [th[t] EXCEPT !.cur = cur]
  <2>1. th' = [th EXCEPT ![t] = new]
    BY <1>1 DEF TypeOK, ThreadRecords, Cursors
  <2>2. cur \in Cursors
    BY CursorFields DEF Cursors
  <2> HIDE DEF cur
  <2>3. new \in ThreadRecords /\ new.pc = th[t].pc /\ new.td = th[t].td /\ new.proc = th[t].proc
    BY <2>2, ThreadFields, PcSets DEF ThreadRecords
  <2> HIDE DEF new
  <2>4. sub' \in [Subprocs -> SubprocRecords] /\ SameSubprocs
    BY <1>1, VisitorType, VisitChanges
  <2> QED
    BY <1>0, <2>1, <2>3, <2>4, QuietWalk
<1>2. CASE CursorDone(t) /\ UNCHANGED sub
  <2>1. PICK new \in ThreadRecords :
           /\ th' = [th EXCEPT ![t] = new]
           /\ new.pc = "idle" /\ new.seg = Nobody /\ new.proc = th[t].proc /\ new.td = th[t].td
    BY <1>2, CursorDoneIs
  <2> QED
    BY <1>0, <1>2, <2>1, SubprocsSame, QuietWalk
<1> QED
  BY <1>1, <1>2 DEF NextList

LEMMA CursorEndInv ==
  ASSUME TypeOK, IInv, NEW t \in Threads, CursorEnd(t)
  PROVE  TypeOK' /\ IInv'
<1>1. PICK new \in ThreadRecords :
         /\ th' = [th EXCEPT ![t] = new]
         /\ new.pc = "idle" /\ new.seg = Nobody /\ new.proc = th[t].proc /\ new.td = th[t].td
  BY CursorDoneIs DEF CursorEnd
<1>2. sub' \in [Subprocs -> SubprocRecords] /\ SameSubprocs
  BY VisitorType, VisitChanges DEF CursorEnd
<1>3. arenaLock' \in Threads \cup {Nobody}
  BY DEF CursorEnd, TypeOK
<1> QED
  BY <1>1, <1>2, <1>3, QuietWalk DEF CursorEnd, At

-----------------------------------------------------------------------------
(* Segments begin and end, and the segment map.                             *)

LEMMA SegmentsSame ==
  ASSUME TypeOK, seg' = seg, bits' = bits, sub' = sub
  PROVE  /\ seg' \in [Segments -> SegmentRecords] /\ bits' \subseteq ArenaSegments
         /\ sub' \in [Subprocs -> SubprocRecords]
BY DEF TypeOK

LEMMA RestSame ==
  ASSUME TypeOK
  PROVE  /\ arenaLock' = arenaLock => arenaLock' \in Threads \cup {Nobody}
         /\ part' = part => part' \in Threads \cup {Nobody}
         /\ map' = map => map' \in [Threads \cup {Nobody} -> SUBSET OsSegments]
         /\ td_cache' = td_cache => td_cache' \in [Slots -> Datas \cup {Nobody}]
         /\ seg' = seg => seg' \in [Segments -> SegmentRecords]
         /\ bits' = bits => bits' \subseteq ArenaSegments
         /\ sub' = sub => sub' \in [Subprocs -> SubprocRecords]
BY DEF TypeOK

LEMMA ListsType ==
  ASSUME TypeOK, HoldInv, NEW p \in Subprocs
  PROVE  NoDup(sub[p].list) /\ Elems(sub[p].list) \subseteq Segments /\ Elems(sub[p].list) \subseteq OsSegments
<1>1. NoDup(sub[p].list)
  BY DEF HoldInv, ListsAbandoned
<1>2. Elems(sub[p].list) \subseteq OsSegments
  BY SubprocFields, ElementOfSeq DEF Elems
<1> QED
  BY <1>1, <1>2, Known

LEMMA Unlisted ==
  ASSUME TypeOK, HoldInv, NEW x \in Segments, seg[x].thread_id # Nobody \/ ~seg[x].live
  PROVE  x \notin bits /\ \A p \in Subprocs : x \notin Elems(sub[p].list)
BY DEF HoldInv, BitsAbandoned, ListsAbandoned

\* Who holds a segment works on it.
LEMMA HolderSeg ==
  ASSUME TypeOK, NEW t \in Threads, th[t].pc \in HolderPcs \cup FreePcs
  PROVE  th[t].seg \in Segments
BY DEF TypeOK

LEMMA FreeingLive ==
  ASSUME TypeOK, PinInv, NEW t \in Threads, th[t].pc \in FreePcs
  PROVE  /\ th[t].seg \in Segments /\ seg[th[t].seg].live /\ seg[th[t].seg].blocks > 0
         /\ seg[th[t].seg].blocks >= Cardinality(Freeing(th[t].seg))
<1> DEFINE x == th[t].seg
<1>1. x \in Segments
  BY DEF TypeOK
<1>2. t \in Freeing(x) /\ IsFiniteSet(Freeing(x)) /\ Cardinality(Freeing(x)) \in Nat
  BY <1>1, FreeingFinite DEF Freeing, FreePcs
<1>3. Cardinality(Freeing(x)) # 0
  BY <1>2, FS_EmptySet
<1>4. seg[x].blocks >= Cardinality(Freeing(x)) /\ (seg[x].blocks > 0 => seg[x].live) /\ seg[x].blocks \in Nat
  BY <1>1, SegmentFields DEF PinInv
<1> HIDE DEF x
<1>5. seg[x].blocks > 0
  BY <1>2, <1>3, <1>4
<1> QED
  BY <1>1, <1>4, <1>5 DEF x

\* The owner of a segment is found by nobody else.
LEMMA SegmentAllocMoves ==
  ASSUME TypeOK, IInv, NEW t \in Threads, NEW s \in Segments, SegmentAlloc(t, s)
  PROVE  \E q \in {"idle", "map_cas", "map_set"} :
           /\ q = "idle" <=> s \in ArenaSegments
           /\ q = "map_set" => part # Nobody
           /\ Moves(t, q, IF s \in ArenaSegments THEN Nobody ELSE s)
<1> DEFINE q == IF IsArena(s) THEN "idle"
                ELSE IF part = Nobody \/ s \in BeyondMap THEN "map_cas" ELSE "map_set"
           x == IF IsArena(s) THEN Nobody ELSE s
<1>1. th' = [th EXCEPT ![t].seg = x, ![t].pc = q]
  BY DEF SegmentAlloc
<1>2. q \in {"idle", "map_cas", "map_set"} /\ x \in Segments \cup {Nobody}
  OBVIOUS
<1>3. q \in Pcs
  BY <1>2, PcSets DEF HolderPcs
<1>4. (q = "idle" <=> s \in ArenaSegments) /\ (q = "map_set" => part # Nobody)
  BY DEF IsArena
<1>5. x = IF s \in ArenaSegments THEN Nobody ELSE s
  BY DEF IsArena
<1> HIDE DEF q, x
<1>6. Moves(t, q, x)
  BY <1>1, <1>2, <1>3, PutMoves
<1> QED
  BY <1>2, <1>4, <1>5, <1>6

LEMMA SegmentAllocInv ==
  ASSUME TypeOK, IInv, NEW t \in Threads, NEW s \in Segments, SegmentAlloc(t, s)
  PROVE  TypeOK' /\ IInv'
<1> DEFINE y == IF s \in ArenaSegments THEN Nobody ELSE s
           new == [live |-> TRUE, thread_id |-> t, subproc |-> th[t].proc, blocks |-> 0]
<1>1. PICK q \in {"idle", "map_cas", "map_set"} :
           /\ q = "idle" <=> s \in ArenaSegments
           /\ q = "map_set" => part # Nobody
           /\ Moves(t, q, y)
  BY SegmentAllocMoves
<1>0. (s \in OsSegments => y = s) /\ (s \in ArenaSegments => y = Nobody)
  BY Known
<1> HIDE DEF y
<1>2. seg' = [seg EXCEPT ![s] = new]
  BY DEF SegmentAlloc, Proc
<1>3. new \in SegmentRecords /\ new.live /\ new.thread_id = t /\ new.subproc = th[t].proc /\ new.blocks = 0
  BY ThreadFields DEF SegmentRecords
<1> HIDE DEF new
<1>4. /\ seg' \in [Segments -> SegmentRecords] /\ seg'[s] = new
      /\ \A x \in Segments : x # s => seg'[x] = seg[x]
  BY <1>2, <1>3, SegStep
<1>5. /\ th[t].pc = "idle" /\ ~seg[s].live
      /\ UNCHANGED <<bits, sub, arenaLock, part, map, td_cache>>
  BY DEF SegmentAlloc, At
<1>6. /\ q \notin FreePcs /\ q \notin LockPcs /\ (q \in HolderPcs => s \in OsSegments /\ y = s)
      /\ q \notin ComingPcs /\ q \notin GoingPcs /\ q # "remark" /\ q # "exchange" /\ q # "popped"
      /\ (q \in MapPcs <=> s \in OsSegments) /\ (q \in MapPcs => y = s)
  BY <1>0, <1>1, Known DEF FreePcs, LockPcs, HolderPcs, ComingPcs, GoingPcs, MapPcs
<1>7. /\ th[t].pc \notin FreePcs /\ th[t].pc \notin LockPcs /\ th[t].pc \notin HolderPcs
      /\ th[t].pc \notin ComingPcs /\ th[t].pc \notin GoingPcs /\ th[t].pc # "remark"
      /\ th[t].pc \notin MapPcs /\ th[t].pc # "popped"
  BY <1>5 DEF FreePcs, LockPcs, HolderPcs, ComingPcs, GoingPcs, MapPcs
<1>8. \A u \in Threads : u # t => ~(th[u].pc \in HolderPcs /\ th[u].seg = s)
  BY <1>5, NotHeld, Parts
<1>9. s \notin bits /\ \A p \in Subprocs : s \notin Elems(sub[p].list)
  BY <1>5, Unlisted, Parts
<1>10. seg[s].blocks = 0 /\ Freeing(s) = {} /\ \A u \in Threads : ~(th[u].pc \in FreePcs /\ th[u].seg = s)
  <2>1. \A u \in Threads : ~(th[u].pc \in FreePcs /\ th[u].seg = s)
    BY <1>5, FreeingLive, Parts
  <2>2. seg[s].blocks = 0
    BY <1>5, SegmentFields, Parts DEF PinInv
  <2> QED
    BY <2>1, <2>2 DEF Freeing, FreePcs
<1>11. TypeOK'
  BY <1>1, <1>4, <1>5, <1>6, Known, RestSame, TypeStep
<1>12. HoldInv'
  <2>1. \A p \in Subprocs : NoDup(sub'[p].list) /\ Elems(sub'[p].list) \subseteq Segments
    BY <1>5, ListsType, Parts
  <2>2. bits' \subseteq ArenaSegments
    BY <1>5, RestSame
  <2>3. SameElsewhere(s)
    BY <1>4, <1>5, <2>1, <2>2 DEF SameElsewhere
  <2>4. Placed(t, q, s)
    BY <1>1, <1>3, <1>4, <1>5, <1>6, <1>9, Known DEF Placed, HolderPcs
  <2> QED
    BY <1>1, <1>6, <1>7, <1>8, <2>3, <2>4, Parts, HoldStep
<1>13. PinInv'
  <2>1. Cardinality(Freeing(s)') = 0
    <3>1. Cardinality(Freeing(s)') = Cardinality(Freeing(s))
      BY <1>1, <1>6, <1>7, FreeingStep
    <3> QED
      BY <1>10, <3>1, FS_EmptySet
  <2>2. q \in ZeroPcs => y = s
    BY <1>1, <1>6 DEF ZeroPcs, MapPcs, HolderPcs
  <2> QED
    BY <1>1, <1>3, <1>4, <1>6, <1>7, <2>1, <2>2, Parts, PinStep
<1>14. MapInv'
  <2>1. /\ \A u \in Threads : u # t => th'[u] = th[u]
        /\ th'[t].pc = q /\ th'[t].seg = y
    BY <1>1 DEF Moves
  <2>2. \A u \in Threads : th'[u].pc = "map_set" => part' # Nobody
    BY <1>1, <1>5, <2>1, Parts DEF MapInv
  <2>3. ASSUME NEW x \in OsSegments
        PROVE  Noted(x)' <=> seg'[x].live /\ \A u \in Threads : th'[u].pc \in MapPcs => th'[u].seg # x
    <3>1. Noted(x)' <=> Noted(x)
      BY <1>5 DEF Noted, SegmentOf
    <3>2. Noted(x) <=> seg[x].live /\ \A u \in Threads : th[u].pc \in MapPcs => th[u].seg # x
      BY Parts DEF MapInv
    <3>3. CASE x = s
      BY <1>5, <1>6, <2>1, <3>1, <3>2, <3>3
    <3>4. CASE x # s
      <4>1. seg'[x] = seg[x]
        BY <1>4, <3>4, Known
      <4> QED
        BY <1>6, <1>7, <2>1, <3>1, <3>2, <3>4, <4>1
    <3> QED
      BY <3>3, <3>4
  <2> QED
    BY <1>5, <2>2, <2>3, Parts DEF MapInv, SegmentOf
<1>15. LockInv'
  BY <1>1, <1>5, <1>6, <1>7, Parts, LockKept
<1>16. SubprocInv'
  <2>1. /\ \A u \in Threads : u # t => th'[u] = th[u]
        /\ th'[t].pc = q /\ th'[t].seg = y /\ th'[t].proc = th[t].proc
    BY <1>1 DEF Moves
  <2>2. \A u \in Threads : u # t /\ th[u].pc \in WorkPcs => th[u].seg \in Segments /\ th[u].seg # s
    BY <1>8, <1>10, HolderSeg DEF WorkPcs
  <2>3. \A x \in Segments, u \in Threads : seg'[x].thread_id = u => seg'[x].subproc = th'[u].proc
    BY <1>3, <1>4, <2>1, Parts DEF SubprocInv
  <2>4. \A u \in Threads : th'[u].pc \in WorkPcs => seg'[th'[u].seg].subproc = th'[u].proc
    <3>1. q \in WorkPcs => y = s
      BY <1>6 DEF WorkPcs
    <3>2. \A u \in Threads : th[u].pc \in WorkPcs => seg[th[u].seg].subproc = th[u].proc
      BY Parts DEF SubprocInv, WorkPcs
    <3> QED
      BY <1>3, <1>4, <2>1, <2>2, <3>1, <3>2
  <2> QED
    BY <2>3, <2>4 DEF SubprocInv, WorkPcs
<1>17. CountInv'
  <2>1. \A x \in Segments : (x \in bits \/ \E u \in Threads : th[u].seg = x /\ th[u].pc = "remark") => x # s
    BY <1>7, <1>8, <1>9 DEF HolderPcs
  <2>2. ASSUME NEW p \in Subprocs PROVE Marked(p)' = Marked(p)
    BY <1>1, <1>4, <1>5, <1>6, <1>7, <2>1, MarkedKept
  <2> QED
    BY <1>1, <1>5, <1>6, <1>7, <2>2, Parts, CountKept
<1>18. DataInv'
  BY <1>1, <1>5, <1>6, Parts, DataKept
<1> QED
  BY <1>11, <1>12, <1>13, <1>14, <1>15, <1>16, <1>17, <1>18 DEF IInv

LEMMA ElsewhereSame ==
  ASSUME TypeOK, HoldInv, NEW x \in Segments, bits' = bits,
         \A p \in Subprocs : sub'[p].list = sub[p].list,
         \A y \in Segments : y # x => seg'[y] = seg[y]
  PROVE  SameElsewhere(x)
<1>1. \A p \in Subprocs : NoDup(sub'[p].list) /\ Elems(sub'[p].list) \subseteq Segments
  BY ListsType
<1> QED
  BY <1>1 DEF SameElsewhere, TypeOK

\* What the holder of a segment may count on.
LEMMA HolderKnows ==
  ASSUME TypeOK, HoldInv, NEW t \in Threads, th[t].pc \in HolderPcs, NEW x, x = th[t].seg
  PROVE  /\ x \in Segments /\ seg[x].live /\ x \notin bits
         /\ \A p \in Subprocs : x \notin Elems(sub[p].list)
         /\ seg[x].thread_id \in {t, Nobody}
         /\ th[t].pc \in {"map_cas", "map_set", "os_free"} => seg[x].thread_id = t
         /\ th[t].pc \notin {"map_cas", "map_set", "os_free", "mark"} => seg[x].thread_id = Nobody
         /\ \A u \in Threads : u # t => ~(th[u].pc \in HolderPcs /\ th[u].seg = x)
<1>1. x \in Segments
  BY HolderSeg
<1> QED
  BY <1>1, NotHeld DEF HoldInv, HeldApart

LEMMA MapCasInv ==
  ASSUME TypeOK, IInv, NEW t \in Threads, MapCas(t)
  PROVE  TypeOK' /\ IInv'
<1> DEFINE q == "map_set"
           x == th[t].seg
<1>1. th[t].pc = "map_cas" /\ UNCHANGED <<seg, bits, sub, arenaLock, map, td_cache>>
  BY DEF MapCas, At
<1>2. th[t].pc \in HolderPcs /\ q \in HolderPcs /\ q \in Pcs
  BY <1>1, PcSets DEF HolderPcs
<1>3. Moves(t, q, x)
  BY <1>2, GoMoves DEF MapCas
<1>4. HoldInv /\ PinInv /\ MapInv /\ LockInv /\ SubprocInv /\ CountInv /\ DataInv
  BY Parts
<1>5. /\ x \in Segments /\ seg[x].live /\ x \notin bits
      /\ \A p \in Subprocs : x \notin Elems(sub[p].list)
      /\ seg[x].thread_id = t
      /\ \A u \in Threads : u # t => ~(th[u].pc \in HolderPcs /\ th[u].seg = x)
  BY <1>1, <1>2, <1>4, HolderKnows
<1>6. x \in OsSegments
  BY <1>1, <1>4 DEF HoldInv, InRightPlace
<1> HIDE DEF x
<1>7. part' \in Threads \cup {Nobody}
  BY DEF MapCas, TypeOK
<1>8. TypeOK'
  BY <1>1, <1>3, <1>5, <1>7, RestSame, TypeStep
<1>9. HoldInv'
  <2>1. SameElsewhere(x)
    BY <1>1, <1>4, <1>5, ElsewhereSame
  <2>2. Placed(t, q, x)
    BY <1>1, <1>5, <1>6, Known DEF Placed
  <2> QED
    BY <1>3, <1>4, <1>5, <2>1, <2>2, HoldStep DEF x
<1>10. PinInv'
  <2>1. seg[x].blocks = 0
    BY <1>1, <1>4 DEF PinInv, MapPcs, x
  <2> QED
    BY <1>1, <1>3, <1>4, <1>5, <2>1, PinKept DEF FreePcs
<1>11. MapInv'
  <2>1. \A u \in Threads : th'[u].seg = th[u].seg /\ (th'[u].pc \in MapPcs <=> th[u].pc \in MapPcs)
    BY <1>1, <1>3 DEF Moves, x, MapPcs
  <2>2. part' # Nobody /\ part' = IF part = Nobody THEN t ELSE part
    BY Known DEF MapCas
  <2>3. \A y \in OsSegments : (SegmentOf(y)' <=> SegmentOf(y)) /\ (Noted(y)' <=> Noted(y))
    BY <1>1, <1>4, <2>2, Known DEF SegmentOf, MapInv, Noted
  <2>4. \A u \in Threads : u # part' => map'[u] = {}
    BY <1>1, <1>4, <2>2, Known DEF MapInv
  <2>5. \A y \in OsSegments :
          Noted(y)' <=> seg'[y].live /\ \A u \in Threads : th'[u].pc \in MapPcs => th'[u].seg # y
    BY <1>1, <1>4, <2>1, <2>3 DEF MapInv
  <2>6. \A y \in OsSegments : ~(SegmentOf(y) /\ y \in map[Nobody])'
    BY <1>1, <1>4, <2>3 DEF MapInv
  <2> QED
    BY <2>2, <2>4, <2>5, <2>6 DEF MapInv
<1>12. LockInv'
  BY <1>1, <1>3, <1>4, LockKept DEF LockPcs
<1>13. SubprocInv'
  <2>1. seg[x].subproc = th[t].proc
    BY <1>1, <1>2, <1>4 DEF SubprocInv, x
  <2> QED
    BY <1>1, <1>3, <1>4, <1>5, <2>1, SubprocKept
<1>14. CountInv'
  <2>1. \A p \in Subprocs : Marked(p)' = Marked(p)
    BY <1>1, <1>3, MarkedKept
  <2> QED
    BY <1>1, <1>3, <1>4, <2>1, CountKept DEF ComingPcs, GoingPcs
<1>15. DataInv'
  BY <1>1, <1>3, <1>4, DataKept
<1> QED
  BY <1>8, <1>9, <1>10, <1>11, <1>12, <1>13, <1>14, <1>15 DEF IInv

\* Without a part, the segment is used all the same.
LEMMA MapFailsInv ==
  ASSUME TypeOK, IInv, NEW t \in Threads, MapFails(t)
  PROVE  TypeOK' /\ IInv'
<1> DEFINE q == "idle"
           x == th[t].seg
<1>1. th[t].pc = "map_cas" /\ UNCHANGED <<seg, bits, sub, arenaLock, part, td_cache>>
  BY DEF MapFails, At
<1>2. th[t].pc \in HolderPcs /\ q \in Pcs /\ q \notin HolderPcs \cup FreePcs
  BY <1>1, PcSets DEF HolderPcs, FreePcs
<1>3. Moves(t, q, Nobody)
  BY <1>2, GoMoves DEF MapFails
<1>4. HoldInv /\ PinInv /\ MapInv /\ LockInv /\ SubprocInv /\ CountInv /\ DataInv
  BY Parts
<1>5. /\ x \in Segments /\ seg[x].live /\ x \notin bits
      /\ \A p \in Subprocs : x \notin Elems(sub[p].list)
      /\ seg[x].thread_id = t
      /\ \A u \in Threads : u # t => ~(th[u].pc \in HolderPcs /\ th[u].seg = x)
  BY <1>1, <1>2, <1>4, HolderKnows
<1>6. x \in OsSegments /\ part \in Threads \cup {Nobody}
  BY <1>1, <1>4 DEF HoldInv, InRightPlace, TypeOK
<1>7. /\ map' \in [Threads \cup {Nobody} -> SUBSET OsSegments]
      /\ \A u \in Threads \cup {Nobody} : map'[u] = IF u = Nobody THEN map[u] \cup {x} ELSE map[u]
  BY <1>6 DEF MapFails, TypeOK, Seg
<1> HIDE DEF x
<1>8. TypeOK'
  BY <1>1, <1>2, <1>3, <1>7, RestSame, TypeStep
<1>9. HoldInv'
  <2>1. SameElsewhere(x)
    BY <1>1, <1>4, <1>5, ElsewhereSame
  <2>2. Placed(t, q, x)
    BY <1>1, <1>2, <1>5, Known DEF Placed
  <2> QED
    BY <1>2, <1>3, <1>4, <1>5, <2>1, <2>2, HoldStep DEF x
<1>10. PinInv'
  BY <1>1, <1>3, <1>4, PinKept DEF FreePcs, ZeroPcs, MapPcs
<1>11. MapInv'
  <2>1. \A u \in Threads : /\ u # t => th'[u] = th[u]
                           /\ th'[t].pc \notin MapPcs /\ th[t].pc \in MapPcs /\ th[t].seg = x
    BY <1>1, <1>3 DEF Moves, MapPcs, x
  <2>2. \A u \in Threads : th'[u].pc = "map_set" => part' # Nobody
    BY <1>1, <1>4, <2>1 DEF MapInv, MapPcs
  <2>3. ASSUME NEW y \in OsSegments
        PROVE  Noted(y)' <=> seg'[y].live /\ \A u \in Threads : th'[u].pc \in MapPcs => th'[u].seg # y
    <3>1. Noted(y)' <=> Noted(y) \/ y = x
      BY <1>1, <1>6, <1>7, Known DEF Noted, SegmentOf
    <3>2. Noted(y) <=> seg[y].live /\ \A u \in Threads : th[u].pc \in MapPcs => th[u].seg # y
      BY <1>4 DEF MapInv
    <3>3. CASE y = x
      <4>1. \A u \in Threads : u # t /\ th[u].pc \in MapPcs => th[u].seg # x
        BY <1>5 DEF MapPcs, HolderPcs
      <4> QED
        BY <1>1, <1>5, <2>1, <3>1, <3>3, <4>1
    <3>4. CASE y # x
      BY <1>1, <2>1, <3>1, <3>2, <3>4
    <3> QED
      BY <3>3, <3>4
  <2>4. \A u \in Threads : u # part' => map'[u] = {}
    BY <1>1, <1>4, <1>7, Known DEF MapInv
  <2>5. ~Noted(x)
    BY <1>1, <1>4, <1>6 DEF MapInv, MapPcs, x
  <2>6. ASSUME NEW y \in OsSegments
        PROVE  ~(SegmentOf(y)' /\ y \in map'[Nobody])
    <3>1. ~(SegmentOf(y) /\ y \in map[Nobody])
      BY <1>4 DEF MapInv
    <3>2. CASE y = x
      <4>1. ~SegmentOf(x) /\ x \notin map[Nobody]
        BY <2>5 DEF Noted
      <4> QED
        BY <1>1, <1>6, <1>7, <3>2, <4>1, Known DEF SegmentOf
    <3>3. CASE y # x
      BY <1>1, <1>6, <1>7, <3>1, <3>3, Known DEF SegmentOf
    <3> QED
      BY <3>2, <3>3
  <2> QED
    BY <2>2, <2>3, <2>4, <2>6 DEF MapInv
<1>12. LockInv'
  BY <1>1, <1>3, <1>4, LockKept DEF LockPcs
<1>13. SubprocInv'
  BY <1>1, <1>2, <1>3, <1>4, SubprocKept DEF WorkPcs
<1>14. CountInv'
  <2>1. \A p \in Subprocs : Marked(p)' = Marked(p)
    BY <1>1, <1>3, MarkedKept
  <2> QED
    BY <1>1, <1>3, <1>4, <2>1, CountKept DEF ComingPcs, GoingPcs
<1>15. DataInv'
  BY <1>1, <1>3, <1>4, DataKept
<1> QED
  BY <1>8, <1>9, <1>10, <1>11, <1>12, <1>13, <1>14, <1>15 DEF IInv

LEMMA MapAllocatedAtInv ==
  ASSUME TypeOK, IInv, NEW t \in Threads, MapAllocatedAt(t)
  PROVE  TypeOK' /\ IInv'
<1> DEFINE q == "idle"
           x == th[t].seg
<1>1. th[t].pc = "map_set" /\ UNCHANGED <<seg, bits, sub, arenaLock, part, td_cache>>
  BY DEF MapAllocatedAt, At
<1>2. th[t].pc \in HolderPcs /\ q \in Pcs /\ q \notin HolderPcs \cup FreePcs
  BY <1>1, PcSets DEF HolderPcs, FreePcs
<1>3. Moves(t, q, Nobody)
  BY <1>2, GoMoves DEF MapAllocatedAt
<1>4. HoldInv /\ PinInv /\ MapInv /\ LockInv /\ SubprocInv /\ CountInv /\ DataInv
  BY Parts
<1>5. /\ x \in Segments /\ seg[x].live /\ x \notin bits
      /\ \A p \in Subprocs : x \notin Elems(sub[p].list)
      /\ seg[x].thread_id = t
      /\ \A u \in Threads : u # t => ~(th[u].pc \in HolderPcs /\ th[u].seg = x)
  BY <1>1, <1>2, <1>4, HolderKnows
<1>6. x \in OsSegments /\ part \in Threads
  BY <1>1, <1>4 DEF HoldInv, InRightPlace, MapInv, TypeOK
<1>7. /\ map' \in [Threads \cup {Nobody} -> SUBSET OsSegments]
      /\ \A u \in Threads \cup {Nobody} : map'[u] = IF u = part THEN map[u] \cup {x} ELSE map[u]
  BY <1>6 DEF MapAllocatedAt, TypeOK, Seg
<1> HIDE DEF x
<1>8. TypeOK'
  BY <1>1, <1>2, <1>3, <1>7, RestSame, TypeStep
<1>9. HoldInv'
  <2>1. SameElsewhere(x)
    BY <1>1, <1>4, <1>5, ElsewhereSame
  <2>2. Placed(t, q, x)
    BY <1>1, <1>2, <1>5, Known DEF Placed
  <2> QED
    BY <1>2, <1>3, <1>4, <1>5, <2>1, <2>2, HoldStep DEF x
<1>10. PinInv'
  BY <1>1, <1>3, <1>4, PinKept DEF FreePcs, ZeroPcs, MapPcs
<1>11. MapInv'
  <2>1. \A u \in Threads : /\ u # t => th'[u] = th[u]
                           /\ th'[t].pc \notin MapPcs /\ th[t].pc \in MapPcs /\ th[t].seg = x
    BY <1>1, <1>3 DEF Moves, MapPcs, x
  <2>2. \A u \in Threads : th'[u].pc = "map_set" => part' # Nobody
    BY <1>1, <1>6, Known
  <2>3. ASSUME NEW y \in OsSegments
        PROVE  Noted(y)' <=> seg'[y].live /\ \A u \in Threads : th'[u].pc \in MapPcs => th'[u].seg # y
    <3>1. Noted(y)' <=> Noted(y) \/ y = x
      BY <1>1, <1>6, <1>7, Known DEF Noted, SegmentOf
    <3>2. Noted(y) <=> seg[y].live /\ \A u \in Threads : th[u].pc \in MapPcs => th[u].seg # y
      BY <1>4 DEF MapInv
    <3>3. CASE y = x
      <4>1. \A u \in Threads : u # t /\ th[u].pc \in MapPcs => th[u].seg # x
        BY <1>5 DEF MapPcs, HolderPcs
      <4> QED
        BY <1>1, <1>5, <2>1, <3>1, <3>3, <4>1
    <3>4. CASE y # x
      BY <1>1, <2>1, <3>1, <3>2, <3>4
    <3> QED
      BY <3>3, <3>4
  <2>4. \A u \in Threads : u # part' => map'[u] = {}
    BY <1>1, <1>4, <1>7 DEF MapInv
  <2>5. ~Noted(x)
    BY <1>1, <1>4, <1>6 DEF MapInv, MapPcs, x
  <2>6. ASSUME NEW y \in OsSegments
        PROVE  ~(SegmentOf(y)' /\ y \in map'[Nobody])
    <3>1. ~(SegmentOf(y) /\ y \in map[Nobody])
      BY <1>4 DEF MapInv
    <3>2. CASE y = x
      <4>1. ~SegmentOf(x) /\ x \notin map[Nobody]
        BY <2>5 DEF Noted
      <4> QED
        BY <1>1, <1>6, <1>7, <3>2, <4>1, Known DEF SegmentOf
    <3>3. CASE y # x
      BY <1>1, <1>6, <1>7, <3>1, <3>3, Known DEF SegmentOf
    <3> QED
      BY <3>2, <3>3
  <2> QED
    BY <2>2, <2>3, <2>4, <2>6 DEF MapInv
<1>12. LockInv'
  BY <1>1, <1>3, <1>4, LockKept DEF LockPcs
<1>13. SubprocInv'
  BY <1>1, <1>2, <1>3, <1>4, SubprocKept DEF WorkPcs
<1>14. CountInv'
  <2>1. \A p \in Subprocs : Marked(p)' = Marked(p)
    BY <1>1, <1>3, MarkedKept
  <2> QED
    BY <1>1, <1>3, <1>4, <2>1, CountKept DEF ComingPcs, GoingPcs
<1>15. DataInv'
  BY <1>1, <1>3, <1>4, DataKept
<1> QED
  BY <1>8, <1>9, <1>10, <1>11, <1>12, <1>13, <1>14, <1>15 DEF IInv

LEMMA MallocInv ==
  ASSUME TypeOK, IInv, NEW t \in Threads, NEW s \in Segments, Malloc(t, s)
  PROVE  TypeOK' /\ IInv'
<1> DEFINE q == "idle"
           y == th[t].seg
           n == seg[s].blocks + 1
           new == [seg[s] EXCEPT !.blocks = n]
<1>1. /\ th[t].pc = "idle" /\ UNCHANGED <<bits, sub, arenaLock, part, map, td_cache, th>>
      /\ seg[s].live /\ seg[s].thread_id = t
  BY DEF Malloc, At, Owned
<1>2. q \notin HolderPcs /\ q \notin FreePcs /\ q \notin ZeroPcs /\ q \notin MapPcs
  BY DEF HolderPcs, FreePcs, ZeroPcs, MapPcs
<1>3. Moves(t, q, y)
  BY <1>1 DEF Moves, TypeOK
<1>4. HoldInv /\ PinInv /\ MapInv /\ LockInv /\ SubprocInv /\ CountInv /\ DataInv
  BY Parts
<1>5. n \in Nat /\ n > seg[s].blocks /\ seg[s].blocks \in Nat
  BY SegmentFields
<1>6. seg' = [seg EXCEPT ![s] = new]
  BY DEF Malloc, TypeOK, SegmentRecords
<1> HIDE DEF n
<1>7. /\ new \in SegmentRecords /\ new.live = seg[s].live /\ new.thread_id = seg[s].thread_id
      /\ new.subproc = seg[s].subproc /\ new.blocks = n
  BY <1>5, SegmentFields DEF SegmentRecords
<1> HIDE DEF new, y
<1>8. /\ seg' \in [Segments -> SegmentRecords] /\ seg'[s] = new
      /\ \A z \in Segments : z # s => seg'[z] = seg[z]
  BY <1>6, <1>7, SegStep
<1>9. \A z \in Segments : /\ seg'[z].live = seg[z].live /\ seg'[z].thread_id = seg[z].thread_id
                          /\ seg'[z].subproc = seg[z].subproc
  BY <1>7, <1>8
<1>10. TypeOK'
  BY <1>1, <1>2, <1>3, <1>8, RestSame, TypeStep
<1>11. HoldInv'
  BY <1>1, <1>2, <1>3, <1>4, <1>9, HoldKept
<1>12. PinInv'
  <2>1. Cardinality(Freeing(s)') = Cardinality(Freeing(s))
    BY <1>1, <1>2, <1>3, FreeingStep
  <2>2. seg'[s].blocks >= Cardinality(Freeing(s)')
    <3>1. seg[s].blocks >= Cardinality(Freeing(s)) /\ Cardinality(Freeing(s)) \in Nat
      BY <1>4, FreeingFinite DEF PinInv
    <3> QED
      BY <1>5, <1>7, <1>8, <2>1, <3>1
  <2>3. \A u \in Threads : u # t => ~(th[u].pc \in ZeroPcs /\ th[u].seg = s)
    <3>1. ZeroPcs \subseteq HolderPcs
      BY DEF ZeroPcs, MapPcs, HolderPcs
    <3> QED
      BY <1>1, <1>4, <3>1, NotHeld
  <2>4. /\ th[t].pc \notin FreePcs /\ q \notin FreePcs \cup ZeroPcs /\ seg'[s].live
        /\ \A z \in Segments : z # s => seg'[z].live = seg[z].live /\ seg'[z].blocks = seg[z].blocks
    BY <1>1, <1>2, <1>7, <1>8
  <2> HIDE DEF q
  <2> QED
    BY <1>3, <1>4, <2>2, <2>3, <2>4, PinStep
<1>13. MapInv'
  BY <1>1, <1>2, <1>3, <1>4, <1>9, MapKept
<1>14. LockInv'
  BY <1>1, <1>3, <1>4, LockKept
<1>15. SubprocInv'
  BY <1>1, <1>2, <1>3, <1>4, <1>9, SubprocKept DEF WorkPcs
<1>16. CountInv'
  <2>1. \A p \in Subprocs : Marked(p)' = Marked(p)
    BY <1>1, <1>3, <1>9, MarkedKept
  <2> QED
    BY <1>1, <1>3, <1>4, <2>1, CountKept
<1>17. DataInv'
  BY <1>1, <1>3, <1>4, DataKept
<1> QED
  BY <1>10, <1>11, <1>12, <1>13, <1>14, <1>15, <1>16, <1>17 DEF IInv

LEMMA SegmentFreeInv ==
  ASSUME TypeOK, IInv, NEW t \in Threads, NEW s \in Segments, SegmentFree(t, s)
  PROVE  TypeOK' /\ IInv'
<1> DEFINE q == "os_free"
<1>1. /\ th[t].pc = "idle" /\ UNCHANGED <<seg, bits, sub, arenaLock, part, map, td_cache>>
      /\ seg[s].live /\ seg[s].thread_id = t /\ seg[s].blocks = 0
  BY DEF SegmentFree, At, Owned
<1>2. q \in HolderPcs /\ th[t].pc \notin HolderPcs /\ q \in Pcs
  BY <1>1, PcSets DEF HolderPcs
<1>3. Moves(t, q, s)
  BY <1>2, PutMoves DEF SegmentFree
<1>4. HoldInv /\ PinInv /\ MapInv /\ LockInv /\ SubprocInv /\ CountInv /\ DataInv
  BY Parts
<1>5. TypeOK'
  BY <1>1, <1>3, RestSame, TypeStep
<1>6. HoldInv'
  <2>1. SameElsewhere(s)
    BY <1>1, <1>4, ElsewhereSame
  <2>2. s \notin bits /\ \A p \in Subprocs : s \notin Elems(sub[p].list)
    BY <1>1, <1>4, Known, Unlisted
  <2>3. Placed(t, q, s)
    BY <1>1, <2>2, Known DEF Placed
  <2>4. \A u \in Threads : u # t => ~(th[u].pc \in HolderPcs /\ th[u].seg = s)
    BY <1>1, <1>4, NotHeld
  <2> QED
    BY <1>2, <1>3, <1>4, <2>1, <2>3, <2>4, HoldStep
<1>7. PinInv'
  BY <1>1, <1>3, <1>4, PinKept DEF FreePcs
<1>8. MapInv'
  BY <1>1, <1>3, <1>4, MapKept DEF MapPcs
<1>9. LockInv'
  BY <1>1, <1>3, <1>4, LockKept DEF LockPcs
<1>10. SubprocInv'
  <2>1. seg[s].subproc = th[t].proc
    BY <1>1, <1>4 DEF SubprocInv
  <2> QED
    BY <1>1, <1>3, <1>4, <2>1, SubprocKept
<1>11. CountInv'
  <2>1. \A p \in Subprocs : Marked(p)' = Marked(p)
    BY <1>1, <1>3, MarkedKept
  <2> QED
    BY <1>1, <1>3, <1>4, <2>1, CountKept DEF ComingPcs, GoingPcs
<1>12. DataInv'
  BY <1>1, <1>3, <1>4, DataKept
<1> QED
  BY <1>5, <1>6, <1>7, <1>8, <1>9, <1>10, <1>11, <1>12 DEF IInv

\* One field of a segment changes.
LEMMA OwnerChanges ==
  ASSUME TypeOK, NEW x \in Segments, NEW v \in Threads \cup {Nobody},
         seg' = [seg EXCEPT ![x].thread_id = v]
  PROVE  /\ seg' \in [Segments -> SegmentRecords] /\ seg'[x].thread_id = v
         /\ seg'[x].live = seg[x].live /\ seg'[x].subproc = seg[x].subproc /\ seg'[x].blocks = seg[x].blocks
         /\ \A y \in Segments : y # x => seg'[y] = seg[y]
<1> DEFINE new == [seg[x] EXCEPT !.thread_id = v]
<1>1. seg' = [seg EXCEPT ![x] = new]
  BY DEF TypeOK, SegmentRecords
<1>2. /\ new \in SegmentRecords /\ new.live = seg[x].live /\ new.thread_id = v
      /\ new.subproc = seg[x].subproc /\ new.blocks = seg[x].blocks
  BY SegmentFields DEF SegmentRecords
<1> HIDE DEF new
<1> QED
  BY <1>1, <1>2, SegStep

LEMMA LiveChanges ==
  ASSUME TypeOK, NEW x \in Segments, seg' = [seg EXCEPT ![x].live = FALSE]
  PROVE  /\ seg' \in [Segments -> SegmentRecords] /\ seg'[x].thread_id = seg[x].thread_id
         /\ ~seg'[x].live /\ seg'[x].subproc = seg[x].subproc /\ seg'[x].blocks = seg[x].blocks
         /\ \A y \in Segments : y # x => seg'[y] = seg[y]
<1> DEFINE new == [seg[x] EXCEPT !.live = FALSE]
<1>1. seg' = [seg EXCEPT ![x] = new]
  BY DEF TypeOK, SegmentRecords
<1>2. /\ new \in SegmentRecords /\ ~new.live /\ new.thread_id = seg[x].thread_id
      /\ new.subproc = seg[x].subproc /\ new.blocks = seg[x].blocks
  BY SegmentFields DEF SegmentRecords
<1> HIDE DEF new
<1> QED
  BY <1>1, <1>2, SegStep

LEMMA SegmentOsFreeInv ==
  ASSUME TypeOK, IInv, NEW t \in Threads, SegmentOsFree(t)
  PROVE  TypeOK' /\ IInv'
<1> DEFINE q == "unmap"
           x == th[t].seg
<1>1. th[t].pc = "os_free" /\ UNCHANGED <<bits, sub, arenaLock, part, td_cache>>
  BY DEF SegmentOsFree, At
<1>2. th[t].pc \in HolderPcs /\ q \in Pcs /\ q \in HolderPcs
  BY <1>1, PcSets DEF HolderPcs
<1>3. Moves(t, q, x)
  BY <1>2, GoMoves DEF SegmentOsFree
<1>4. HoldInv /\ PinInv /\ MapInv /\ LockInv /\ SubprocInv /\ CountInv /\ DataInv
  BY Parts
<1>5. /\ x \in Segments /\ seg[x].live /\ x \notin bits
      /\ \A p \in Subprocs : x \notin Elems(sub[p].list)
      /\ \A u \in Threads : u # t => ~(th[u].pc \in HolderPcs /\ th[u].seg = x)
  BY <1>1, <1>2, <1>4, HolderKnows
<1>6. /\ seg' \in [Segments -> SegmentRecords] /\ seg'[x].thread_id = Nobody
      /\ seg'[x].live = seg[x].live /\ seg'[x].subproc = seg[x].subproc /\ seg'[x].blocks = seg[x].blocks
      /\ \A y \in Segments : y # x => seg'[y] = seg[y]
  BY <1>5, OwnerChanges DEF SegmentOsFree, Seg
<1>7. /\ map' \in [Threads \cup {Nobody} -> SUBSET OsSegments]
      /\ \A u \in Threads \cup {Nobody} : map'[u] = IF u \in {part, Nobody} THEN map[u] \ {x} ELSE map[u]
  <2>1. map' = [map EXCEPT ![part] = @ \ {x}, ![Nobody] = @ \ {x}]
    BY DEF SegmentOsFree, Seg
  <2>2. map \in [Threads \cup {Nobody} -> SUBSET OsSegments] /\ part \in Threads \cup {Nobody}
    BY DEF TypeOK
  <2> HIDE DEF x
  <2> QED
    BY <2>1, <2>2
<1> HIDE DEF x
<1>8. TypeOK'
  BY <1>1, <1>3, <1>5, <1>6, <1>7, RestSame, TypeStep
<1>9. HoldInv'
  <2>1. SameElsewhere(x)
    BY <1>1, <1>4, <1>5, <1>6, ElsewhereSame
  <2>2. Placed(t, q, x)
    BY <1>1, <1>2, <1>5, <1>6 DEF Placed
  <2> QED
    BY <1>2, <1>3, <1>4, <1>5, <2>1, <2>2, HoldStep DEF x
<1>10. PinInv'
  <2>1. seg[x].blocks = 0
    BY <1>1, <1>4 DEF PinInv, x
  <2>2. \A y \in Segments : seg'[y].live = seg[y].live /\ seg'[y].blocks = seg[y].blocks
    BY <1>6
  <2> QED
    BY <1>1, <1>3, <1>4, <1>5, <2>1, <2>2, PinKept DEF FreePcs
<1>11. MapInv'
  <2>1. \A u \in Threads : /\ u # t => th'[u] = th[u]
                           /\ th'[t].pc \in MapPcs /\ th[t].pc \notin MapPcs /\ th'[t].seg = x
    BY <1>1, <1>3 DEF Moves, MapPcs
  <2>2. \A u \in Threads : th'[u].pc = "map_set" => part' # Nobody
    BY <1>1, <1>3, <1>4, <2>1 DEF MapInv, Moves
  <2>3. ASSUME NEW y \in OsSegments
        PROVE  Noted(y)' <=> seg'[y].live /\ \A u \in Threads : th'[u].pc \in MapPcs => th'[u].seg # y
    <3>0. part \in Threads \cup {Nobody}
      BY DEF TypeOK
    <3>1. Noted(y)' <=> Noted(y) /\ y # x
      BY <1>1, <1>7, <3>0 DEF Noted, SegmentOf
    <3>2. Noted(y) <=> seg[y].live /\ \A u \in Threads : th[u].pc \in MapPcs => th[u].seg # y
      BY <1>4 DEF MapInv
    <3>3. CASE y = x
      BY <2>1, <3>1, <3>3
    <3>4. CASE y # x
      <4>1. seg'[y] = seg[y]
        BY <1>6, <3>4, Known
      <4> QED
        BY <2>1, <3>1, <3>2, <3>4, <4>1
    <3> QED
      BY <3>3, <3>4
  <2>4. \A u \in Threads : u # part' => map'[u] = {}
    BY <1>1, <1>4, <1>7, Known DEF MapInv
  <2>5. \A y \in OsSegments : ~(SegmentOf(y) /\ y \in map[Nobody])'
    <3>1. part \in Threads \cup {Nobody}
      BY DEF TypeOK
    <3>2. \A y : SegmentOf(y)' => SegmentOf(y)
      BY <1>1, <1>7, <3>1 DEF SegmentOf
    <3> QED
      BY <1>4, <1>7, <3>2 DEF MapInv
  <2> QED
    BY <2>2, <2>3, <2>4, <2>5 DEF MapInv
<1>12. LockInv'
  BY <1>1, <1>3, <1>4, LockKept DEF LockPcs
<1>13. SubprocInv'
  <2>1. seg[x].subproc = th[t].proc
    BY <1>1, <1>2, <1>4 DEF SubprocInv, x
  <2>2. \A y \in Segments : /\ seg'[y].subproc = seg[y].subproc
                            /\ seg'[y].thread_id \in {seg[y].thread_id, Nobody}
    BY <1>6
  <2> QED
    BY <1>3, <1>4, <1>5, <2>1, <2>2, SubprocStep
<1>14. CountInv'
  <2>1. \A y \in Segments : seg'[y].live = seg[y].live /\ seg'[y].subproc = seg[y].subproc
    BY <1>6
  <2>2. \A p \in Subprocs : Marked(p)' = Marked(p)
    BY <1>1, <1>3, <2>1, MarkedKept
  <2> QED
    BY <1>1, <1>3, <1>4, <2>2, CountKept DEF ComingPcs, GoingPcs
<1>15. DataInv'
  BY <1>1, <1>3, <1>4, DataKept
<1> QED
  BY <1>8, <1>9, <1>10, <1>11, <1>12, <1>13, <1>14, <1>15 DEF IInv

\* Where a call returns to.
LEMMA ReturnMoves ==
  ASSUME TypeOK, NEW t \in Threads, Go(t, Return(t))
  PROVE  \E q \in {"idle", "next"} : Moves(t, q, Nobody)
<1>1. Return(t) \in {"idle", "next"}
  BY DEF Return
<1>2. Return(t) \in Pcs
  BY <1>1, PcSets
<1> DEFINE q == Return(t)
<1>3. Go(t, q) /\ q \in Pcs /\ q \in {"idle", "next"}
  BY <1>1, <1>2
<1> HIDE DEF q
<1>4. Moves(t, q, IF q \in {"idle", "next"} THEN Nobody ELSE th[t].seg)
  BY <1>3, GoMoves
<1> QED
  BY <1>3, <1>4

LEMMA IdlePcs ==
  \A q \in {"idle", "next"} :
    /\ q \notin HolderPcs /\ q \notin FreePcs /\ q \notin LockPcs /\ q \notin MapPcs /\ q \notin ZeroPcs
    /\ q \notin ComingPcs /\ q \notin GoingPcs /\ q \notin WorkPcs /\ q # "remark" /\ q # "exchange"
    /\ q # "popped" /\ q # "clear_os"
BY DEF HolderPcs, FreePcs, LockPcs, MapPcs, ZeroPcs, ComingPcs, GoingPcs, WorkPcs

LEMMA ArenaFreeInv ==
  ASSUME TypeOK, IInv, NEW t \in Threads, ArenaFree(t)
  PROVE  TypeOK' /\ IInv'
<1> DEFINE x == th[t].seg
<1>1. th[t].pc = "unmap" /\ UNCHANGED <<bits, sub, arenaLock, part, map, td_cache>>
  BY DEF ArenaFree, At
<1>2. th[t].pc \in HolderPcs
  BY <1>1 DEF HolderPcs
<1>3. PICK q \in {"idle", "next"} : Moves(t, q, Nobody)
  BY ReturnMoves DEF ArenaFree
<1>4. HoldInv /\ PinInv /\ MapInv /\ LockInv /\ SubprocInv /\ CountInv /\ DataInv
  BY Parts
<1>5. /\ x \in Segments /\ seg[x].live /\ x \notin bits /\ seg[x].thread_id = Nobody
      /\ \A p \in Subprocs : x \notin Elems(sub[p].list)
      /\ \A u \in Threads : u # t => ~(th[u].pc \in HolderPcs /\ th[u].seg = x)
  BY <1>1, <1>2, <1>4, HolderKnows
<1>6. /\ seg' \in [Segments -> SegmentRecords] /\ seg'[x].thread_id = seg[x].thread_id
      /\ ~seg'[x].live /\ seg'[x].subproc = seg[x].subproc /\ seg'[x].blocks = seg[x].blocks
      /\ \A y \in Segments : y # x => seg'[y] = seg[y]
  BY <1>5, LiveChanges DEF ArenaFree, Seg
<1>7. seg[x].blocks = 0
  BY <1>1, <1>4 DEF PinInv, MapPcs
<1> HIDE DEF x
<1>8. TypeOK'
  BY <1>1, <1>3, <1>6, IdlePcs, RestSame, TypeStep
<1>9. HoldInv'
  <2>1. SameElsewhere(x)
    BY <1>1, <1>4, <1>5, <1>6, ElsewhereSame
  <2>2. Placed(t, q, x)
    BY <1>1, <1>3, <1>5, <1>6, IdlePcs DEF Placed
  <2> QED
    BY <1>2, <1>3, <1>4, <1>5, <2>1, <2>2, IdlePcs, HoldStep DEF x
<1>10. PinInv'
  <2>0. PICK z \in Segments : z = x
    BY <1>5
  <2>1. th[t].pc \notin FreePcs /\ q \notin FreePcs /\ q \notin ZeroPcs
    BY <1>1, IdlePcs DEF FreePcs
  <2>2. Cardinality(Freeing(z)') = Cardinality(Freeing(z))
    BY <1>3, <2>1, FreeingStep
  <2>3. seg'[z].blocks >= Cardinality(Freeing(z)')
    BY <1>4, <1>6, <2>0, <2>2 DEF PinInv
  <2>4. seg'[z].blocks = 0 /\ ~(seg'[z].blocks > 0)
    BY <1>6, <1>7, <2>0
  <2> QED
    BY <1>3, <1>4, <1>6, <2>0, <2>1, <2>3, <2>4, PinStep
<1>11. MapInv'
  <2>1. \A u \in Threads : /\ u # t => th'[u] = th[u]
                           /\ th'[t].pc \notin MapPcs /\ th[t].pc \in MapPcs /\ th[t].seg = x
    BY <1>1, <1>3, IdlePcs DEF Moves, MapPcs, x
  <2>2. \A u \in Threads : th'[u].pc = "map_set" => part' # Nobody
    BY <1>1, <1>4, <2>1 DEF MapInv, MapPcs
  <2>3. ASSUME NEW y \in OsSegments
        PROVE  Noted(y)' <=> seg'[y].live /\ \A u \in Threads : th'[u].pc \in MapPcs => th'[u].seg # y
    <3>1. Noted(y)' <=> Noted(y)
      BY <1>1 DEF Noted, SegmentOf
    <3>2. Noted(y) <=> seg[y].live /\ \A u \in Threads : th[u].pc \in MapPcs => th[u].seg # y
      BY <1>4 DEF MapInv
    <3>3. CASE y = x
      BY <1>6, <2>1, <3>1, <3>2, <3>3
    <3>4. CASE y # x
      <4>1. seg'[y] = seg[y]
        BY <1>6, <3>4, Known
      <4> QED
        BY <2>1, <3>1, <3>2, <3>4, <4>1
    <3> QED
      BY <3>3, <3>4
  <2> QED
    BY <1>1, <1>4, <2>2, <2>3 DEF MapInv, SegmentOf
<1>12. LockInv'
  BY <1>1, <1>3, <1>4, IdlePcs, LockKept DEF LockPcs
<1>13. SubprocInv'
  <2>1. \A y \in Segments : seg'[y].subproc = seg[y].subproc /\ seg'[y].thread_id = seg[y].thread_id
    BY <1>6
  <2> QED
    BY <1>3, <1>4, <2>1, IdlePcs, SubprocKept
<1>14. CountInv'
  <2>1. \A y \in Segments : (y \in bits \/ \E u \in Threads : th[u].seg = y /\ th[u].pc = "remark") => y # x
    BY <1>1, <1>5 DEF HolderPcs
  <2>2. \A p \in Subprocs : Marked(p)' = Marked(p)
    BY <1>1, <1>3, <1>6, <2>1, IdlePcs, MarkedKept
  <2> QED
    BY <1>1, <1>3, <1>4, <2>2, IdlePcs, CountKept DEF ComingPcs, GoingPcs
<1>15. DataInv'
  BY <1>1, <1>3, <1>4, IdlePcs, DataKept
<1> QED
  BY <1>8, <1>9, <1>10, <1>11, <1>12, <1>13, <1>14, <1>15 DEF IInv

-----------------------------------------------------------------------------
(* _pa_arena_segment_mark_abandoned.                                        *)

LEMMA AbandonInv ==
  ASSUME TypeOK, IInv, NEW t \in Threads, NEW s \in Segments, Abandon(t, s)
  PROVE  TypeOK' /\ IInv'
<1> DEFINE q == "mark"
<1>1. /\ th[t].pc = "idle" /\ UNCHANGED <<seg, bits, sub, arenaLock, part, map, td_cache>>
      /\ seg[s].live /\ seg[s].thread_id = t
  BY DEF Abandon, At, Owned
<1>2. q \in HolderPcs /\ th[t].pc \notin HolderPcs /\ q \in Pcs
  BY <1>1, PcSets DEF HolderPcs
<1>3. Moves(t, q, s)
  BY <1>2, PutMoves DEF Abandon
<1>4. HoldInv /\ PinInv /\ MapInv /\ LockInv /\ SubprocInv /\ CountInv /\ DataInv
  BY Parts
<1>5. TypeOK'
  BY <1>1, <1>3, RestSame, TypeStep
<1>6. HoldInv'
  <2>1. SameElsewhere(s)
    BY <1>1, <1>4, ElsewhereSame
  <2>2. s \notin bits /\ \A p \in Subprocs : s \notin Elems(sub[p].list)
    BY <1>1, <1>4, Known, Unlisted
  <2>3. Placed(t, q, s)
    BY <1>1, <2>2, Known DEF Placed
  <2>4. \A u \in Threads : u # t => ~(th[u].pc \in HolderPcs /\ th[u].seg = s)
    BY <1>1, <1>4, NotHeld
  <2> QED
    BY <1>2, <1>3, <1>4, <2>1, <2>3, <2>4, HoldStep
<1>7. PinInv'
  BY <1>1, <1>3, <1>4, PinKept DEF FreePcs, ZeroPcs, MapPcs
<1>8. MapInv'
  BY <1>1, <1>3, <1>4, MapKept DEF MapPcs
<1>9. LockInv'
  BY <1>1, <1>3, <1>4, LockKept DEF LockPcs
<1>10. SubprocInv'
  <2>1. seg[s].subproc = th[t].proc
    BY <1>1, <1>4 DEF SubprocInv
  <2> QED
    BY <1>1, <1>3, <1>4, <2>1, SubprocKept
<1>11. CountInv'
  <2>1. \A p \in Subprocs : Marked(p)' = Marked(p)
    BY <1>1, <1>3, MarkedKept
  <2> QED
    BY <1>1, <1>3, <1>4, <2>1, CountKept DEF ComingPcs, GoingPcs
<1>12. DataInv'
  BY <1>1, <1>3, <1>4, DataKept
<1> QED
  BY <1>5, <1>6, <1>7, <1>8, <1>9, <1>10, <1>11, <1>12 DEF IInv

LEMMA MarkAbandonedInv ==
  ASSUME TypeOK, IInv, NEW t \in Threads, MarkAbandoned(t)
  PROVE  TypeOK' /\ IInv'
<1> DEFINE x == th[t].seg
           q == IF x \in ArenaSegments THEN "mark_bit" ELSE "mark_lock"
<1>1. th[t].pc = "mark" /\ UNCHANGED <<bits, sub, arenaLock, part, map, td_cache>>
  BY DEF MarkAbandoned, At
<1>2. th[t].pc \in HolderPcs /\ q \in HolderPcs /\ q \in Pcs
  BY <1>1, PcSets DEF HolderPcs
<1>3. Go(t, q) /\ q \in {"mark_bit", "mark_lock"}
  BY DEF MarkAbandoned, IsArena, Seg
<1>4. HoldInv /\ PinInv /\ MapInv /\ LockInv /\ SubprocInv /\ CountInv /\ DataInv
  BY Parts
<1>5. /\ x \in Segments /\ seg[x].live /\ x \notin bits
      /\ \A p \in Subprocs : x \notin Elems(sub[p].list)
      /\ \A u \in Threads : u # t => ~(th[u].pc \in HolderPcs /\ th[u].seg = x)
  BY <1>1, <1>2, <1>4, HolderKnows
<1>6. (q = "mark_bit" => x \in ArenaSegments) /\ (q = "mark_lock" => x \in OsSegments)
  BY <1>5, Known
<1>7. /\ seg' \in [Segments -> SegmentRecords] /\ seg'[x].thread_id = Nobody
      /\ seg'[x].live = seg[x].live /\ seg'[x].subproc = seg[x].subproc /\ seg'[x].blocks = seg[x].blocks
      /\ \A y \in Segments : y # x => seg'[y] = seg[y]
  BY <1>5, OwnerChanges DEF MarkAbandoned, Seg
<1> HIDE DEF q
<1>8. Moves(t, q, x)
  BY <1>2, <1>3, GoMoves
<1> HIDE DEF x
<1>9. \A y \in Segments : /\ seg'[y].live = seg[y].live /\ seg'[y].subproc = seg[y].subproc
                          /\ seg'[y].blocks = seg[y].blocks
                          /\ seg'[y].thread_id \in {seg[y].thread_id, Nobody}
  BY <1>7
<1>10. /\ q \notin FreePcs /\ q \notin ZeroPcs /\ q \notin MapPcs /\ q \notin LockPcs
       /\ q \notin ComingPcs /\ q \notin GoingPcs /\ q # "remark" /\ q # "exchange" /\ q # "popped"
  BY <1>3 DEF FreePcs, ZeroPcs, MapPcs, LockPcs, ComingPcs, GoingPcs
<1>11. /\ th[t].pc \notin FreePcs /\ th[t].pc \notin MapPcs /\ th[t].pc \notin LockPcs
       /\ th[t].pc \notin ComingPcs /\ th[t].pc \notin GoingPcs
  BY <1>1 DEF FreePcs, MapPcs, LockPcs, ComingPcs, GoingPcs
<1>12. TypeOK'
  BY <1>1, <1>5, <1>7, <1>8, RestSame, TypeStep
<1>13. HoldInv'
  <2>1. SameElsewhere(x)
    BY <1>1, <1>4, <1>5, <1>7, ElsewhereSame
  <2>2. Placed(t, q, x)
    BY <1>1, <1>2, <1>3, <1>5, <1>6, <1>7 DEF Placed
  <2> QED
    BY <1>2, <1>4, <1>5, <1>8, <2>1, <2>2, HoldStep DEF x
<1>14. PinInv'
  BY <1>4, <1>8, <1>9, <1>10, <1>11, PinKept
<1>15. MapInv'
  BY <1>1, <1>4, <1>8, <1>9, <1>10, <1>11, MapKept
<1>16. LockInv'
  BY <1>1, <1>4, <1>8, <1>10, <1>11, LockKept
<1>17. SubprocInv'
  <2>1. seg[x].subproc = th[t].proc
    BY <1>1, <1>2, <1>4 DEF SubprocInv, x
  <2> QED
    BY <1>4, <1>5, <1>8, <1>9, <2>1, SubprocStep
<1>18. CountInv'
  <2>1. \A p \in Subprocs : Marked(p)' = Marked(p)
    BY <1>1, <1>8, <1>9, <1>10, MarkedKept
  <2> QED
    BY <1>1, <1>4, <1>8, <1>10, <1>11, <2>1, CountKept
<1>19. DataInv'
  BY <1>1, <1>4, <1>8, <1>10, DataKept
<1> QED
  BY <1>12, <1>13, <1>14, <1>15, <1>16, <1>17, <1>18, <1>19 DEF IInv

\* One more segment is marked, in its own sub-process.
LEMMA MarkedMore ==
  ASSUME NEW p0 \in Subprocs, NEW x \in Segments, seg[x].subproc = p0,
         Marked(p0)' = Marked(p0) \cup {x}, x \notin Marked(p0)
  PROVE  Cardinality(Marked(p0)') = Cardinality(Marked(p0)) + 1
<1>1. Cardinality(Marked(p0) \cup {x}) = Cardinality(Marked(p0)) + 1
  BY CountSets, OneMore
<1> QED
  BY <1>1

LEMMA MarkedLess ==
  ASSUME NEW p0 \in Subprocs, NEW x \in Segments, seg[x].subproc = p0,
         Marked(p0)' = Marked(p0) \ {x}, x \in Marked(p0)
  PROVE  Cardinality(Marked(p0)') = Cardinality(Marked(p0)) - 1
<1>1. Cardinality(Marked(p0) \ {x}) = Cardinality(Marked(p0)) - 1
  BY CountSets, OneLess
<1> QED
  BY <1>1

LEMMA MarkBitInv ==
  ASSUME TypeOK, IInv, NEW t \in Threads, MarkBit(t)
  PROVE  TypeOK' /\ IInv'
<1> DEFINE q == "mark_count"
           x == th[t].seg
<1>1. th[t].pc = "mark_bit" /\ UNCHANGED <<seg, sub, arenaLock, part, map, td_cache>> /\ bits' = bits \cup {x}
  BY DEF MarkBit, At, Seg
<1>2. th[t].pc \in HolderPcs /\ q \notin HolderPcs /\ q \notin FreePcs /\ q \notin ZeroPcs /\ q \in Pcs
  BY <1>1, PcSets DEF HolderPcs, FreePcs, ZeroPcs, MapPcs, PlainPcs
<1>3. Moves(t, q, x)
  BY <1>2, GoMoves DEF MarkBit
<1>4. HoldInv /\ PinInv /\ MapInv /\ LockInv /\ SubprocInv /\ CountInv /\ DataInv
  BY Parts
<1>5. /\ x \in Segments /\ seg[x].live /\ x \notin bits /\ seg[x].thread_id = Nobody
      /\ \A p \in Subprocs : x \notin Elems(sub[p].list)
      /\ \A u \in Threads : u # t => ~(th[u].pc \in HolderPcs /\ th[u].seg = x)
  BY <1>1, <1>2, <1>4, HolderKnows
<1>6. x \in ArenaSegments
  BY <1>1, <1>4 DEF HoldInv, InRightPlace
<1>7. seg[x].subproc = th[t].proc
  BY <1>1, <1>2, <1>4 DEF SubprocInv
<1> HIDE DEF x
<1>8. TypeOK'
  <2>1. bits' \subseteq ArenaSegments
    BY <1>1, <1>6 DEF TypeOK
  <2> QED
    BY <1>1, <1>2, <1>3, <2>1, RestSame, TypeStep
<1>9. HoldInv'
  <2>1. \A p \in Subprocs : NoDup(sub'[p].list) /\ Elems(sub'[p].list) \subseteq Segments
    BY <1>1, <1>4, ListsType
  <2>2. SameElsewhere(x)
    BY <1>1, <1>6, <2>1 DEF SameElsewhere, TypeOK
  <2>3. Placed(t, q, x)
    BY <1>1, <1>2, <1>5 DEF Placed
  <2> QED
    BY <1>2, <1>3, <1>4, <1>5, <2>2, <2>3, HoldStep DEF x
<1>10. PinInv'
  BY <1>1, <1>2, <1>3, <1>4, PinKept DEF FreePcs
<1>11. MapInv'
  BY <1>1, <1>3, <1>4, MapKept DEF MapPcs
<1>12. LockInv'
  BY <1>1, <1>3, <1>4, LockKept DEF LockPcs
<1>13. SubprocInv'
  BY <1>1, <1>3, <1>4, <1>5, <1>7, SubprocKept
<1>14. CountInv'
  <2>1. PICK p0 \in Subprocs : p0 = th[t].proc
    BY ThreadFields
  <2>2. \A y \in Segments : (\E u \in Threads : th'[u].seg = y /\ th'[u].pc = "remark")
                              <=> (\E u \in Threads : th[u].seg = y /\ th[u].pc = "remark")
    BY <1>1, <1>3 DEF Moves
  <2>3. \A p \in Subprocs : p # p0 => Marked(p)' = Marked(p)
    BY <1>1, <1>7, <2>1, <2>2 DEF Marked
  <2>4. Marked(p0)' = Marked(p0) \cup {x}
    BY <1>1, <1>5, <1>7, <2>1, <2>2 DEF Marked
  <2>5. x \notin Marked(p0)
    BY <1>1, <1>5 DEF Marked, HolderPcs
  <2>6. Cardinality(Marked(p0)') = Cardinality(Marked(p0)) + 1
    BY <1>5, <1>7, <2>1, <2>4, <2>5, MarkedMore
  <2>7. Cardinality(Coming(p0)') = Cardinality(Coming(p0)) + 1
    BY <1>1, <1>3, <2>1, ComingStep DEF ComingPcs
  <2>8. Cardinality(Going(p0)') = Cardinality(Going(p0))
    BY <1>1, <1>3, <2>1, GoingStep DEF GoingPcs
  <2>9. sub'[p0].count + (Cardinality(Coming(p0)') - Cardinality(Going(p0)'))
          = Len(sub'[p0].list) + Cardinality(Marked(p0)')
    <3> DEFINE a == sub[p0].count
               b == Cardinality(Coming(p0))
               c == Cardinality(Going(p0))
               d == Len(sub[p0].list)
               e == Cardinality(Marked(p0))
    <3>1. a + (b - c) = d + e /\ a \in Int /\ b \in Int /\ c \in Int /\ d \in Int /\ e \in Int
      BY <1>4, CountNow
    <3>2. /\ sub'[p0].count = a /\ Len(sub'[p0].list) = d /\ Cardinality(Coming(p0)') = b + 1
          /\ Cardinality(Going(p0)') = c /\ Cardinality(Marked(p0)') = e + 1
      BY <1>1, <2>6, <2>7, <2>8
    <3> HIDE DEF a, b, c, d, e
    <3>3. a + ((b + 1) - c) = d + (e + 1)
      BY <3>1, CountMath
    <3> QED
      BY <3>2, <3>3
  <2> QED
    BY <1>1, <1>3, <1>4, <2>1, <2>3, <2>9, CountStep
<1>15. DataInv'
  BY <1>1, <1>3, <1>4, DataKept
<1> QED
  BY <1>8, <1>9, <1>10, <1>11, <1>12, <1>13, <1>14, <1>15 DEF IInv

\* A thread settles with the count what it did to a bit or to the list.
LEMMA CountUp ==
  ASSUME TypeOK, CountInv, NEW t \in Threads, NEW q, NEW s, Moves(t, q, s), NEW p0 \in Subprocs,
         th[t].proc = p0, th[t].pc \in ComingPcs, q \notin ComingPcs, th[t].pc \notin GoingPcs, q \notin GoingPcs,
         sub'[p0].count = sub[p0].count + 1, sub'[p0].list = sub[p0].list,
         \A p \in Subprocs : p # p0 => sub'[p] = sub[p], \A p \in Subprocs : Marked(p)' = Marked(p)
  PROVE  CountInv'
<1> DEFINE a == sub[p0].count
           b == Cardinality(Coming(p0))
           c == Cardinality(Going(p0))
           d == Len(sub[p0].list)
           e == Cardinality(Marked(p0))
<1>1. a + (b - c) = d + e /\ a \in Int /\ b \in Int /\ c \in Int /\ d \in Int /\ e \in Int
  BY CountNow
<1>2. Cardinality(Coming(p0)') = b - 1
  BY ComingStep
<1>3. Cardinality(Going(p0)') = c
  BY GoingStep
<1>4. Marked(p0)' = Marked(p0)
  OBVIOUS
<1>5. Cardinality(Marked(p0)') = e
  BY <1>4
<1>6. sub'[p0].count = a + 1 /\ Len(sub'[p0].list) = d
  OBVIOUS
<1> HIDE DEF a, b, c, d, e
<1>7. (a + 1) + ((b - 1) - c) = d + e
  BY <1>1, CountMath
<1>8. sub'[p0].count + (Cardinality(Coming(p0)') - Cardinality(Going(p0)'))
        = Len(sub'[p0].list) + Cardinality(Marked(p0)')
  BY <1>2, <1>3, <1>5, <1>6, <1>7
<1> QED
  BY <1>8, CountStep

LEMMA CountDown ==
  ASSUME TypeOK, CountInv, NEW t \in Threads, NEW q, NEW s, Moves(t, q, s), NEW p0 \in Subprocs,
         th[t].proc = p0, th[t].pc \in GoingPcs, q \notin GoingPcs, th[t].pc \notin ComingPcs, q \notin ComingPcs,
         sub'[p0].count = sub[p0].count - 1, sub'[p0].list = sub[p0].list,
         \A p \in Subprocs : p # p0 => sub'[p] = sub[p], \A p \in Subprocs : Marked(p)' = Marked(p)
  PROVE  CountInv'
<1> DEFINE a == sub[p0].count
           b == Cardinality(Coming(p0))
           c == Cardinality(Going(p0))
           d == Len(sub[p0].list)
           e == Cardinality(Marked(p0))
<1>1. a + (b - c) = d + e /\ a \in Int /\ b \in Int /\ c \in Int /\ d \in Int /\ e \in Int
  BY CountNow
<1>2. Cardinality(Coming(p0)') = b
  BY ComingStep
<1>3. Cardinality(Going(p0)') = c - 1
  BY GoingStep
<1>4. Marked(p0)' = Marked(p0)
  OBVIOUS
<1>5. Cardinality(Marked(p0)') = e
  BY <1>4
<1>6. sub'[p0].count = a - 1 /\ Len(sub'[p0].list) = d
  OBVIOUS
<1> HIDE DEF a, b, c, d, e
<1>7. (a - 1) + (b - (c - 1)) = d + e
  BY <1>1, CountMath
<1>8. sub'[p0].count + (Cardinality(Coming(p0)') - Cardinality(Going(p0)'))
        = Len(sub'[p0].list) + Cardinality(Marked(p0)')
  BY <1>2, <1>3, <1>5, <1>6, <1>7
<1> QED
  BY <1>8, CountStep

LEMMA MarkCountInv ==
  ASSUME TypeOK, IInv, NEW t \in Threads, MarkCount(t)
  PROVE  TypeOK' /\ IInv'
<1>0. PICK p0 \in Subprocs : p0 = th[t].proc
  BY ThreadFields
<1> DEFINE new == [sub[p0] EXCEPT !.count = sub[p0].count + 1]
<1>1. th[t].pc = "mark_count" /\ UNCHANGED <<seg, bits, arenaLock, part, map, td_cache>>
  BY DEF MarkCount, At
<1>2. PICK q \in {"idle", "next"} : Moves(t, q, Nobody)
  BY ReturnMoves DEF MarkCount
<1>3. HoldInv /\ PinInv /\ MapInv /\ LockInv /\ SubprocInv /\ CountInv /\ DataInv
  BY Parts
<1>4. /\ th[t].pc \notin HolderPcs /\ th[t].pc \notin FreePcs /\ th[t].pc \notin LockPcs /\ th[t].pc \notin MapPcs
      /\ th[t].pc \in ComingPcs /\ th[t].pc \notin GoingPcs
  BY <1>1 DEF HolderPcs, FreePcs, LockPcs, MapPcs, ComingPcs, GoingPcs
<1>5. sub' = [sub EXCEPT ![p0] = new]
  BY <1>0 DEF MarkCount, Proc, TypeOK, SubprocRecords
<1>6. /\ new \in SubprocRecords /\ new.list = sub[p0].list /\ new.count = sub[p0].count + 1
      /\ new.os_count = sub[p0].os_count /\ new.lock = sub[p0].lock
  BY SubprocFields DEF SubprocRecords
<1> HIDE DEF new
<1>7. /\ sub' \in [Subprocs -> SubprocRecords] /\ sub'[p0] = new
      /\ \A r \in Subprocs : r # p0 => sub'[r] = sub[r]
  BY <1>5, <1>6, SubStep
<1>8. \A p \in Subprocs : /\ sub'[p].list = sub[p].list /\ sub'[p].lock = sub[p].lock
                          /\ sub'[p].os_count = sub[p].os_count
  BY <1>6, <1>7
<1>9. TypeOK'
  BY <1>1, <1>2, <1>7, IdlePcs, RestSame, TypeStep
<1>10. HoldInv'
  BY <1>1, <1>2, <1>3, <1>4, <1>8, IdlePcs, HoldKept
<1>11. PinInv'
  BY <1>1, <1>2, <1>3, <1>4, IdlePcs, PinKept
<1>12. MapInv'
  BY <1>1, <1>2, <1>3, <1>4, IdlePcs, MapKept
<1>13. LockInv'
  BY <1>1, <1>2, <1>3, <1>4, <1>8, IdlePcs, LockKept
<1>14. SubprocInv'
  BY <1>1, <1>2, <1>3, IdlePcs, SubprocKept
<1>15. CountInv'
  <2>1. \A p \in Subprocs : Marked(p)' = Marked(p)
    BY <1>1, <1>2, IdlePcs, MarkedKept
  <2> QED
    BY <1>0, <1>2, <1>3, <1>4, <1>6, <1>7, <2>1, IdlePcs, CountUp
<1>16. DataInv'
  BY <1>1, <1>2, <1>3, IdlePcs, DataKept
<1> QED
  BY <1>9, <1>10, <1>11, <1>12, <1>13, <1>14, <1>15, <1>16 DEF IInv

\* Nobody has taken a segment off the list of a lock that is free.
LEMMA FreeLock ==
  ASSUME TypeOK, LockInv, NEW p \in Subprocs, sub[p].lock = Nobody
  PROVE  sub[p].os_count = Len(sub[p].list) /\ \A u \in Threads : ~(th[u].proc = p /\ th[u].pc \in LockPcs)
<1>1. \A u \in Threads : ~(th[u].proc = p /\ th[u].pc \in LockPcs)
  BY Known DEF LockInv
<1>2. ~\E u \in Threads : th[u].proc = p /\ th[u].pc = "popped"
  BY <1>1 DEF LockPcs
<1>3. sub[p].os_count = Len(sub[p].list)
        + (IF \E u \in Threads : th[u].proc = p /\ th[u].pc = "popped" THEN 1 ELSE 0)
  BY DEF LockInv
<1>4. Len(sub[p].list) \in Nat
  BY SubprocFields
<1>5. sub[p].os_count = Len(sub[p].list)
  BY <1>2, <1>3, <1>4
<1> QED
  BY <1>1, <1>5

\* The thread with the lock is the only one that took one off.
LEMMA OwnLock ==
  ASSUME TypeOK, LockInv, NEW t \in Threads, th[t].pc \in LockPcs, NEW p \in Subprocs, p = th[t].proc
  PROVE  /\ sub[p].lock = t
         /\ th[t].pc = "popped" => sub[p].os_count = Len(sub[p].list) + 1
         /\ th[t].pc # "popped" => sub[p].os_count = Len(sub[p].list)
<1> DEFINE out == \E u \in Threads : th[u].proc = p /\ th[u].pc = "popped"
<1>1. sub[p].lock = t
  BY DEF LockInv
<1>2. out <=> th[t].pc = "popped"
  BY <1>1 DEF LockInv, LockPcs
<1>3. sub[p].os_count = Len(sub[p].list) + (IF out THEN 1 ELSE 0)
  BY DEF LockInv
<1> HIDE DEF out
<1>4. Len(sub[p].list) \in Nat
  BY SubprocFields
<1>5. CASE th[t].pc = "popped"
  BY <1>1, <1>2, <1>3, <1>4, <1>5
<1>6. CASE th[t].pc # "popped"
  <2>1. (IF out THEN 1 ELSE 0) = 0
    BY <1>2, <1>6
  <2>2. sub[p].os_count = Len(sub[p].list)
    <3> DEFINE n == Len(sub[p].list)
    <3>1. n \in Nat /\ sub[p].os_count = n + 0
      BY <1>3, <1>4, <2>1
    <3> HIDE DEF n
    <3>2. sub[p].os_count = n
      BY <3>1
    <3> QED
      BY <3>2 DEF n
  <2> QED
    BY <1>1, <1>6, <2>2
<1> QED
  BY <1>5, <1>6

LEMMA OsMarkLockInv ==
  ASSUME TypeOK, IInv, NEW t \in Threads, OsMarkLock(t)
  PROVE  TypeOK' /\ IInv'
<1>0. PICK p0 \in Subprocs : p0 = th[t].proc
  BY ThreadFields
<1> DEFINE new == [sub[p0] EXCEPT !.lock = t]
           q == "mark_push"
           x == th[t].seg
<1>1. th[t].pc = "mark_lock" /\ UNCHANGED <<seg, bits, arenaLock, part, map, td_cache>> /\ sub[p0].lock = Nobody
  BY <1>0 DEF OsMarkLock, At, Proc
<1>2. /\ th[t].pc \in HolderPcs /\ q \in HolderPcs /\ q \in Pcs
      /\ th[t].pc \notin FreePcs /\ q \notin FreePcs /\ th[t].pc \notin MapPcs /\ q \notin MapPcs
      /\ q \notin ZeroPcs /\ q \in LockPcs /\ q \in WorkPcs
      /\ th[t].pc \notin ComingPcs \cup GoingPcs /\ q \notin ComingPcs \cup GoingPcs
  BY <1>1, PcSets DEF HolderPcs, FreePcs, MapPcs, ZeroPcs, LockPcs, WorkPcs, ComingPcs, GoingPcs
<1>3. Moves(t, q, x)
  BY <1>2, GoMoves DEF OsMarkLock
<1>4. HoldInv /\ PinInv /\ MapInv /\ LockInv /\ SubprocInv /\ CountInv /\ DataInv
  BY Parts
<1>5. /\ x \in Segments /\ seg[x].live /\ x \notin bits /\ seg[x].thread_id = Nobody
      /\ \A p \in Subprocs : x \notin Elems(sub[p].list)
      /\ \A u \in Threads : u # t => ~(th[u].pc \in HolderPcs /\ th[u].seg = x)
  BY <1>1, <1>2, <1>4, HolderKnows
<1>6. x \in OsSegments /\ seg[x].subproc = th[t].proc
  BY <1>1, <1>2, <1>4 DEF HoldInv, InRightPlace, SubprocInv
<1>7. sub' = [sub EXCEPT ![p0] = new]
  BY <1>0 DEF OsMarkLock, Proc, TypeOK, SubprocRecords
<1>8. /\ new \in SubprocRecords /\ new.list = sub[p0].list /\ new.count = sub[p0].count
      /\ new.os_count = sub[p0].os_count /\ new.lock = t
  BY SubprocFields DEF SubprocRecords
<1> HIDE DEF new, x
<1>9. /\ sub' \in [Subprocs -> SubprocRecords] /\ sub'[p0] = new
      /\ \A r \in Subprocs : r # p0 => sub'[r] = sub[r]
  BY <1>7, <1>8, SubStep
<1>10. \A p \in Subprocs : sub'[p].list = sub[p].list /\ sub'[p].count = sub[p].count
  BY <1>8, <1>9
<1>11. TypeOK'
  BY <1>1, <1>3, <1>5, <1>9, RestSame, TypeStep
<1>12. HoldInv'
  <2>1. SameElsewhere(x)
    BY <1>1, <1>4, <1>5, <1>10, ElsewhereSame
  <2>2. Placed(t, q, x)
    BY <1>1, <1>2, <1>5, <1>6, <1>10 DEF Placed
  <2> QED
    BY <1>2, <1>3, <1>4, <1>5, <2>1, <2>2, HoldStep DEF x
<1>13. PinInv'
  BY <1>1, <1>2, <1>3, <1>4, PinKept
<1>14. MapInv'
  BY <1>1, <1>2, <1>3, <1>4, MapKept
<1>15. LockInv'
  <2>2. sub[p0].os_count = Len(sub[p0].list)
    BY <1>1, <1>4, FreeLock
  <2>3. sub'[p0].os_count = Len(sub'[p0].list) /\ Len(sub'[p0].list) \in Nat
    BY <1>8, <1>9, <2>2, SubprocFields
  <2> QED
    BY <1>0, <1>1, <1>2, <1>3, <1>4, <1>8, <1>9, <2>3, LockStep
<1>16. SubprocInv'
  BY <1>1, <1>3, <1>4, <1>5, <1>6, SubprocKept
<1>17. CountInv'
  <2>1. \A p \in Subprocs : Marked(p)' = Marked(p)
    BY <1>1, <1>3, MarkedKept
  <2> QED
    BY <1>2, <1>3, <1>4, <1>10, <2>1, CountKept
<1>18. DataInv'
  BY <1>1, <1>3, <1>4, DataKept
<1> QED
  BY <1>11, <1>12, <1>13, <1>14, <1>15, <1>16, <1>17, <1>18 DEF IInv

LEMMA OsMarkPushInv ==
  ASSUME TypeOK, IInv, NEW t \in Threads, OsMarkPush(t)
  PROVE  TypeOK' /\ IInv'
<1>0. PICK p0 \in Subprocs : p0 = th[t].proc
  BY ThreadFields
<1> DEFINE q == "mark_unlock"
           x == th[t].seg
           list == Append(sub[p0].list, x)
           n == sub[p0].os_count + 1
           new == [sub[p0] EXCEPT !.list = list, !.os_count = n]
<1>1. th[t].pc = "mark_push" /\ UNCHANGED <<seg, bits, arenaLock, part, map, td_cache>>
  BY DEF OsMarkPush, At
<1>2. /\ th[t].pc \in HolderPcs /\ q \notin HolderPcs /\ q \in Pcs
      /\ th[t].pc \notin FreePcs /\ q \notin FreePcs /\ th[t].pc \notin MapPcs /\ q \notin MapPcs
      /\ q \notin ZeroPcs /\ q \in LockPcs /\ th[t].pc \in LockPcs /\ q \notin WorkPcs
      /\ th[t].pc \notin ComingPcs /\ q \in ComingPcs /\ th[t].pc \notin GoingPcs /\ q \notin GoingPcs
  BY <1>1, PcSets DEF HolderPcs, FreePcs, MapPcs, ZeroPcs, LockPcs, WorkPcs, ComingPcs, GoingPcs
<1>3. Moves(t, q, x)
  BY <1>2, GoMoves DEF OsMarkPush
<1>4. HoldInv /\ PinInv /\ MapInv /\ LockInv /\ SubprocInv /\ CountInv /\ DataInv
  BY Parts
<1>5. /\ x \in Segments /\ seg[x].live /\ x \notin bits /\ seg[x].thread_id = Nobody
      /\ \A p \in Subprocs : x \notin Elems(sub[p].list)
      /\ \A u \in Threads : u # t => ~(th[u].pc \in HolderPcs /\ th[u].seg = x)
  BY <1>1, <1>2, <1>4, HolderKnows
<1>6. x \in OsSegments /\ seg[x].subproc = p0
  BY <1>0, <1>1, <1>2, <1>4 DEF HoldInv, InRightPlace, SubprocInv
<1>7. sub' = [sub EXCEPT ![p0] = new]
  BY <1>0 DEF OsMarkPush, Proc, Seg, TypeOK, SubprocRecords
<1>8. /\ list \in Seq(OsSegments) /\ Len(list) = Len(sub[p0].list) + 1
      /\ Elems(list) = Elems(sub[p0].list) \cup {x} /\ NoDup(list)
  BY <1>4, <1>5, <1>6, SubprocFields, ListsType, ElemsAppend
<1>9. n \in Int /\ n = sub[p0].os_count + 1
  BY SubprocFields
<1> HIDE DEF list, n
<1>10. /\ new \in SubprocRecords /\ new.list = list /\ new.count = sub[p0].count
       /\ new.os_count = n /\ new.lock = sub[p0].lock
  BY <1>8, <1>9, SubprocFields DEF SubprocRecords
<1> HIDE DEF new, x
<1>11. /\ sub' \in [Subprocs -> SubprocRecords] /\ sub'[p0] = new
       /\ \A r \in Subprocs : r # p0 => sub'[r] = sub[r]
  BY <1>7, <1>10, SubStep
<1>12. TypeOK'
  BY <1>1, <1>2, <1>3, <1>11, RestSame, TypeStep
<1>13. HoldInv'
  <2>1. \A p \in Subprocs : NoDup(sub'[p].list) /\ Elems(sub'[p].list) \subseteq Segments
    BY <1>4, <1>5, <1>8, <1>10, <1>11, ListsType
  <2>2. \A p \in Subprocs : \A y \in Segments : y # x => (y \in Elems(sub'[p].list) <=> y \in Elems(sub[p].list))
    BY <1>8, <1>10, <1>11
  <2>3. SameElsewhere(x)
    BY <1>1, <2>1, <2>2 DEF SameElsewhere, TypeOK
  <2>4. \A p \in Subprocs : x \in Elems(sub'[p].list) <=> p = p0
    BY <1>5, <1>8, <1>10, <1>11
  <2>5. Placed(t, q, x)
    BY <1>1, <1>2, <1>5, <1>6, <2>4 DEF Placed
  <2> QED
    BY <1>2, <1>3, <1>4, <1>5, <2>3, <2>5, HoldStep DEF x
<1>14. PinInv'
  BY <1>1, <1>2, <1>3, <1>4, PinKept
<1>15. MapInv'
  BY <1>1, <1>2, <1>3, <1>4, MapKept
<1>16. LockInv'
  <2>1. sub[p0].lock = t /\ sub[p0].os_count = Len(sub[p0].list)
    BY <1>0, <1>1, <1>2, <1>4, OwnLock
  <2>2. sub'[p0].os_count = Len(sub'[p0].list) /\ Len(sub'[p0].list) \in Nat
    BY <1>8, <1>9, <1>10, <1>11, <2>1, SubprocFields
  <2> QED
    BY <1>0, <1>2, <1>3, <1>4, <1>10, <1>11, <2>1, <2>2, LockStep
<1>17. SubprocInv'
  BY <1>1, <1>2, <1>3, <1>4, SubprocKept
<1>18. CountInv'
  <2> DEFINE a == sub[p0].count
             b == Cardinality(Coming(p0))
             c == Cardinality(Going(p0))
             d == Len(sub[p0].list)
             e == Cardinality(Marked(p0))
  <2>1. a + (b - c) = d + e /\ a \in Int /\ b \in Int /\ c \in Int /\ d \in Int /\ e \in Int
    BY <1>4, CountNow
  <2>2. Cardinality(Coming(p0)') = b + 1
    BY <1>0, <1>2, <1>3, ComingStep
  <2>3. Cardinality(Going(p0)') = c
    BY <1>0, <1>2, <1>3, GoingStep
  <2>4. \A p \in Subprocs : Marked(p)' = Marked(p)
    BY <1>1, <1>3, MarkedKept
  <2>5. Cardinality(Marked(p0)') = e
    BY <2>4
  <2>6. sub'[p0].count = a /\ Len(sub'[p0].list) = d + 1
    BY <1>8, <1>10, <1>11
  <2> HIDE DEF a, b, c, d, e
  <2>7. a + ((b + 1) - c) = (d + 1) + e
    BY <2>1, CountMath
  <2>8. sub'[p0].count + (Cardinality(Coming(p0)') - Cardinality(Going(p0)'))
          = Len(sub'[p0].list) + Cardinality(Marked(p0)')
    BY <2>2, <2>3, <2>5, <2>6, <2>7
  <2> QED
    BY <1>0, <1>3, <1>4, <1>11, <2>4, <2>8, CountStep
<1>19. DataInv'
  BY <1>1, <1>3, <1>4, DataKept
<1> QED
  BY <1>12, <1>13, <1>14, <1>15, <1>16, <1>17, <1>18, <1>19 DEF IInv

LEMMA OsMarkUnlockInv ==
  ASSUME TypeOK, IInv, NEW t \in Threads, OsMarkUnlock(t)
  PROVE  TypeOK' /\ IInv'
<1>0. PICK p0 \in Subprocs : p0 = th[t].proc
  BY ThreadFields
<1> DEFINE n == sub[p0].count + 1
           new == [sub[p0] EXCEPT !.count = n, !.lock = Nobody]
<1>1. th[t].pc = "mark_unlock" /\ UNCHANGED <<seg, bits, arenaLock, part, map, td_cache>>
  BY DEF OsMarkUnlock, At
<1>2. PICK q \in {"idle", "next"} : Moves(t, q, Nobody)
  BY ReturnMoves DEF OsMarkUnlock
<1>3. HoldInv /\ PinInv /\ MapInv /\ LockInv /\ SubprocInv /\ CountInv /\ DataInv
  BY Parts
<1>4. /\ th[t].pc \notin HolderPcs /\ th[t].pc \notin FreePcs /\ th[t].pc \in LockPcs /\ th[t].pc \notin MapPcs
      /\ th[t].pc \in ComingPcs /\ th[t].pc \notin GoingPcs
  BY <1>1 DEF HolderPcs, FreePcs, LockPcs, MapPcs, ComingPcs, GoingPcs
<1>5. sub' = [sub EXCEPT ![p0] = new]
  BY <1>0 DEF OsMarkUnlock, Proc, TypeOK, SubprocRecords
<1>17. n \in Int /\ n = sub[p0].count + 1
  BY SubprocFields
<1> HIDE DEF n
<1>6. /\ new \in SubprocRecords /\ new.list = sub[p0].list /\ new.count = n
      /\ new.os_count = sub[p0].os_count /\ new.lock = Nobody
  BY <1>17, SubprocFields DEF SubprocRecords
<1> HIDE DEF new
<1>7. /\ sub' \in [Subprocs -> SubprocRecords] /\ sub'[p0] = new
      /\ \A r \in Subprocs : r # p0 => sub'[r] = sub[r]
  BY <1>5, <1>6, SubStep
<1>8. \A p \in Subprocs : sub'[p].list = sub[p].list
  BY <1>6, <1>7
<1>9. TypeOK'
  BY <1>1, <1>2, <1>7, IdlePcs, RestSame, TypeStep
<1>10. HoldInv'
  BY <1>1, <1>2, <1>3, <1>4, <1>8, IdlePcs, HoldKept
<1>11. PinInv'
  BY <1>1, <1>2, <1>3, <1>4, IdlePcs, PinKept
<1>12. MapInv'
  BY <1>1, <1>2, <1>3, <1>4, IdlePcs, MapKept
<1>13. LockInv'
  <2>1. sub[p0].os_count = Len(sub[p0].list)
    BY <1>0, <1>1, <1>3, <1>4, OwnLock
  <2>2. sub'[p0].os_count = Len(sub'[p0].list) /\ Len(sub'[p0].list) \in Nat
    BY <1>6, <1>7, <2>1, SubprocFields
  <2> QED
    BY <1>0, <1>2, <1>3, <1>4, <1>6, <1>7, <2>2, IdlePcs, LockStep
<1>14. SubprocInv'
  BY <1>1, <1>2, <1>3, IdlePcs, SubprocKept
<1>15. CountInv'
  <2>1. \A p \in Subprocs : Marked(p)' = Marked(p)
    BY <1>1, <1>2, IdlePcs, MarkedKept
  <2> QED
    BY <1>0, <1>2, <1>3, <1>4, <1>6, <1>7, <1>17, <2>1, IdlePcs, CountUp
<1>16. DataInv'
  BY <1>1, <1>2, <1>3, IdlePcs, DataKept
<1> QED
  BY <1>9, <1>10, <1>11, <1>12, <1>13, <1>14, <1>15, <1>16 DEF IInv

-----------------------------------------------------------------------------
(* Freeing a block of an abandoned segment (pa_free_block_mt).              *)

LEMMA BlocksChange ==
  ASSUME TypeOK, NEW x \in Segments, NEW n \in Nat, seg' = [seg EXCEPT ![x].blocks = n]
  PROVE  /\ seg' \in [Segments -> SegmentRecords] /\ seg'[x].blocks = n
         /\ \A y \in Segments : y # x => seg'[y] = seg[y]
         /\ \A y \in Segments : /\ seg'[y].live = seg[y].live /\ seg'[y].thread_id = seg[y].thread_id
                                /\ seg'[y].subproc = seg[y].subproc
<1> DEFINE new == [seg[x] EXCEPT !.blocks = n]
<1>1. seg' = [seg EXCEPT ![x] = new]
  BY DEF TypeOK, SegmentRecords
<1>2. /\ new \in SegmentRecords /\ new.live = seg[x].live /\ new.thread_id = seg[x].thread_id
      /\ new.subproc = seg[x].subproc /\ new.blocks = n
  BY SegmentFields DEF SegmentRecords
<1> HIDE DEF new
<1>3. /\ seg' \in [Segments -> SegmentRecords] /\ seg'[x] = new
      /\ \A y \in Segments : y # x => seg'[y] = seg[y]
  BY <1>1, <1>2, SegStep
<1> QED
  BY <1>2, <1>3

\* A block is freed that was counted for nobody else.
LEMMA FreeBlockPins ==
  ASSUME TypeOK, PinInv, NEW t \in Threads, NEW q, NEW s, Moves(t, q, s), NEW x \in Segments,
         th[t].pc \in FreePcs => th[t].seg = x, q \notin FreePcs, q \notin ZeroPcs,
         th[t].pc \in FreePcs \/ seg[x].blocks > Cardinality(Freeing(x)), seg[x].live,
         \A y \in Segments : seg'[y].live = seg[y].live /\ (y # x => seg'[y].blocks = seg[y].blocks),
         seg'[x].blocks = seg[x].blocks - 1
  PROVE  PinInv'
<1>1. /\ seg[x].blocks \in Nat /\ Cardinality(Freeing(x)) \in Nat /\ seg[x].blocks >= Cardinality(Freeing(x))
  BY SegmentFields, FreeingFinite DEF PinInv
<1>2. CASE th[t].pc \in FreePcs
  <2>1. Cardinality(Freeing(x)') = Cardinality(Freeing(x)) - 1 /\ Cardinality(Freeing(x)) > 0
    BY <1>2, FreeingStep
  <2>2. seg'[x].blocks >= Cardinality(Freeing(x)') /\ seg[x].blocks > 0
    BY <1>1, <2>1
  <2>3. \A u \in Threads : ~(th[u].pc \in ZeroPcs /\ th[u].seg = x)
    BY <2>2 DEF PinInv, ZeroPcs
  <2> QED
    BY <2>2, <2>3, PinStep
<1>3. CASE th[t].pc \notin FreePcs
  <2>1. Cardinality(Freeing(x)') = Cardinality(Freeing(x))
    BY <1>3, FreeingStep
  <2>2. seg'[x].blocks >= Cardinality(Freeing(x)') /\ seg[x].blocks > 0
    BY <1>1, <1>3, <2>1
  <2>3. \A u \in Threads : ~(th[u].pc \in ZeroPcs /\ th[u].seg = x)
    BY <2>2 DEF PinInv, ZeroPcs
  <2> QED
    BY <1>3, <2>2, <2>3, PinStep
<1> QED
  BY <1>2, <1>3

\* The free of a block that leaves the segment to whoever has it.
LEMMA FreedInv ==
  ASSUME TypeOK, IInv, NEW t \in Threads, NEW s, Moves(t, "idle", s), NEW x \in Segments,
         th[t].pc \in {"idle", "clear"}, th[t].pc = "clear" => th[t].seg = x,
         th[t].pc \in FreePcs \/ seg[x].blocks > Cardinality(Freeing(x)), seg[x].live,
         FreeBlock(x), UNCHANGED <<bits, sub, arenaLock, part, map, td_cache>>
  PROVE  TypeOK' /\ IInv'
<1> DEFINE q == "idle"
           n == seg[x].blocks - 1
<1>1. HoldInv /\ PinInv /\ MapInv /\ LockInv /\ SubprocInv /\ CountInv /\ DataInv
  BY Parts
<1>2. n \in Nat
  <2>1. seg[x].blocks \in Nat /\ Cardinality(Freeing(x)) \in Nat
    BY SegmentFields, FreeingFinite
  <2>2. th[t].pc \in FreePcs => seg[x].blocks > 0
    BY <1>1, FreeingLive DEF FreePcs
  <2> QED
    BY <2>1, <2>2
<1>3. seg' = [seg EXCEPT ![x].blocks = n]
  BY DEF FreeBlock
<1>9. n = seg[x].blocks - 1
  OBVIOUS
<1> HIDE DEF n
<1>4. /\ seg' \in [Segments -> SegmentRecords] /\ seg'[x].blocks = n
      /\ \A y \in Segments : y # x => seg'[y] = seg[y]
      /\ \A y \in Segments : /\ seg'[y].live = seg[y].live /\ seg'[y].thread_id = seg[y].thread_id
                             /\ seg'[y].subproc = seg[y].subproc
  BY <1>2, <1>3, BlocksChange
<1>5. /\ th[t].pc \notin HolderPcs /\ th[t].pc \notin LockPcs /\ th[t].pc \notin MapPcs
      /\ th[t].pc \notin ComingPcs /\ th[t].pc \notin GoingPcs /\ th[t].pc # "remark" /\ th[t].pc # "popped"
      /\ (th[t].pc \in FreePcs <=> th[t].pc = "clear")
  BY DEF HolderPcs, LockPcs, MapPcs, ComingPcs, GoingPcs, FreePcs
<1>6. TypeOK'
  BY <1>4, IdlePcs, RestSame, TypeStep
<1>7. HoldInv'
  BY <1>1, <1>4, <1>5, IdlePcs, HoldKept
<1>8. PinInv'
  BY <1>1, <1>4, <1>5, <1>9, IdlePcs, FreeBlockPins
<1>10. MapInv'
  BY <1>1, <1>4, <1>5, IdlePcs, MapKept
<1>11. LockInv'
  BY <1>1, <1>5, IdlePcs, LockKept
<1>12. SubprocInv'
  BY <1>1, <1>4, IdlePcs, SubprocKept
<1>13. CountInv'
  <2>1. \A p \in Subprocs : Marked(p)' = Marked(p)
    BY <1>4, <1>5, IdlePcs, MarkedKept
  <2> QED
    BY <1>1, <1>5, <2>1, IdlePcs, CountKept
<1>14. DataInv'
  BY <1>1, DataKept
<1> QED
  BY <1>6, <1>7, <1>8, <1>10, <1>11, <1>12, <1>13, <1>14 DEF IInv

LEMMA FreeInv ==
  ASSUME TypeOK, IInv, NEW t \in Threads, NEW s \in Segments, Free(t, s)
  PROVE  TypeOK' /\ IInv'
<1>1. /\ th[t].pc = "idle" /\ seg[s].live /\ seg[s].blocks > Cardinality(Freeing(s))
      /\ UNCHANGED <<bits, sub, arenaLock, part, map, td_cache>>
  BY DEF Free, At
<1>2. CASE FreeBlock(s) /\ UNCHANGED th
  <2>1. PICK y : y = th[t].seg
    OBVIOUS
  <2>2. Moves(t, "idle", y)
    BY <1>1, <1>2, <2>1 DEF Moves, TypeOK
  <2> QED
    BY <1>1, <1>2, <2>2, FreedInv
<1>3. CASE /\ seg[s].thread_id = Nobody /\ seg[s].subproc = Proc(t)
           /\ th' = [th EXCEPT ![t].seg = s, ![t].pc = "clear"]
           /\ UNCHANGED seg
  <2> DEFINE q == "clear"
  <2>1. HoldInv /\ PinInv /\ MapInv /\ LockInv /\ SubprocInv /\ CountInv /\ DataInv
    BY Parts
  <2>2. /\ q \in FreePcs /\ q \in Pcs /\ q \notin HolderPcs /\ q \notin ZeroPcs /\ q \notin MapPcs
        /\ q \notin LockPcs /\ q \notin ComingPcs /\ q \notin GoingPcs
    BY PcSets DEF FreePcs, HolderPcs, ZeroPcs, MapPcs, LockPcs, ComingPcs, GoingPcs
  <2>3. Moves(t, q, s)
    BY <1>3, <2>2, PutMoves
  <2>4. TypeOK'
    BY <1>1, <1>3, <2>3, RestSame, TypeStep
  <2>5. HoldInv'
    BY <1>1, <1>3, <2>1, <2>2, <2>3, IdlePcs, HoldKept
  <2>6. PinInv'
    <3>1. Cardinality(Freeing(s)') = Cardinality(Freeing(s)) + 1
      BY <1>1, <2>2, <2>3, IdlePcs, FreeingStep
    <3>2. seg[s].blocks \in Nat /\ Cardinality(Freeing(s)) \in Nat
      BY SegmentFields, FreeingFinite
    <3>3. seg'[s].blocks >= Cardinality(Freeing(s)') /\ seg[s].blocks > 0
      BY <1>1, <1>3, <3>1, <3>2
    <3>4. \A u \in Threads : ~(th[u].pc \in ZeroPcs /\ th[u].seg = s)
      BY <2>1, <3>3 DEF PinInv, ZeroPcs
    <3> QED
      BY <1>1, <1>3, <2>1, <2>2, <2>3, <3>3, <3>4, IdlePcs, PinStep
  <2>7. MapInv'
    BY <1>1, <1>3, <2>1, <2>2, <2>3, IdlePcs, MapKept
  <2>8. LockInv'
    BY <1>1, <1>3, <2>1, <2>2, <2>3, IdlePcs, LockKept
  <2>9. SubprocInv'
    BY <1>1, <1>3, <2>1, <2>3, SubprocKept DEF Proc
  <2>10. CountInv'
    <3>1. \A p \in Subprocs : Marked(p)' = Marked(p)
      BY <1>1, <1>3, <2>3, MarkedKept
    <3> QED
      BY <1>1, <1>3, <2>1, <2>2, <2>3, <3>1, IdlePcs, CountKept
  <2>11. DataInv'
    BY <1>1, <2>1, <2>3, DataKept
  <2> QED
    BY <2>4, <2>5, <2>6, <2>7, <2>8, <2>9, <2>10, <2>11 DEF IInv
<1> QED
  BY <1>2, <1>3 DEF Free

\* Who clears the bit has the segment, to reclaim it or to mark it again.
LEMMA BitTaken ==
  ASSUME TypeOK, IInv, NEW t \in Threads, NEW q \in {"clear_count", "bit_count", "remark"},
         NEW x \in Segments, Moves(t, q, x), x \in bits, bits' = bits \ {x},
         UNCHANGED <<seg, sub, arenaLock, part, map, td_cache>>, th[t].pc \in {"clear", "bit"},
         th[t].pc = "clear" <=> q = "clear_count", th[t].pc = "clear" => th[t].seg = x,
         q = "remark" <=> seg[x].subproc # th[t].proc
  PROVE  TypeOK' /\ IInv'
<1>1. HoldInv /\ PinInv /\ MapInv /\ LockInv /\ SubprocInv /\ CountInv /\ DataInv
  BY Parts
<1>2. /\ th[t].pc \notin HolderPcs /\ q \in HolderPcs /\ (th[t].pc \in FreePcs <=> q \in FreePcs)
      /\ th[t].pc \notin ZeroPcs /\ q \notin ZeroPcs /\ th[t].pc \notin MapPcs /\ q \notin MapPcs
      /\ th[t].pc \notin LockPcs /\ q \notin LockPcs /\ th[t].pc \notin ComingPcs /\ q \notin ComingPcs
      /\ th[t].pc \notin GoingPcs /\ (q \in GoingPcs <=> q # "remark") /\ (q \in WorkPcs <=> q # "remark")
      /\ (q \in FreePcs <=> q = "clear_count") /\ th[t].pc # "remark" /\ th[t].pc # "popped" /\ q # "popped"
      /\ q # "exchange"
  BY DEF HolderPcs, FreePcs, ZeroPcs, MapPcs, LockPcs, ComingPcs, GoingPcs, WorkPcs
<1>3. /\ seg[x].live /\ seg[x].thread_id = Nobody /\ x \in ArenaSegments
      /\ \A p \in Subprocs : x \notin Elems(sub[p].list)
      /\ \A u \in Threads : ~(th[u].pc \in HolderPcs /\ th[u].seg = x)
  <2>1. seg[x].live /\ seg[x].thread_id = Nobody /\ x \in ArenaSegments
    BY <1>1 DEF HoldInv, BitsAbandoned, TypeOK
  <2>2. \A p \in Subprocs : x \notin Elems(sub[p].list)
    BY <1>1, <2>1, ListsType, Known
  <2>3. \A u \in Threads : u # t => ~(th[u].pc \in HolderPcs /\ th[u].seg = x)
    BY <1>1, NotHeld
  <2> QED
    BY <1>2, <2>1, <2>2, <2>3
<1>4. TypeOK'
  <2>1. bits' \subseteq ArenaSegments
    BY DEF TypeOK
  <2> QED
    BY <2>1, RestSame, TypeStep
<1>5. HoldInv'
  <2>1. \A p \in Subprocs : NoDup(sub'[p].list) /\ Elems(sub'[p].list) \subseteq Segments
    BY <1>1, ListsType
  <2>2. SameElsewhere(x)
    BY <2>1 DEF SameElsewhere, TypeOK
  <2>3. Placed(t, q, x)
    BY <1>2, <1>3 DEF Placed
  <2> QED
    BY <1>1, <1>2, <1>3, <2>2, <2>3, HoldStep
<1>6. PinInv'
  BY <1>1, <1>2, PinKept
<1>7. MapInv'
  BY <1>1, <1>2, MapKept
<1>8. LockInv'
  BY <1>1, <1>2, LockKept
<1>9. SubprocInv'
  BY <1>1, <1>2, SubprocKept
<1>10. CountInv'
  <2>1. PICK p0 \in Subprocs : p0 = th[t].proc
    BY ThreadFields
  <2>2. \A y \in Segments : (\E u \in Threads : th'[u].seg = y /\ th'[u].pc = "remark")
          <=> (\E u \in Threads : th[u].seg = y /\ th[u].pc = "remark") \/ (y = x /\ q = "remark")
    BY <1>2 DEF Moves
  <2>3. ~\E u \in Threads : th[u].seg = x /\ th[u].pc = "remark"
    BY <1>3 DEF HolderPcs
  <2>4. CASE q = "remark"
    <3>1. \A p \in Subprocs : Marked(p)' = Marked(p)
      BY <2>2, <2>4 DEF Marked
    <3> QED
      BY <1>1, <1>2, <2>4, <3>1, CountKept
  <2>5. CASE q # "remark"
    <3>1. \A p \in Subprocs : p # p0 => Marked(p)' = Marked(p)
      BY <2>1, <2>2, <2>5 DEF Marked
    <3>2. Marked(p0)' = Marked(p0) \ {x}
      BY <2>2, <2>3, <2>5 DEF Marked
    <3>3. x \in Marked(p0)
      BY <1>3, <2>1, <2>5 DEF Marked
    <3>4. Cardinality(Marked(p0)') = Cardinality(Marked(p0)) - 1
      BY <2>1, <2>5, <3>2, <3>3, MarkedLess
    <3>5. Cardinality(Coming(p0)') = Cardinality(Coming(p0))
      BY <1>2, <2>1, ComingStep
    <3>6. Cardinality(Going(p0)') = Cardinality(Going(p0)) + 1
      BY <1>2, <2>1, <2>5, GoingStep
    <3>7. sub'[p0].count + (Cardinality(Coming(p0)') - Cardinality(Going(p0)'))
            = Len(sub'[p0].list) + Cardinality(Marked(p0)')
      <4> DEFINE a == sub[p0].count
                 b == Cardinality(Coming(p0))
                 c == Cardinality(Going(p0))
                 d == Len(sub[p0].list)
                 e == Cardinality(Marked(p0))
      <4>1. a + (b - c) = d + e /\ a \in Int /\ b \in Int /\ c \in Int /\ d \in Int /\ e \in Int
        BY <1>1, CountNow
      <4>2. /\ sub'[p0].count = a /\ Len(sub'[p0].list) = d /\ Cardinality(Coming(p0)') = b
            /\ Cardinality(Going(p0)') = c + 1 /\ Cardinality(Marked(p0)') = e - 1
        BY <3>4, <3>5, <3>6
      <4> HIDE DEF a, b, c, d, e
      <4>3. a + (b - (c + 1)) = d + (e - 1)
        BY <4>1, CountMath
      <4> QED
        BY <4>2, <4>3
    <3> QED
      BY <1>1, <2>1, <3>1, <3>7, CountStep
  <2> QED
    BY <2>4, <2>5
<1>11. DataInv'
  BY <1>1, <1>2, DataKept
<1> QED
  BY <1>4, <1>5, <1>6, <1>7, <1>8, <1>9, <1>10, <1>11 DEF IInv

LEMMA ClearAbandonedInv ==
  ASSUME TypeOK, IInv, NEW t \in Threads, ClearAbandoned(t)
  PROVE  TypeOK' /\ IInv'
<1>1. th[t].pc = "clear" /\ UNCHANGED <<sub, arenaLock, part, map, td_cache>>
  BY DEF ClearAbandoned, At
<1>2. HoldInv /\ PinInv /\ MapInv /\ LockInv /\ SubprocInv /\ CountInv /\ DataInv
  BY Parts
<1>3. th[t].pc \in FreePcs /\ th[t].pc \in WorkPcs
  BY <1>1 DEF FreePcs, WorkPcs
<1>4. th[t].seg \in Segments /\ seg[th[t].seg].live /\ seg[th[t].seg].subproc = th[t].proc
  BY <1>2, <1>3, FreeingLive DEF SubprocInv, WorkPcs
<1>5. PICK x \in Segments : x = th[t].seg
  BY <1>4
<1>6. CASE x \in bits
  <2>1. bits' = bits \ {x} /\ Go(t, "clear_count") /\ UNCHANGED seg
    BY <1>5, <1>6 DEF ClearAbandoned, Seg
  <2>2. Moves(t, "clear_count", x)
    BY <1>5, <2>1, GoMoves, PcSets DEF FreePcs
  <2> QED
    BY <1>1, <1>4, <1>5, <1>6, <2>1, <2>2, BitTaken
<1>7. CASE x \notin bits
  <2>1. FreeBlock(x) /\ Go(t, "idle") /\ UNCHANGED bits
    BY <1>5, <1>7 DEF ClearAbandoned, Seg
  <2>2. Moves(t, "idle", Nobody)
    BY <2>1, GoMoves, PcSets DEF PlainPcs
  <2> QED
    BY <1>1, <1>3, <1>4, <1>5, <2>1, <2>2, FreedInv
<1> QED
  BY <1>6, <1>7

LEMMA ClearCountInv ==
  ASSUME TypeOK, IInv, NEW t \in Threads, ClearCount(t)
  PROVE  TypeOK' /\ IInv'
<1>0. PICK p0 \in Subprocs : p0 = th[t].proc
  BY ThreadFields
<1> DEFINE q == "clear_own"
           x == th[t].seg
           n == sub[p0].count - 1
           new == [sub[p0] EXCEPT !.count = n]
<1>1. th[t].pc = "clear_count" /\ UNCHANGED <<seg, bits, arenaLock, part, map, td_cache>>
  BY DEF ClearCount, At
<1>2. /\ th[t].pc \in HolderPcs /\ q \in HolderPcs /\ q \in Pcs /\ th[t].pc \in FreePcs /\ q \in FreePcs
      /\ th[t].pc \notin MapPcs /\ q \notin MapPcs /\ q \notin ZeroPcs /\ th[t].pc \notin LockPcs
      /\ q \notin LockPcs /\ th[t].pc \notin ComingPcs /\ q \notin ComingPcs /\ th[t].pc \in GoingPcs
      /\ q \notin GoingPcs /\ th[t].pc \in WorkPcs
  BY <1>1, PcSets DEF HolderPcs, FreePcs, MapPcs, ZeroPcs, LockPcs, WorkPcs, ComingPcs, GoingPcs
<1>3. Moves(t, q, x)
  BY <1>2, GoMoves DEF ClearCount
<1>4. HoldInv /\ PinInv /\ MapInv /\ LockInv /\ SubprocInv /\ CountInv /\ DataInv
  BY Parts
<1>5. /\ x \in Segments /\ seg[x].live /\ x \notin bits /\ seg[x].thread_id = Nobody
      /\ \A p \in Subprocs : x \notin Elems(sub[p].list)
      /\ \A u \in Threads : u # t => ~(th[u].pc \in HolderPcs /\ th[u].seg = x)
  BY <1>1, <1>2, <1>4, HolderKnows
<1>6. x \in ArenaSegments /\ seg[x].subproc = th[t].proc
  BY <1>1, <1>2, <1>4 DEF HoldInv, InRightPlace, SubprocInv
<1>7. sub' = [sub EXCEPT ![p0] = new]
  BY <1>0 DEF ClearCount, Proc, TypeOK, SubprocRecords
<1>8. n \in Int /\ n = sub[p0].count - 1
  BY SubprocFields
<1> HIDE DEF n
<1>9. /\ new \in SubprocRecords /\ new.list = sub[p0].list /\ new.count = n
      /\ new.os_count = sub[p0].os_count /\ new.lock = sub[p0].lock
  BY <1>8, SubprocFields DEF SubprocRecords
<1> HIDE DEF new, x
<1>10. /\ sub' \in [Subprocs -> SubprocRecords] /\ sub'[p0] = new
       /\ \A r \in Subprocs : r # p0 => sub'[r] = sub[r]
  BY <1>7, <1>9, SubStep
<1>11. \A p \in Subprocs : /\ sub'[p].list = sub[p].list /\ sub'[p].lock = sub[p].lock
                           /\ sub'[p].os_count = sub[p].os_count
  BY <1>9, <1>10
<1>12. TypeOK'
  BY <1>1, <1>3, <1>5, <1>10, RestSame, TypeStep
<1>13. HoldInv'
  <2>1. SameElsewhere(x)
    BY <1>1, <1>4, <1>5, <1>11, ElsewhereSame
  <2>2. Placed(t, q, x)
    BY <1>1, <1>2, <1>5, <1>6, <1>11 DEF Placed
  <2> QED
    BY <1>2, <1>3, <1>4, <1>5, <2>1, <2>2, HoldStep DEF x
<1>14. PinInv'
  BY <1>1, <1>2, <1>3, <1>4, PinKept DEF x
<1>15. MapInv'
  BY <1>1, <1>2, <1>3, <1>4, MapKept
<1>16. LockInv'
  BY <1>1, <1>2, <1>3, <1>4, <1>11, LockKept
<1>17. SubprocInv'
  BY <1>1, <1>3, <1>4, <1>5, <1>6, SubprocKept
<1>18. CountInv'
  <2>1. \A p \in Subprocs : Marked(p)' = Marked(p)
    BY <1>1, <1>3, MarkedKept
  <2> QED
    BY <1>0, <1>2, <1>3, <1>4, <1>8, <1>9, <1>10, <2>1, CountDown
<1>19. DataInv'
  BY <1>1, <1>3, <1>4, DataKept
<1> QED
  BY <1>12, <1>13, <1>14, <1>15, <1>16, <1>17, <1>18, <1>19 DEF IInv

LEMMA ClearOwnInv ==
  ASSUME TypeOK, IInv, NEW t \in Threads, ClearOwn(t)
  PROVE  TypeOK' /\ IInv'
<1> DEFINE q == "idle"
           x == th[t].seg
           n == seg[x].blocks - 1
           new == [seg[x] EXCEPT !.thread_id = t, !.blocks = n]
<1>1. th[t].pc = "clear_own" /\ UNCHANGED <<bits, sub, arenaLock, part, map, td_cache>>
  BY DEF ClearOwn, At
<1>2. /\ th[t].pc \in HolderPcs /\ th[t].pc \in FreePcs /\ th[t].pc \notin MapPcs /\ th[t].pc \notin LockPcs
      /\ th[t].pc \notin ComingPcs /\ th[t].pc \notin GoingPcs /\ th[t].pc \in WorkPcs /\ q \in Pcs
  BY <1>1, PcSets DEF HolderPcs, FreePcs, MapPcs, LockPcs, WorkPcs, ComingPcs, GoingPcs, PlainPcs
<1>3. Moves(t, q, Nobody)
  BY <1>2, GoMoves DEF ClearOwn
<1>4. HoldInv /\ PinInv /\ MapInv /\ LockInv /\ SubprocInv /\ CountInv /\ DataInv
  BY Parts
<1>5. /\ x \in Segments /\ seg[x].live /\ x \notin bits /\ seg[x].thread_id = Nobody
      /\ \A p \in Subprocs : x \notin Elems(sub[p].list)
      /\ \A u \in Threads : u # t => ~(th[u].pc \in HolderPcs /\ th[u].seg = x)
  BY <1>1, <1>2, <1>4, HolderKnows
<1>6. seg[x].subproc = th[t].proc
  BY <1>2, <1>4 DEF SubprocInv, WorkPcs
<1>7. n \in Nat /\ n = seg[x].blocks - 1
  <2>1. seg[x].blocks > 0
    BY <1>2, <1>4, FreeingLive
  <2> QED
    BY <1>5, <2>1, SegmentFields
<1>8. seg' = [seg EXCEPT ![x] = new]
  BY <1>5 DEF ClearOwn, Seg, TypeOK, SegmentRecords
<1> HIDE DEF n
<1>9. /\ seg' \in [Segments -> SegmentRecords] /\ seg'[x].blocks = n /\ seg'[x].thread_id = t
      /\ \A y \in Segments : y # x => seg'[y] = seg[y]
      /\ \A y \in Segments : seg'[y].live = seg[y].live /\ seg'[y].subproc = seg[y].subproc
  <2> HIDE DEF x
  <2>1. /\ new \in SegmentRecords /\ new.live = seg[x].live /\ new.thread_id = t
        /\ new.subproc = seg[x].subproc /\ new.blocks = n
    BY <1>5, <1>7, SegmentFields DEF SegmentRecords
  <2> HIDE DEF new
  <2>2. /\ seg' \in [Segments -> SegmentRecords] /\ seg'[x] = new
        /\ \A y \in Segments : y # x => seg'[y] = seg[y]
    BY <1>5, <1>8, <2>1, SegStep
  <2> QED
    BY <2>1, <2>2
<1> HIDE DEF x
<1>10. TypeOK'
  BY <1>1, <1>3, <1>9, IdlePcs, RestSame, TypeStep
<1>11. HoldInv'
  <2>1. SameElsewhere(x)
    BY <1>1, <1>4, <1>5, <1>9, ElsewhereSame
  <2>2. Placed(t, q, x)
    BY <1>1, <1>5, <1>9, IdlePcs, Known DEF Placed
  <2> QED
    BY <1>3, <1>4, <1>5, <2>1, <2>2, IdlePcs, HoldStep DEF x
<1>12. PinInv'
  <2>1. PICK z \in Segments : z = x
    BY <1>5
  <2> QED
    BY <1>2, <1>3, <1>4, <1>5, <1>7, <1>9, <2>1, IdlePcs, FreeBlockPins DEF x
<1>13. MapInv'
  BY <1>1, <1>2, <1>3, <1>4, <1>9, IdlePcs, MapKept
<1>14. LockInv'
  BY <1>1, <1>2, <1>3, <1>4, IdlePcs, LockKept DEF LockPcs
<1>15. SubprocInv'
  BY <1>3, <1>4, <1>6, <1>9, IdlePcs, SubprocStep
<1>16. CountInv'
  <2>1. \A p \in Subprocs : Marked(p)' = Marked(p)
    BY <1>1, <1>3, <1>9, IdlePcs, MarkedKept
  <2> QED
    BY <1>1, <1>2, <1>3, <1>4, <2>1, IdlePcs, CountKept
<1>17. DataInv'
  BY <1>1, <1>3, <1>4, IdlePcs, DataKept
<1> QED
  BY <1>10, <1>11, <1>12, <1>13, <1>14, <1>15, <1>16, <1>17 DEF IInv

LEMMA OsClearAbandonedInv ==
  ASSUME TypeOK, IInv, NEW t \in Threads, OsClearAbandoned(t)
  PROVE  TypeOK' /\ IInv'
<1>0. PICK p0 \in Subprocs : p0 = th[t].proc
  BY ThreadFields
<1>1. th[t].pc = "clear" /\ UNCHANGED <<bits, arenaLock, part, map, td_cache>> /\ th[t].seg \notin ArenaSegments
  BY DEF OsClearAbandoned, At, IsArena, Seg
<1>2. HoldInv /\ PinInv /\ MapInv /\ LockInv /\ SubprocInv /\ CountInv /\ DataInv
  BY Parts
<1>3. th[t].pc \in FreePcs /\ th[t].pc \in WorkPcs
  BY <1>1 DEF FreePcs, WorkPcs
<1>4. th[t].seg \in Segments /\ seg[th[t].seg].live /\ seg[th[t].seg].subproc = th[t].proc
  BY <1>2, <1>3, FreeingLive DEF SubprocInv, WorkPcs
<1>5. PICK x \in Segments : x = th[t].seg
  BY <1>4
<1>6. CASE sub[p0].lock = Nobody
  <2> DEFINE q == "clear_os"
             new == [sub[p0] EXCEPT !.lock = t]
  <2>1. sub' = [sub EXCEPT ![p0].lock = t] /\ Go(t, q) /\ UNCHANGED seg
    BY <1>0, <1>6 DEF OsClearAbandoned, Proc
  <2>2. /\ q \in Pcs /\ q \notin HolderPcs /\ th[t].pc \notin HolderPcs /\ q \in FreePcs
        /\ q \notin MapPcs /\ th[t].pc \notin MapPcs /\ q \notin ZeroPcs /\ q \in LockPcs
        /\ q \notin ComingPcs /\ th[t].pc \notin ComingPcs /\ q \notin GoingPcs /\ th[t].pc \notin GoingPcs
    BY <1>1, PcSets DEF FreePcs, HolderPcs, MapPcs, ZeroPcs, LockPcs, ComingPcs, GoingPcs
  <2>3. Moves(t, q, x)
    BY <1>5, <2>1, <2>2, GoMoves
  <2>4. sub' = [sub EXCEPT ![p0] = new]
    BY <2>1 DEF TypeOK, SubprocRecords
  <2>5. /\ new \in SubprocRecords /\ new.list = sub[p0].list /\ new.count = sub[p0].count
        /\ new.os_count = sub[p0].os_count /\ new.lock = t
    BY SubprocFields DEF SubprocRecords
  <2> HIDE DEF new
  <2>6. /\ sub' \in [Subprocs -> SubprocRecords] /\ sub'[p0] = new
        /\ \A r \in Subprocs : r # p0 => sub'[r] = sub[r]
    BY <2>4, <2>5, SubStep
  <2>7. \A p \in Subprocs : sub'[p].list = sub[p].list /\ sub'[p].count = sub[p].count
    BY <2>5, <2>6
  <2>8. TypeOK'
    BY <1>1, <2>1, <2>3, <2>6, RestSame, TypeStep
  <2>9. HoldInv'
    BY <1>1, <1>2, <1>5, <2>1, <2>2, <2>3, <2>7, Known, HoldKept
  <2>10. PinInv'
    BY <1>2, <1>3, <1>5, <2>1, <2>2, <2>3, PinKept
  <2>11. MapInv'
    BY <1>1, <1>2, <2>1, <2>2, <2>3, MapKept
  <2>12. LockInv'
    <3>1. sub[p0].os_count = Len(sub[p0].list)
      BY <1>2, <1>6, FreeLock
    <3>2. sub'[p0].os_count = Len(sub'[p0].list) /\ Len(sub'[p0].list) \in Nat
      BY <2>5, <2>6, <3>1, SubprocFields
    <3> QED
      BY <1>0, <1>2, <1>6, <2>2, <2>3, <2>5, <2>6, <3>2, LockStep
  <2>13. SubprocInv'
    BY <1>2, <1>4, <1>5, <2>1, <2>3, SubprocKept
  <2>14. CountInv'
    <3>1. \A p \in Subprocs : Marked(p)' = Marked(p)
      BY <1>1, <2>1, <2>3, MarkedKept
    <3> QED
      BY <1>2, <2>2, <2>3, <2>7, <3>1, CountKept
  <2>15. DataInv'
    BY <1>1, <1>2, <2>3, DataKept
  <2> QED
    BY <2>8, <2>9, <2>10, <2>11, <2>12, <2>13, <2>14, <2>15 DEF IInv
<1>7. CASE sub[p0].lock # Nobody
  <2>1. FreeBlock(x) /\ Go(t, "idle") /\ UNCHANGED sub
    BY <1>0, <1>5, <1>7 DEF OsClearAbandoned, Seg, Proc
  <2>2. Moves(t, "idle", Nobody)
    BY <2>1, GoMoves, PcSets DEF PlainPcs
  <2> QED
    BY <1>1, <1>3, <1>4, <1>5, <2>1, <2>2, FreedInv
<1> QED
  BY <1>6, <1>7

\* The counts follow the list.
LEMMA CountUnlisted ==
  ASSUME TypeOK, CountInv, NEW t \in Threads, NEW q, NEW s, Moves(t, q, s), NEW p0 \in Subprocs,
         th[t].proc = p0, th[t].pc \notin GoingPcs, q \notin GoingPcs, th[t].pc \notin ComingPcs, q \notin ComingPcs,
         sub'[p0].count = sub[p0].count - 1, Len(sub'[p0].list) = Len(sub[p0].list) - 1,
         \A p \in Subprocs : p # p0 => sub'[p] = sub[p], \A p \in Subprocs : Marked(p)' = Marked(p)
  PROVE  CountInv'
<1> DEFINE a == sub[p0].count
           b == Cardinality(Coming(p0))
           c == Cardinality(Going(p0))
           d == Len(sub[p0].list)
           e == Cardinality(Marked(p0))
<1>1. a + (b - c) = d + e /\ a \in Int /\ b \in Int /\ c \in Int /\ d \in Int /\ e \in Int
  BY CountNow
<1>2. Cardinality(Coming(p0)') = b
  BY ComingStep
<1>3. Cardinality(Going(p0)') = c
  BY GoingStep
<1>4. Marked(p0)' = Marked(p0)
  OBVIOUS
<1>5. Cardinality(Marked(p0)') = e
  BY <1>4
<1>6. sub'[p0].count = a - 1 /\ Len(sub'[p0].list) = d - 1
  OBVIOUS
<1> HIDE DEF a, b, c, d, e
<1>7. (a - 1) + (b - c) = (d - 1) + e
  BY <1>1, CountMath
<1>8. sub'[p0].count + (Cardinality(Coming(p0)') - Cardinality(Going(p0)'))
        = Len(sub'[p0].list) + Cardinality(Marked(p0)')
  BY <1>2, <1>3, <1>5, <1>6, <1>7
<1> QED
  BY <1>8, CountStep

\* What OsClearRemove writes.
LEMMA RemoveWrites ==
  ASSUME TypeOK, IInv, NEW t \in Threads, OsClearRemove(t), NEW p0 \in Subprocs, p0 = th[t].proc,
         NEW x \in Segments, x = th[t].seg
  PROVE  LET listed == x \in Elems(sub[p0].list)
         IN /\ sub' \in [Subprocs -> SubprocRecords] /\ \A r \in Subprocs : r # p0 => sub'[r] = sub[r]
            /\ sub'[p0].lock = Nobody
            /\ listed => /\ sub'[p0].list = Unlink(p0, x) /\ sub'[p0].count = sub[p0].count - 1
                         /\ sub'[p0].os_count = sub[p0].os_count - 1
            /\ ~listed => /\ sub'[p0].list = sub[p0].list /\ sub'[p0].count = sub[p0].count
                          /\ sub'[p0].os_count = sub[p0].os_count
            /\ seg' \in [Segments -> SegmentRecords] /\ \A y \in Segments : y # x => seg'[y] = seg[y]
            /\ \A y \in Segments : seg'[y].live = seg[y].live /\ seg'[y].subproc = seg[y].subproc
            /\ seg'[x].blocks = seg[x].blocks - 1
            /\ seg'[x].thread_id = IF listed THEN t ELSE seg[x].thread_id
<1> DEFINE listed == x \in Elems(sub[p0].list)
           list == IF listed THEN Unlink(p0, x) ELSE sub[p0].list
           m == sub[p0].count - 1
           count == IF listed THEN m ELSE sub[p0].count
           k == sub[p0].os_count - 1
           os_count == IF listed THEN k ELSE sub[p0].os_count
           newsub == [sub[p0] EXCEPT !.list = list, !.lock = Nobody, !.count = count, !.os_count = os_count]
           n == seg[x].blocks - 1
           v == IF listed THEN t ELSE seg[x].thread_id
           newseg == [seg[x] EXCEPT !.thread_id = v, !.blocks = n]
<1>1. HoldInv /\ PinInv
  BY Parts
<1>2. listed <=> x \in ToSet(sub[p0].list)
  BY SubprocFields DEF Elems, ToSet
<1>3. sub' = [sub EXCEPT ![p0] = newsub]
  BY <1>2 DEF OsClearRemove, Proc, Seg, TypeOK, SubprocRecords
<1>4. seg' = [seg EXCEPT ![x] = newseg]
  BY <1>2 DEF OsClearRemove, Proc, Seg, TypeOK, SegmentRecords
<1>5. list \in Seq(OsSegments)
  <2>1. CASE listed
    BY <1>1, <2>1, SubprocFields, ListsType, ElemsUnlink
  <2> QED
    BY <2>1, SubprocFields
<1>6. m \in Int /\ k \in Int /\ sub[p0].count \in Int /\ sub[p0].os_count \in Int
  BY SubprocFields
<1>7. n \in Nat
  <2>1. th[t].pc \in FreePcs
    BY DEF OsClearRemove, At, FreePcs
  <2>2. seg[x].blocks > 0 /\ seg[x].blocks \in Nat
    BY <1>1, <2>1, FreeingLive, SegmentFields
  <2> QED
    BY <2>2
<1>8. v \in Threads \cup {Nobody}
  BY SegmentFields
<1>9. /\ listed => list = Unlink(p0, x) /\ count = sub[p0].count - 1 /\ os_count = sub[p0].os_count - 1
      /\ ~listed => list = sub[p0].list /\ count = sub[p0].count /\ os_count = sub[p0].os_count
      /\ n = seg[x].blocks - 1 /\ v = IF listed THEN t ELSE seg[x].thread_id
  OBVIOUS
<1> HIDE DEF m, k, n
<1>10. count \in Int /\ os_count \in Int
  BY <1>6
<1> HIDE DEF listed, list, count, os_count, v
<1>11. /\ newsub \in SubprocRecords /\ newsub.list = list /\ newsub.lock = Nobody /\ newsub.count = count
       /\ newsub.os_count = os_count
  BY <1>5, <1>10, SubprocFields DEF SubprocRecords
<1>12. /\ newseg \in SegmentRecords /\ newseg.live = seg[x].live /\ newseg.subproc = seg[x].subproc
       /\ newseg.blocks = n /\ newseg.thread_id = v
  BY <1>7, <1>8, SegmentFields DEF SegmentRecords
<1> HIDE DEF newsub, newseg
<1>13. /\ sub' \in [Subprocs -> SubprocRecords] /\ sub'[p0] = newsub
       /\ \A r \in Subprocs : r # p0 => sub'[r] = sub[r]
  BY <1>3, <1>11, SubStep
<1>14. /\ seg' \in [Segments -> SegmentRecords] /\ seg'[x] = newseg
       /\ \A y \in Segments : y # x => seg'[y] = seg[y]
  BY <1>4, <1>12, SegStep
<1>15. \A y \in Segments : seg'[y].live = seg[y].live /\ seg'[y].subproc = seg[y].subproc
  BY <1>12, <1>14
<1> QED
  BY <1>9, <1>11, <1>12, <1>13, <1>14, <1>15 DEF listed

LEMMA OsClearRemoveInv ==
  ASSUME TypeOK, IInv, NEW t \in Threads, OsClearRemove(t)
  PROVE  TypeOK' /\ IInv'
<1>0. PICK p0 \in Subprocs : p0 = th[t].proc
  BY ThreadFields
<1> DEFINE q == "idle"
<1>1. th[t].pc = "clear_os" /\ UNCHANGED <<bits, arenaLock, part, map, td_cache>>
  BY DEF OsClearRemove, At
<1>2. /\ th[t].pc \notin HolderPcs /\ th[t].pc \in FreePcs /\ th[t].pc \notin MapPcs /\ th[t].pc \in LockPcs
      /\ th[t].pc \notin ComingPcs /\ th[t].pc \notin GoingPcs /\ th[t].pc \in WorkPcs /\ q \in Pcs
  BY <1>1, PcSets DEF HolderPcs, FreePcs, MapPcs, LockPcs, WorkPcs, ComingPcs, GoingPcs, PlainPcs
<1>3. Moves(t, q, Nobody)
  BY <1>2, GoMoves DEF OsClearRemove
<1>4. HoldInv /\ PinInv /\ MapInv /\ LockInv /\ SubprocInv /\ CountInv /\ DataInv
  BY Parts
<1>5. PICK x \in Segments : x = th[t].seg
  BY <1>2, HolderSeg
<1>6. seg[x].live /\ x \in OsSegments /\ seg[x].subproc = p0
  BY <1>0, <1>1, <1>2, <1>4, <1>5, FreeingLive DEF HoldInv, InRightPlace, SubprocInv, WorkPcs
<1> DEFINE listed == x \in Elems(sub[p0].list)
<1>7. /\ sub' \in [Subprocs -> SubprocRecords] /\ \A r \in Subprocs : r # p0 => sub'[r] = sub[r]
      /\ sub'[p0].lock = Nobody
      /\ listed => /\ sub'[p0].list = Unlink(p0, x) /\ sub'[p0].count = sub[p0].count - 1
                   /\ sub'[p0].os_count = sub[p0].os_count - 1
      /\ ~listed => /\ sub'[p0].list = sub[p0].list /\ sub'[p0].count = sub[p0].count
                    /\ sub'[p0].os_count = sub[p0].os_count
      /\ seg' \in [Segments -> SegmentRecords] /\ \A y \in Segments : y # x => seg'[y] = seg[y]
      /\ \A y \in Segments : seg'[y].live = seg[y].live /\ seg'[y].subproc = seg[y].subproc
      /\ seg'[x].blocks = seg[x].blocks - 1
      /\ seg'[x].thread_id = IF listed THEN t ELSE seg[x].thread_id
  BY <1>0, <1>5, RemoveWrites
<1>8. listed => /\ Len(sub'[p0].list) = Len(sub[p0].list) - 1 /\ NoDup(sub'[p0].list)
                /\ Elems(sub'[p0].list) = Elems(sub[p0].list) \ {x}
  BY <1>4, <1>7, SubprocFields, ListsType, ElemsUnlink
<1> HIDE DEF listed
<1>9. TypeOK'
  BY <1>1, <1>3, <1>7, IdlePcs, RestSame, TypeStep
<1>10. HoldInv'
  <2>1. CASE listed
    <3>1. seg[x].thread_id = Nobody
      BY <1>4, <2>1 DEF HoldInv, ListsAbandoned, listed
    <3>2. \A u \in Threads : ~(th[u].pc \in HolderPcs /\ th[u].seg = x)
      BY <1>2, <1>4, <2>1, NotHeld DEF listed
    <3>3. \A p \in Subprocs : x \notin Elems(sub'[p].list)
      BY <1>4, <1>6, <1>7, <1>8, <2>1 DEF HoldInv, ListsAbandoned
    <3>4. \A p \in Subprocs : NoDup(sub'[p].list) /\ Elems(sub'[p].list) \subseteq Segments
      BY <1>4, <1>7, <1>8, <2>1, ListsType
    <3>5. SameElsewhere(x)
      BY <1>1, <1>7, <1>8, <2>1, <3>4 DEF SameElsewhere, TypeOK
    <3>6. x \notin bits
      BY <1>6, Known DEF TypeOK
    <3>7. Placed(t, q, x)
      BY <1>1, <1>6, <1>7, <2>1, <3>3, <3>6, IdlePcs, Known DEF Placed
    <3> QED
      BY <1>2, <1>3, <1>4, <3>2, <3>5, <3>7, IdlePcs, HoldStep
  <2>2. CASE ~listed
    <3>1. \A p \in Subprocs : sub'[p].list = sub[p].list
      BY <1>7, <2>2
    <3>2. \A y \in Segments : seg'[y].thread_id = seg[y].thread_id
      BY <1>7, <2>2
    <3> QED
      BY <1>1, <1>2, <1>3, <1>4, <1>7, <3>1, <3>2, IdlePcs, HoldKept
  <2> QED
    BY <2>1, <2>2
<1>11. PinInv'
  BY <1>2, <1>3, <1>4, <1>5, <1>6, <1>7, IdlePcs, FreeBlockPins
<1>12. MapInv'
  BY <1>1, <1>2, <1>3, <1>4, <1>7, IdlePcs, MapKept
<1>13. LockInv'
  <2>1. sub[p0].os_count = Len(sub[p0].list)
    BY <1>0, <1>1, <1>2, <1>4, OwnLock
  <2>2. sub'[p0].os_count = Len(sub'[p0].list)
    BY <1>7, <1>8, <2>1
  <2>3. Len(sub'[p0].list) \in Nat
    BY <1>7 DEF SubprocRecords
  <2> QED
    BY <1>0, <1>2, <1>3, <1>4, <1>7, <2>2, <2>3, IdlePcs, LockStep
<1>14. SubprocInv'
  BY <1>0, <1>3, <1>4, <1>6, <1>7, IdlePcs, SubprocStep
<1>15. CountInv'
  <2>1. \A p \in Subprocs : Marked(p)' = Marked(p)
    BY <1>1, <1>3, <1>7, IdlePcs, MarkedKept
  <2>2. CASE listed
    BY <1>0, <1>2, <1>3, <1>4, <1>7, <1>8, <2>1, <2>2, IdlePcs, CountUnlisted
  <2>3. CASE ~listed
    BY <1>2, <1>3, <1>4, <1>7, <2>1, <2>3, IdlePcs, CountKept
  <2> QED
    BY <2>2, <2>3
<1>16. DataInv'
  BY <1>1, <1>3, <1>4, IdlePcs, DataKept
<1> QED
  BY <1>9, <1>10, <1>11, <1>12, <1>13, <1>14, <1>15, <1>16 DEF IInv

-----------------------------------------------------------------------------
(* The cursor takes segments out of the bitmap and of the list.             *)

LEMMA ClearAbandonedAtInv ==
  ASSUME TypeOK, IInv, NEW t \in Threads, ClearAbandonedAt(t)
  PROVE  TypeOK' /\ IInv'
<1>0. PICK x : x = First(Cur(t).field)
  OBVIOUS
<1> DEFINE field == th[t].cur.field \ {x}
           cur == [th[t].cur EXCEPT !.field = field]
<1>1. th[t].pc = "bit" /\ UNCHANGED <<seg, sub, arenaLock, part, map, td_cache>>
  BY DEF ClearAbandonedAt, At
<1>2. HoldInv /\ PinInv /\ MapInv /\ LockInv /\ SubprocInv /\ CountInv /\ DataInv
  BY Parts
<1>3. cur = [Cur(t) EXCEPT !.field = @ \ {x}]
  BY DEF Cur
<1>4. field \subseteq ArenaSegments
  BY CursorFields
<1> HIDE DEF field
<1>5. cur \in Cursors
  BY <1>4, CursorFields DEF Cursors
<1> HIDE DEF cur
<1>6. CASE x \in bits
  <2> DEFINE q == IF seg[x].subproc = th[t].proc THEN "bit_count" ELSE "remark"
             new == [th[t] EXCEPT !.seg = x, !.cur = cur, !.pc = q]
  <2>1. bits' = bits \ {x} /\ th' = [th EXCEPT ![t].seg = x, ![t].cur = cur, ![t].pc = q]
    BY <1>0, <1>3, <1>6 DEF ClearAbandonedAt, Proc
  <2>2. q \in {"bit_count", "remark"} /\ (q = "remark" <=> seg[x].subproc # th[t].proc)
    OBVIOUS
  <2> HIDE DEF q
  <2>3. x \in Segments /\ q \in Pcs
    BY <1>6, <2>2, Known, PcSets DEF TypeOK, HolderPcs
  <2>4. th' = [th EXCEPT ![t] = new]
    BY <2>1 DEF TypeOK, ThreadRecords
  <2>5. /\ new \in ThreadRecords /\ new.pc = q /\ new.seg = x /\ new.proc = th[t].proc /\ new.td = th[t].td
    BY <1>5, <2>3, ThreadFields DEF ThreadRecords
  <2> HIDE DEF new
  <2>6. Moves(t, q, x)
    BY <2>4, <2>5, CurMoves
  <2>7. PICK r \in {"bit_count", "remark"} : r = q
    BY <2>2
  <2>8. Moves(t, r, x)
    BY <2>6, <2>7
  <2>9. /\ r \in {"clear_count", "bit_count", "remark"} /\ (r = "remark" <=> seg[x].subproc # th[t].proc)
        /\ th[t].pc \in {"clear", "bit"} /\ (th[t].pc = "clear" <=> r = "clear_count") /\ th[t].pc # "clear"
    BY <1>1, <2>2, <2>7
  <2> QED
    BY <1>1, <1>6, <2>1, <2>3, <2>8, <2>9, BitTaken
<1>7. CASE x \notin bits
  <2> DEFINE new == [th[t] EXCEPT !.cur = cur]
  <2>1. UNCHANGED bits /\ th' = [th EXCEPT ![t].cur = cur]
    BY <1>0, <1>3, <1>7 DEF ClearAbandonedAt
  <2>2. th' = [th EXCEPT ![t] = new]
    BY <2>1 DEF TypeOK, ThreadRecords
  <2>3. new \in ThreadRecords /\ new.pc = th[t].pc /\ new.td = th[t].td /\ new.proc = th[t].proc
    BY <1>5, ThreadFields DEF ThreadRecords
  <2> HIDE DEF new
  <2>4. arenaLock' \in Threads \cup {Nobody}
    BY <1>1 DEF TypeOK
  <2> QED
    BY <1>1, <2>1, <2>2, <2>3, <2>4, SubprocsSame, QuietWalk
<1> QED
  BY <1>6, <1>7

LEMMA RemarkInv ==
  ASSUME TypeOK, IInv, NEW t \in Threads, Remark(t)
  PROVE  TypeOK' /\ IInv'
<1> DEFINE q == "bit"
           x == th[t].seg
<1>1. th[t].pc = "remark" /\ UNCHANGED <<seg, sub, arenaLock, part, map, td_cache>> /\ bits' = bits \cup {x}
  BY DEF Remark, At, Seg
<1>2. /\ th[t].pc \in HolderPcs /\ q \notin HolderPcs /\ th[t].pc \notin FreePcs /\ q \notin FreePcs
      /\ th[t].pc \notin MapPcs /\ q \notin MapPcs /\ q \notin ZeroPcs /\ th[t].pc \notin LockPcs
      /\ q \notin LockPcs /\ th[t].pc \notin ComingPcs /\ q \notin ComingPcs /\ th[t].pc \notin GoingPcs
      /\ q \notin GoingPcs /\ q \notin WorkPcs /\ q \in Pcs
  BY <1>1, PcSets DEF HolderPcs, FreePcs, MapPcs, ZeroPcs, LockPcs, WorkPcs, ComingPcs, GoingPcs, PlainPcs
<1>3. Moves(t, q, Nobody)
  <2> DEFINE new == [th[t] EXCEPT !.pc = q, !.seg = Nobody]
  <2>1. th' = [th EXCEPT ![t] = new]
    BY DEF Remark, TypeOK, ThreadRecords
  <2>2. /\ new \in ThreadRecords /\ new.pc = q /\ new.seg = Nobody /\ new.proc = th[t].proc
        /\ new.td = th[t].td
    BY <1>2, ThreadFields DEF ThreadRecords
  <2> HIDE DEF new
  <2> QED
    BY <2>1, <2>2, CurMoves
<1>4. HoldInv /\ PinInv /\ MapInv /\ LockInv /\ SubprocInv /\ CountInv /\ DataInv
  BY Parts
<1>5. /\ x \in Segments /\ seg[x].live /\ x \notin bits /\ seg[x].thread_id = Nobody
      /\ \A p \in Subprocs : x \notin Elems(sub[p].list)
      /\ \A u \in Threads : u # t => ~(th[u].pc \in HolderPcs /\ th[u].seg = x)
  BY <1>1, <1>2, <1>4, HolderKnows
<1>6. x \in ArenaSegments
  BY <1>1, <1>4 DEF HoldInv, InRightPlace
<1> HIDE DEF x
<1>7. TypeOK'
  <2>1. bits' \subseteq ArenaSegments
    BY <1>1, <1>6 DEF TypeOK
  <2> QED
    BY <1>1, <1>2, <1>3, <2>1, RestSame, TypeStep
<1>8. HoldInv'
  <2>1. \A p \in Subprocs : NoDup(sub'[p].list) /\ Elems(sub'[p].list) \subseteq Segments
    BY <1>1, <1>4, ListsType
  <2>2. SameElsewhere(x)
    BY <1>1, <1>6, <2>1 DEF SameElsewhere, TypeOK
  <2>3. Placed(t, q, x)
    BY <1>1, <1>2, <1>5 DEF Placed
  <2> QED
    BY <1>2, <1>3, <1>4, <1>5, <2>2, <2>3, HoldStep DEF x
<1>9. PinInv'
  BY <1>1, <1>2, <1>3, <1>4, PinKept
<1>10. MapInv'
  BY <1>1, <1>2, <1>3, <1>4, MapKept
<1>11. LockInv'
  BY <1>1, <1>2, <1>3, <1>4, LockKept
<1>12. SubprocInv'
  BY <1>1, <1>2, <1>3, <1>4, SubprocKept
<1>13. CountInv'
  <2>1. \A y \in Segments : (\E u \in Threads : th[u].seg = y /\ th[u].pc = "remark")
          <=> (\E u \in Threads : th'[u].seg = y /\ th'[u].pc = "remark") \/ y = x
    BY <1>1, <1>3, <1>5 DEF Moves, x, HolderPcs
  <2>2. \A p \in Subprocs : Marked(p)' = Marked(p)
    BY <1>1, <2>1 DEF Marked
  <2> QED
    BY <1>1, <1>2, <1>3, <1>4, <2>2, CountKept
<1>14. DataInv'
  BY <1>1, <1>3, <1>4, DataKept
<1> QED
  BY <1>7, <1>8, <1>9, <1>10, <1>11, <1>12, <1>13, <1>14 DEF IInv

LEMMA BitCountMove ==
  ASSUME TypeOK, NEW t \in Threads, NEW n \in Int,
         th' = [th EXCEPT ![t].pc = "hold", ![t].cur.field = {}, ![t].cur.at = n]
  PROVE  Moves(t, "hold", th[t].seg)
<1> DEFINE cur == [th[t].cur EXCEPT !.field = {}, !.at = n]
           new == [th[t] EXCEPT !.pc = "hold", !.cur = cur]
<1>1. th' = [th EXCEPT ![t] = new]
  BY ZenonT(60) DEF TypeOK, ThreadRecords, Cursors
<1>2. cur \in Cursors
  BY CursorFields DEF Cursors
<1> HIDE DEF cur
<1>3. /\ new \in ThreadRecords /\ new.pc = "hold" /\ new.seg = th[t].seg /\ new.td = th[t].td
      /\ new.proc = th[t].proc
  BY <1>2, ThreadFields, PcSets DEF ThreadRecords, HolderPcs
<1> HIDE DEF new
<1> QED
  BY <1>1, <1>3, CurMoves

LEMMA BitCountInv ==
  ASSUME TypeOK, IInv, NEW t \in Threads, BitCount(t)
  PROVE  TypeOK' /\ IInv'
<1>0. PICK p0 \in Subprocs : p0 = th[t].proc
  BY ThreadFields
<1> DEFINE q == "hold"
           x == th[t].seg
           n == sub[p0].count - 1
           new == [sub[p0] EXCEPT !.count = n]
           m == x + 1
<1>1. th[t].pc = "bit_count" /\ UNCHANGED <<seg, bits, part, map, td_cache>>
  BY DEF BitCount, At
<1>2. /\ th[t].pc \in HolderPcs /\ q \in HolderPcs /\ q \in Pcs /\ th[t].pc \notin FreePcs /\ q \notin FreePcs
      /\ th[t].pc \notin MapPcs /\ q \notin MapPcs /\ q \notin ZeroPcs /\ th[t].pc \notin LockPcs
      /\ q \notin LockPcs /\ th[t].pc \notin ComingPcs /\ q \notin ComingPcs /\ th[t].pc \in GoingPcs
      /\ q \notin GoingPcs /\ th[t].pc \in WorkPcs
  BY <1>1, PcSets DEF HolderPcs, FreePcs, MapPcs, ZeroPcs, LockPcs, WorkPcs, ComingPcs, GoingPcs
<1>4. HoldInv /\ PinInv /\ MapInv /\ LockInv /\ SubprocInv /\ CountInv /\ DataInv
  BY Parts
<1>5. /\ x \in Segments /\ seg[x].live /\ x \notin bits /\ seg[x].thread_id = Nobody
      /\ \A p \in Subprocs : x \notin Elems(sub[p].list)
      /\ \A u \in Threads : u # t => ~(th[u].pc \in HolderPcs /\ th[u].seg = x)
  BY <1>1, <1>2, <1>4, HolderKnows
<1>6. x \in ArenaSegments /\ seg[x].subproc = th[t].proc
  BY <1>1, <1>2, <1>4 DEF HoldInv, InRightPlace, SubprocInv
<1>3. Moves(t, q, x)
  <2>1. m \in Int
    <3>1. ArenaSegments \subseteq Nat
      BY AbandonedAssumption
    <3>2. x \in Nat
      BY <1>6, <3>1
    <3> HIDE DEF x
    <3> QED
      BY <3>2
  <2>2. th' = [th EXCEPT ![t].pc = "hold", ![t].cur.field = {}, ![t].cur.at = m]
    BY DEF BitCount, Seg
  <2> HIDE DEF m
  <2> QED
    BY <2>1, <2>2, BitCountMove
<1>7. sub' = [sub EXCEPT ![p0] = new]
  BY <1>0 DEF BitCount, Proc, TypeOK, SubprocRecords
<1>8. n \in Int /\ n = sub[p0].count - 1
  BY SubprocFields
<1> HIDE DEF n
<1>9. /\ new \in SubprocRecords /\ new.list = sub[p0].list /\ new.count = n
      /\ new.os_count = sub[p0].os_count /\ new.lock = sub[p0].lock
  BY <1>8, SubprocFields DEF SubprocRecords
<1> HIDE DEF new, x
<1>10. /\ sub' \in [Subprocs -> SubprocRecords] /\ sub'[p0] = new
       /\ \A r \in Subprocs : r # p0 => sub'[r] = sub[r]
  BY <1>7, <1>9, SubStep
<1>11. \A p \in Subprocs : /\ sub'[p].list = sub[p].list /\ sub'[p].lock = sub[p].lock
                           /\ sub'[p].os_count = sub[p].os_count
  BY <1>9, <1>10
<1>12. TypeOK'
  <2>1. arenaLock' \in Threads \cup {Nobody}
    BY DEF BitCount, Release, TypeOK
  <2> QED
    BY <1>1, <1>3, <1>5, <1>10, <2>1, RestSame, TypeStep
<1>13. HoldInv'
  <2>1. SameElsewhere(x)
    BY <1>1, <1>4, <1>5, <1>11, ElsewhereSame
  <2>2. Placed(t, q, x)
    BY <1>1, <1>2, <1>5, <1>6, <1>11 DEF Placed
  <2> QED
    BY <1>2, <1>3, <1>4, <1>5, <2>1, <2>2, HoldStep DEF x
<1>14. PinInv'
  BY <1>1, <1>2, <1>3, <1>4, PinKept
<1>15. MapInv'
  BY <1>1, <1>2, <1>3, <1>4, MapKept
<1>16. LockInv'
  BY <1>1, <1>2, <1>3, <1>4, <1>11, LockKept
<1>17. SubprocInv'
  BY <1>1, <1>3, <1>4, <1>5, <1>6, SubprocKept
<1>18. CountInv'
  <2>1. \A p \in Subprocs : Marked(p)' = Marked(p)
    BY <1>1, <1>3, MarkedKept
  <2> QED
    BY <1>0, <1>2, <1>3, <1>4, <1>8, <1>9, <1>10, <2>1, CountDown
<1>19. DataInv'
  BY <1>1, <1>3, <1>4, DataKept
<1> QED
  BY <1>12, <1>13, <1>14, <1>15, <1>16, <1>17, <1>18, <1>19 DEF IInv

LEMMA ListLockMove ==
  ASSUME TypeOK, NEW t \in Threads, NEW os \in Int, NEW tries \in Int,
         th' = [th EXCEPT ![t].pc = "pop", ![t].cur.os = os, ![t].cur.tries = tries]
  PROVE  Moves(t, "pop", th[t].seg)
<1> DEFINE cur == [th[t].cur EXCEPT !.os = os, !.tries = tries]
           new == [th[t] EXCEPT !.pc = "pop", !.cur = cur]
<1>1. th' = [th EXCEPT ![t] = new]
  BY ZenonT(60) DEF TypeOK, ThreadRecords, Cursors
<1>2. cur \in Cursors
  BY CursorFields DEF Cursors
<1> HIDE DEF cur
<1>3. /\ new \in ThreadRecords /\ new.pc = "pop" /\ new.seg = th[t].seg /\ new.td = th[t].td
      /\ new.proc = th[t].proc
  BY <1>2, ThreadFields, PcSets DEF ThreadRecords, LockPcs
<1> HIDE DEF new
<1> QED
  BY <1>1, <1>3, CurMoves

LEMMA ListLockInv ==
  ASSUME TypeOK, IInv, NEW t \in Threads, ListLock(t)
  PROVE  TypeOK' /\ IInv'
<1>0. PICK p0 \in Subprocs : p0 = th[t].proc
  BY ThreadFields
<1> DEFINE q == "pop"
           x == th[t].seg
           new == [sub[p0] EXCEPT !.lock = t]
           os == th[t].cur.os - 1
           tries == IF Tries(t) THEN th[t].cur.tries - 1 ELSE th[t].cur.tries
<1>1. th[t].pc = "next" /\ UNCHANGED <<seg, bits, arenaLock, part, map, td_cache>> /\ sub[p0].lock = Nobody
  BY <1>0 DEF ListLock, At, Proc
<1>2. /\ q \in Pcs /\ q \notin HolderPcs /\ q \notin FreePcs /\ q \notin MapPcs /\ q \notin ZeroPcs
      /\ q \in LockPcs /\ q \notin ComingPcs /\ q \notin GoingPcs /\ q \notin WorkPcs
  BY PcSets DEF FreePcs, HolderPcs, MapPcs, ZeroPcs, LockPcs, ComingPcs, GoingPcs, WorkPcs
<1>3. Moves(t, q, x)
  <2>1. os \in Int /\ tries \in Int
    BY CursorFields
  <2>2. th' = [th EXCEPT ![t].pc = "pop", ![t].cur.os = os, ![t].cur.tries = tries]
    BY DEF ListLock, TypeOK, ThreadRecords, Cursors
  <2> HIDE DEF os, tries
  <2> QED
    BY <2>1, <2>2, ListLockMove
<1>4. HoldInv /\ PinInv /\ MapInv /\ LockInv /\ SubprocInv /\ CountInv /\ DataInv
  BY Parts
<1>5. sub' = [sub EXCEPT ![p0] = new]
  BY <1>0 DEF ListLock, Proc, TypeOK, SubprocRecords
<1>6. /\ new \in SubprocRecords /\ new.list = sub[p0].list /\ new.count = sub[p0].count
      /\ new.os_count = sub[p0].os_count /\ new.lock = t
  BY SubprocFields DEF SubprocRecords
<1> HIDE DEF new, x
<1>7. /\ sub' \in [Subprocs -> SubprocRecords] /\ sub'[p0] = new
      /\ \A r \in Subprocs : r # p0 => sub'[r] = sub[r]
  BY <1>5, <1>6, SubStep
<1>8. \A p \in Subprocs : sub'[p].list = sub[p].list /\ sub'[p].count = sub[p].count
  BY <1>6, <1>7
<1>9. TypeOK'
  BY <1>1, <1>2, <1>3, <1>7, RestSame, TypeStep
<1>10. HoldInv'
  BY <1>1, <1>2, <1>3, <1>4, <1>8, IdlePcs, HoldKept
<1>11. PinInv'
  BY <1>1, <1>2, <1>3, <1>4, IdlePcs, PinKept
<1>12. MapInv'
  BY <1>1, <1>2, <1>3, <1>4, IdlePcs, MapKept
<1>13. LockInv'
  <2>1. sub[p0].os_count = Len(sub[p0].list)
    BY <1>1, <1>4, FreeLock
  <2>2. sub'[p0].os_count = Len(sub'[p0].list) /\ Len(sub'[p0].list) \in Nat
    BY <1>6, <1>7, <2>1, SubprocFields
  <2> QED
    BY <1>0, <1>1, <1>2, <1>3, <1>4, <1>6, <1>7, <2>2, LockStep
<1>14. SubprocInv'
  BY <1>1, <1>2, <1>3, <1>4, SubprocKept
<1>15. CountInv'
  <2>1. \A p \in Subprocs : Marked(p)' = Marked(p)
    BY <1>1, <1>3, MarkedKept
  <2> QED
    BY <1>1, <1>2, <1>3, <1>4, <1>8, <2>1, IdlePcs, CountKept
<1>16. DataInv'
  BY <1>1, <1>3, <1>4, DataKept
<1> QED
  BY <1>9, <1>10, <1>11, <1>12, <1>13, <1>14, <1>15, <1>16 DEF IInv

LEMMA ListPopInv ==
  ASSUME TypeOK, IInv, NEW t \in Threads, ListPop(t)
  PROVE  TypeOK' /\ IInv'
<1>0. PICK p0 \in Subprocs : p0 = th[t].proc
  BY ThreadFields
<1>1. th[t].pc = "pop" /\ UNCHANGED <<seg, bits, arenaLock, part, map, td_cache>>
  BY DEF ListPop, At
<1>2. /\ th[t].pc \notin HolderPcs /\ th[t].pc \notin FreePcs /\ th[t].pc \notin MapPcs /\ th[t].pc \in LockPcs
      /\ th[t].pc \notin ComingPcs /\ th[t].pc \notin GoingPcs
  BY <1>1 DEF HolderPcs, FreePcs, MapPcs, LockPcs, ComingPcs, GoingPcs
<1>3. HoldInv /\ PinInv /\ MapInv /\ LockInv /\ SubprocInv /\ CountInv /\ DataInv
  BY Parts
<1>4. sub[p0].os_count = Len(sub[p0].list) /\ sub[p0].lock = t
  BY <1>0, <1>1, <1>2, <1>3, OwnLock
<1>5. CASE sub[p0].list = <<>>
  <2> DEFINE new == [sub[p0] EXCEPT !.lock = Nobody, !.visit = Nobody]
  <2>1. sub' = [sub EXCEPT ![p0].lock = Nobody, ![p0].visit = Nobody] /\ CursorDone(t)
    BY <1>0, <1>5 DEF ListPop, Proc
  <2>2. Moves(t, "idle", Nobody)
    <3>1. PICK r \in ThreadRecords :
             /\ th' = [th EXCEPT ![t] = r]
             /\ r.pc = "idle" /\ r.seg = Nobody /\ r.proc = th[t].proc /\ r.td = th[t].td
      BY <2>1, CursorDoneIs
    <3> QED
      BY <3>1, CurMoves
  <2>3. sub' = [sub EXCEPT ![p0] = new]
    BY <2>1 DEF TypeOK, SubprocRecords
  <2>4. /\ new \in SubprocRecords /\ new.list = sub[p0].list /\ new.count = sub[p0].count
        /\ new.os_count = sub[p0].os_count /\ new.lock = Nobody
    BY SubprocFields DEF SubprocRecords
  <2> HIDE DEF new
  <2>5. /\ sub' \in [Subprocs -> SubprocRecords] /\ sub'[p0] = new
        /\ \A r \in Subprocs : r # p0 => sub'[r] = sub[r]
    BY <2>3, <2>4, SubStep
  <2>6. \A p \in Subprocs : sub'[p].list = sub[p].list /\ sub'[p].count = sub[p].count
    BY <2>4, <2>5
  <2>7. TypeOK'
    BY <1>1, <2>2, <2>5, IdlePcs, RestSame, TypeStep
  <2>8. HoldInv'
    BY <1>1, <1>2, <1>3, <2>2, <2>6, IdlePcs, HoldKept
  <2>9. PinInv'
    BY <1>1, <1>2, <1>3, <2>2, IdlePcs, PinKept
  <2>10. MapInv'
    BY <1>1, <1>2, <1>3, <2>2, IdlePcs, MapKept
  <2>11. LockInv'
    <3>1. sub'[p0].os_count = Len(sub'[p0].list) /\ Len(sub'[p0].list) \in Nat
      BY <1>4, <2>4, <2>5, SubprocFields
    <3> QED
      BY <1>0, <1>2, <1>3, <2>2, <2>4, <2>5, <3>1, IdlePcs, LockStep
  <2>12. SubprocInv'
    BY <1>1, <1>3, <2>2, IdlePcs, SubprocKept
  <2>13. CountInv'
    <3>1. \A p \in Subprocs : Marked(p)' = Marked(p)
      BY <1>1, <2>2, IdlePcs, MarkedKept
    <3> QED
      BY <1>2, <1>3, <2>2, <2>6, <3>1, IdlePcs, CountKept
  <2>14. DataInv'
    BY <1>1, <1>3, <2>2, IdlePcs, DataKept
  <2> QED
    BY <2>7, <2>8, <2>9, <2>10, <2>11, <2>12, <2>13, <2>14 DEF IInv
<1>6. CASE sub[p0].list # <<>>
  <2>1. PICK x : x = Head(sub[p0].list)
    OBVIOUS
  <2> DEFINE q == "popped"
             list == Tail(sub[p0].list)
             n == sub[p0].count - 1
             new == [sub[p0] EXCEPT !.list = list, !.count = n]
  <2>2. /\ sub' = [sub EXCEPT ![p0].list = Tail(@), ![p0].count = @ - 1]
        /\ th' = [th EXCEPT ![t].pc = q, ![t].seg = x]
    BY <1>0, <1>6, <2>1 DEF ListPop, Proc
  <2>3. /\ list \in Seq(OsSegments) /\ Len(list) = Len(sub[p0].list) - 1 /\ NoDup(list)
        /\ x \in OsSegments /\ x \in Elems(sub[p0].list) /\ Elems(list) = Elems(sub[p0].list) \ {x}
    BY <1>3, <1>6, <2>1, SubprocFields, ListsType, ElemsTail
  <2>4. /\ x \in Segments /\ x \notin bits /\ seg[x].live /\ seg[x].thread_id = Nobody /\ seg[x].subproc = p0
        /\ \A p \in Subprocs : p # p0 => x \notin Elems(sub[p].list)
    BY <1>3, <2>3, Known DEF HoldInv, ListsAbandoned, TypeOK
  <2>5. /\ q \in HolderPcs /\ q \in Pcs /\ q \notin FreePcs /\ q \notin MapPcs /\ q \notin ZeroPcs
        /\ q \in LockPcs /\ q \notin ComingPcs /\ q \notin GoingPcs
    BY PcSets DEF HolderPcs, FreePcs, MapPcs, ZeroPcs, LockPcs, ComingPcs, GoingPcs
  <2>6. Moves(t, q, x)
    <3> DEFINE r == [th[t] EXCEPT !.pc = q, !.seg = x]
    <3>1. th' = [th EXCEPT ![t] = r]
      BY <2>2 DEF TypeOK, ThreadRecords
    <3>2. /\ r \in ThreadRecords /\ r.pc = q /\ r.seg = x /\ r.proc = th[t].proc /\ r.td = th[t].td
      BY <2>4, <2>5, ThreadFields DEF ThreadRecords
    <3> HIDE DEF r
    <3> QED
      BY <3>1, <3>2, CurMoves
  <2>7. sub' = [sub EXCEPT ![p0] = new]
    BY <2>2 DEF TypeOK, SubprocRecords
  <2>8. n \in Int /\ n = sub[p0].count - 1
    BY SubprocFields
  <2> HIDE DEF list, n
  <2>9. /\ new \in SubprocRecords /\ new.list = list /\ new.count = n
        /\ new.os_count = sub[p0].os_count /\ new.lock = sub[p0].lock
    BY <2>3, <2>8, SubprocFields DEF SubprocRecords
  <2> HIDE DEF new
  <2>10. /\ sub' \in [Subprocs -> SubprocRecords] /\ sub'[p0] = new
         /\ \A r \in Subprocs : r # p0 => sub'[r] = sub[r]
    BY <2>7, <2>9, SubStep
  <2>11. TypeOK'
    BY <1>1, <2>4, <2>6, <2>10, RestSame, TypeStep
  <2>12. HoldInv'
    <3>1. \A p \in Subprocs : NoDup(sub'[p].list) /\ Elems(sub'[p].list) \subseteq Segments
      BY <1>3, <2>3, <2>9, <2>10, ListsType
    <3>2. \A p \in Subprocs : \A y \in Segments :
            y # x => (y \in Elems(sub'[p].list) <=> y \in Elems(sub[p].list))
      BY <2>3, <2>9, <2>10
    <3>3. SameElsewhere(x)
      BY <1>1, <3>1, <3>2 DEF SameElsewhere, TypeOK
    <3>4. \A p \in Subprocs : x \notin Elems(sub'[p].list)
      BY <2>3, <2>4, <2>9, <2>10
    <3>5. Placed(t, q, x)
      BY <1>1, <2>3, <2>4, <2>5, <3>4 DEF Placed
    <3>6. \A u \in Threads : u # t => ~(th[u].pc \in HolderPcs /\ th[u].seg = x)
      BY <1>3, <2>3, <2>4, NotHeld
    <3> QED
      BY <1>2, <1>3, <2>4, <2>6, <3>3, <3>5, <3>6, HoldStep
  <2>13. PinInv'
    BY <1>1, <1>2, <1>3, <2>5, <2>6, PinKept
  <2>14. MapInv'
    BY <1>1, <1>2, <1>3, <2>5, <2>6, MapKept
  <2>15. LockInv'
    <3>1. sub'[p0].os_count = Len(sub'[p0].list) + 1 /\ Len(sub'[p0].list) \in Nat
      <4>1. Len(sub[p0].list) \in Nat /\ Len(list) \in Nat
        BY <2>3, SubprocFields
      <4>2. sub'[p0].os_count = Len(sub[p0].list) /\ sub'[p0].list = list
        BY <1>4, <2>9, <2>10
      <4> QED
        BY <2>3, <4>1, <4>2
    <3>2. sub'[p0].lock = t
      BY <1>4, <2>9, <2>10
    <3> QED
      BY <1>0, <1>2, <1>3, <2>5, <2>6, <2>10, <3>1, <3>2, LockStep
  <2>16. SubprocInv'
    BY <1>0, <1>1, <1>3, <2>4, <2>6, SubprocKept
  <2>17. CountInv'
    <3>1. \A p \in Subprocs : Marked(p)' = Marked(p)
      BY <1>1, <2>6, MarkedKept
    <3>2. Len(sub'[p0].list) = Len(sub[p0].list) - 1 /\ sub'[p0].count = sub[p0].count - 1
      BY <2>3, <2>8, <2>9, <2>10
    <3> QED
      BY <1>0, <1>2, <1>3, <2>5, <2>6, <2>10, <3>1, <3>2, CountUnlisted
  <2>18. DataInv'
    BY <1>1, <1>3, <2>6, DataKept
  <2> QED
    BY <2>11, <2>12, <2>13, <2>14, <2>15, <2>16, <2>17, <2>18 DEF IInv
<1> QED
  BY <1>5, <1>6

LEMMA ListUnlockInv ==
  ASSUME TypeOK, IInv, NEW t \in Threads, ListUnlock(t)
  PROVE  TypeOK' /\ IInv'
<1>0. PICK p0 \in Subprocs : p0 = th[t].proc
  BY ThreadFields
<1> DEFINE q == "hold"
           x == th[t].seg
           n == sub[p0].os_count - 1
           new == [sub[p0] EXCEPT !.os_count = n, !.lock = Nobody]
<1>1. th[t].pc = "popped" /\ UNCHANGED <<seg, bits, arenaLock, part, map, td_cache>>
  BY DEF ListUnlock, At
<1>2. /\ th[t].pc \in HolderPcs /\ q \in HolderPcs /\ q \in Pcs /\ th[t].pc \notin FreePcs /\ q \notin FreePcs
      /\ th[t].pc \notin MapPcs /\ q \notin MapPcs /\ q \notin ZeroPcs /\ th[t].pc \in LockPcs
      /\ q \notin LockPcs /\ th[t].pc \notin ComingPcs /\ q \notin ComingPcs /\ th[t].pc \notin GoingPcs
      /\ q \notin GoingPcs /\ th[t].pc \in WorkPcs
  BY <1>1, PcSets DEF HolderPcs, FreePcs, MapPcs, ZeroPcs, LockPcs, WorkPcs, ComingPcs, GoingPcs
<1>3. Moves(t, q, x)
  BY <1>2, GoMoves DEF ListUnlock
<1>4. HoldInv /\ PinInv /\ MapInv /\ LockInv /\ SubprocInv /\ CountInv /\ DataInv
  BY Parts
<1>5. /\ x \in Segments /\ seg[x].live /\ x \notin bits /\ seg[x].thread_id = Nobody
      /\ \A p \in Subprocs : x \notin Elems(sub[p].list)
      /\ \A u \in Threads : u # t => ~(th[u].pc \in HolderPcs /\ th[u].seg = x)
  BY <1>1, <1>2, <1>4, HolderKnows
<1>6. seg[x].subproc = th[t].proc
  BY <1>1, <1>2, <1>4 DEF SubprocInv, WorkPcs
<1>7. sub' = [sub EXCEPT ![p0] = new]
  BY <1>0 DEF ListUnlock, Proc, TypeOK, SubprocRecords
<1>8. n \in Int /\ n = sub[p0].os_count - 1
  BY SubprocFields
<1> HIDE DEF n
<1>9. /\ new \in SubprocRecords /\ new.list = sub[p0].list /\ new.count = sub[p0].count
      /\ new.os_count = n /\ new.lock = Nobody
  BY <1>8, SubprocFields DEF SubprocRecords
<1> HIDE DEF new, x
<1>10. /\ sub' \in [Subprocs -> SubprocRecords] /\ sub'[p0] = new
       /\ \A r \in Subprocs : r # p0 => sub'[r] = sub[r]
  BY <1>7, <1>9, SubStep
<1>11. \A p \in Subprocs : sub'[p].list = sub[p].list /\ sub'[p].count = sub[p].count
  BY <1>9, <1>10
<1>12. TypeOK'
  BY <1>1, <1>3, <1>5, <1>10, RestSame, TypeStep
<1>13. HoldInv'
  <2>1. SameElsewhere(x)
    BY <1>1, <1>4, <1>5, <1>11, ElsewhereSame
  <2>2. Placed(t, q, x)
    BY <1>1, <1>2, <1>5, <1>11 DEF Placed
  <2> QED
    BY <1>2, <1>3, <1>4, <1>5, <2>1, <2>2, HoldStep DEF x
<1>14. PinInv'
  BY <1>1, <1>2, <1>3, <1>4, PinKept
<1>15. MapInv'
  BY <1>1, <1>2, <1>3, <1>4, MapKept
<1>16. LockInv'
  <2>1. sub[p0].os_count = Len(sub[p0].list) + 1 /\ Len(sub[p0].list) \in Nat
    BY <1>0, <1>1, <1>2, <1>4, OwnLock, SubprocFields
  <2>2. n = Len(sub[p0].list)
    BY <1>8, <2>1
  <2>3. sub'[p0].os_count = Len(sub'[p0].list) /\ Len(sub'[p0].list) \in Nat
    BY <1>9, <1>10, <2>1, <2>2
  <2> QED
    BY <1>0, <1>2, <1>3, <1>4, <1>9, <1>10, <2>3, LockStep
<1>17. SubprocInv'
  BY <1>1, <1>3, <1>4, <1>5, <1>6, SubprocKept
<1>18. CountInv'
  <2>1. \A p \in Subprocs : Marked(p)' = Marked(p)
    BY <1>1, <1>3, MarkedKept
  <2> QED
    BY <1>2, <1>3, <1>4, <1>11, <2>1, CountKept
<1>19. DataInv'
  BY <1>1, <1>3, <1>4, DataKept
<1> QED
  BY <1>12, <1>13, <1>14, <1>15, <1>16, <1>17, <1>18, <1>19 DEF IInv

-----------------------------------------------------------------------------
(* What the walk does with a segment it took.                               *)

\* A thread becomes the owner of the segment that it holds.
LEMMA ReclaimInv ==
  ASSUME TypeOK, IInv, NEW t \in Threads, th[t].pc = "hold", NEW x \in Segments, x = th[t].seg,
         NEW q \in {"os_free", "idle", "next"}, NEW s, Moves(t, q, s), q = "os_free" => s = x /\ seg[x].blocks = 0,
         seg' = [seg EXCEPT ![x].thread_id = t], sub' \in [Subprocs -> SubprocRecords], SameSubprocs,
         UNCHANGED <<bits, arenaLock, part, map, td_cache>>
  PROVE  TypeOK' /\ IInv'
<1>1. HoldInv /\ PinInv /\ MapInv /\ LockInv /\ SubprocInv /\ CountInv /\ DataInv
  BY Parts
<1>2. /\ th[t].pc \in HolderPcs /\ th[t].pc \notin FreePcs /\ q \notin FreePcs /\ th[t].pc \notin MapPcs
      /\ q \notin MapPcs /\ th[t].pc \notin LockPcs /\ q \notin LockPcs /\ th[t].pc \notin ComingPcs
      /\ q \notin ComingPcs /\ th[t].pc \notin GoingPcs /\ q \notin GoingPcs /\ th[t].pc \in WorkPcs
      /\ (q \in HolderPcs <=> q = "os_free") /\ (q \in ZeroPcs <=> q = "os_free")
      /\ (q \in WorkPcs <=> q = "os_free")
  BY DEF HolderPcs, FreePcs, MapPcs, ZeroPcs, LockPcs, WorkPcs, ComingPcs, GoingPcs
<1>3. /\ seg[x].live /\ x \notin bits /\ seg[x].thread_id = Nobody
      /\ \A p \in Subprocs : x \notin Elems(sub[p].list)
      /\ \A u \in Threads : u # t => ~(th[u].pc \in HolderPcs /\ th[u].seg = x)
  BY <1>1, <1>2, HolderKnows
<1>4. seg[x].subproc = th[t].proc
  BY <1>1, <1>2 DEF SubprocInv, WorkPcs
<1>5. /\ seg' \in [Segments -> SegmentRecords] /\ seg'[x].thread_id = t
      /\ seg'[x].live = seg[x].live /\ seg'[x].subproc = seg[x].subproc /\ seg'[x].blocks = seg[x].blocks
      /\ \A y \in Segments : y # x => seg'[y] = seg[y]
  BY OwnerChanges
<1>6. \A y \in Segments : /\ seg'[y].live = seg[y].live /\ seg'[y].subproc = seg[y].subproc
                          /\ seg'[y].blocks = seg[y].blocks
  BY <1>5
<1>7. TypeOK'
  BY <1>2, <1>5, RestSame, TypeStep DEF FreePcs
<1>8. HoldInv'
  <2>1. SameElsewhere(x)
    BY <1>1, <1>5, ElsewhereSame DEF SameSubprocs
  <2>2. Placed(t, q, x)
    BY <1>2, <1>3, <1>5, Known DEF Placed, SameSubprocs
  <2> QED
    BY <1>1, <1>2, <1>3, <2>1, <2>2, HoldStep
<1>9. PinInv'
  BY <1>1, <1>2, <1>6, PinKept
<1>10. MapInv'
  BY <1>1, <1>2, <1>6, MapKept
<1>11. LockInv'
  BY <1>1, <1>2, LockKept DEF SameSubprocs
<1>12. SubprocInv'
  BY <1>1, <1>2, <1>4, <1>5, SubprocStep
<1>13. CountInv'
  <2>1. \A p \in Subprocs : Marked(p)' = Marked(p)
    BY <1>6, MarkedKept
  <2> QED
    BY <1>1, <1>2, <2>1, CountKept DEF SameSubprocs
<1>14. DataInv'
  BY <1>1, DataKept
<1> QED
  BY <1>7, <1>8, <1>9, <1>10, <1>11, <1>12, <1>13, <1>14 DEF IInv

LEMMA HoldFreeInv ==
  ASSUME TypeOK, IInv, NEW t \in Threads, HoldFree(t)
  PROVE  TypeOK' /\ IInv'
<1>1. th[t].pc = "hold" /\ UNCHANGED <<bits, sub, arenaLock, part, map, td_cache>> /\ Go(t, "os_free")
  BY DEF HoldFree, At
<1>2. PICK x \in Segments : x = th[t].seg
  BY <1>1, HolderSeg DEF HolderPcs
<1>3. seg' = [seg EXCEPT ![x].thread_id = t] /\ seg[x].blocks = 0
  BY <1>2 DEF HoldFree, Seg
<1>4. Moves(t, "os_free", x)
  BY <1>1, <1>2, GoMoves, PcSets DEF HolderPcs
<1> QED
  BY <1>1, <1>2, <1>3, <1>4, SubprocsSame, ReclaimInv

LEMMA HoldReclaimInv ==
  ASSUME TypeOK, IInv, NEW t \in Threads, HoldReclaim(t)
  PROVE  TypeOK' /\ IInv'
<1>1. th[t].pc = "hold" /\ UNCHANGED <<bits, arenaLock, part, map, td_cache>>
  BY DEF HoldReclaim, At
<1>2. PICK x \in Segments : x = th[t].seg
  BY <1>1, HolderSeg DEF HolderPcs
<1>3. seg' = [seg EXCEPT ![x].thread_id = t]
  BY <1>2 DEF HoldReclaim, Seg
<1>4. CASE Go(t, "next") /\ UNCHANGED sub
  <2>1. Moves(t, "next", Nobody)
    BY <1>4, GoMoves, PcSets DEF PlainPcs
  <2> QED
    BY <1>1, <1>2, <1>3, <1>4, <2>1, SubprocsSame, ReclaimInv
<1>5. CASE CursorDone(t) /\ sub' = [sub EXCEPT ![Proc(t)].visit = Visitor(t)]
  <2>1. PICK r \in ThreadRecords :
           /\ th' = [th EXCEPT ![t] = r]
           /\ r.pc = "idle" /\ r.seg = Nobody /\ r.proc = th[t].proc /\ r.td = th[t].td
    BY <1>5, CursorDoneIs
  <2>2. Moves(t, "idle", Nobody)
    BY <2>1, CurMoves
  <2>3. sub' \in [Subprocs -> SubprocRecords] /\ SameSubprocs
    BY <1>5, VisitorType, VisitChanges
  <2> QED
    BY <1>1, <1>2, <1>3, <2>2, <2>3, ReclaimInv
<1> QED
  BY <1>4, <1>5 DEF HoldReclaim

LEMMA HoldMarkMove ==
  ASSUME TypeOK, NEW t \in Threads, NEW tries \in Int,
         th' = [th EXCEPT ![t].pc = "mark", ![t].cur.tries = tries]
  PROVE  Moves(t, "mark", th[t].seg)
<1> DEFINE cur == [th[t].cur EXCEPT !.tries = tries]
           new == [th[t] EXCEPT !.pc = "mark", !.cur = cur]
<1>1. th' = [th EXCEPT ![t] = new]
  BY ZenonT(60) DEF TypeOK, ThreadRecords, Cursors
<1>2. cur \in Cursors
  BY CursorFields DEF Cursors
<1> HIDE DEF cur
<1>3. /\ new \in ThreadRecords /\ new.pc = "mark" /\ new.seg = th[t].seg /\ new.td = th[t].td
      /\ new.proc = th[t].proc
  BY <1>2, ThreadFields, PcSets DEF ThreadRecords, HolderPcs
<1> HIDE DEF new
<1> QED
  BY <1>1, <1>3, CurMoves

LEMMA HoldMarkInv ==
  ASSUME TypeOK, IInv, NEW t \in Threads, HoldMark(t)
  PROVE  TypeOK' /\ IInv'
<1> DEFINE q == "mark"
           x == th[t].seg
           tries == IF Cur(t).kind = "reclaim" THEN th[t].cur.tries + 1 ELSE th[t].cur.tries
<1>1. th[t].pc = "hold" /\ UNCHANGED <<seg, bits, sub, arenaLock, part, map, td_cache>>
  BY DEF HoldMark, At
<1>2. /\ th[t].pc \in HolderPcs /\ q \in HolderPcs /\ th[t].pc \notin FreePcs /\ q \notin FreePcs
      /\ th[t].pc \notin MapPcs /\ q \notin MapPcs /\ q \notin ZeroPcs /\ th[t].pc \notin LockPcs
      /\ q \notin LockPcs /\ th[t].pc \notin ComingPcs /\ q \notin ComingPcs /\ th[t].pc \notin GoingPcs
      /\ q \notin GoingPcs /\ th[t].pc \in WorkPcs
  BY <1>1 DEF HolderPcs, FreePcs, MapPcs, ZeroPcs, LockPcs, WorkPcs, ComingPcs, GoingPcs
<1>3. Moves(t, q, x)
  <2>1. tries \in Int
    BY CursorFields
  <2>2. th' = [th EXCEPT ![t].pc = q, ![t].cur.tries = tries]
    BY DEF HoldMark, TypeOK, ThreadRecords, Cursors
  <2> HIDE DEF tries
  <2> QED
    BY <2>1, <2>2, HoldMarkMove
<1>4. HoldInv /\ PinInv /\ MapInv /\ LockInv /\ SubprocInv /\ CountInv /\ DataInv
  BY Parts
<1>5. /\ x \in Segments /\ seg[x].live /\ x \notin bits /\ seg[x].thread_id = Nobody
      /\ \A p \in Subprocs : x \notin Elems(sub[p].list)
      /\ \A u \in Threads : u # t => ~(th[u].pc \in HolderPcs /\ th[u].seg = x)
  BY <1>1, <1>2, <1>4, HolderKnows
<1>6. seg[x].subproc = th[t].proc
  BY <1>1, <1>2, <1>4 DEF SubprocInv, WorkPcs
<1> HIDE DEF x
<1>7. TypeOK'
  BY <1>1, <1>3, <1>5, RestSame, TypeStep
<1>8. HoldInv'
  <2>1. SameElsewhere(x)
    BY <1>1, <1>4, <1>5, ElsewhereSame
  <2>2. Placed(t, q, x)
    BY <1>1, <1>2, <1>5 DEF Placed
  <2> QED
    BY <1>2, <1>3, <1>4, <1>5, <2>1, <2>2, HoldStep DEF x
<1>9. PinInv'
  BY <1>1, <1>2, <1>3, <1>4, PinKept
<1>10. MapInv'
  BY <1>1, <1>2, <1>3, <1>4, MapKept
<1>11. LockInv'
  BY <1>1, <1>2, <1>3, <1>4, LockKept
<1>12. SubprocInv'
  BY <1>1, <1>3, <1>4, <1>5, <1>6, SubprocKept
<1>13. CountInv'
  <2>1. \A p \in Subprocs : Marked(p)' = Marked(p)
    BY <1>1, <1>3, MarkedKept
  <2> QED
    BY <1>1, <1>2, <1>3, <1>4, <2>1, CountKept
<1>14. DataInv'
  BY <1>1, <1>3, <1>4, DataKept
<1> QED
  BY <1>7, <1>8, <1>9, <1>10, <1>11, <1>12, <1>13, <1>14 DEF IInv

-----------------------------------------------------------------------------
(* The theorems.                                                            *)

LEMMA InitInv == Init => TypeOK /\ IInv
<1> SUFFICES ASSUME Init PROVE TypeOK /\ IInv
  OBVIOUS
<1>1. \A t \in Threads : /\ th[t] = ThreadRecord(t) /\ th[t].pc = "none" /\ th[t].seg = Nobody
                         /\ th[t].td = Nobody /\ th[t].proc = DefaultSubproc
  BY DEF Init, ThreadRecord
<1>2. \A s \in Segments : /\ seg[s].live = FALSE /\ seg[s].thread_id = Nobody /\ seg[s].blocks = 0
                          /\ seg[s].subproc = DefaultSubproc
  BY DEF Init
<1>3. \A p \in Subprocs : /\ sub[p].list = <<>> /\ sub[p].count = 0 /\ sub[p].os_count = 0
                          /\ sub[p].lock = Nobody
  BY DEF Init
<1>4. TypeOK
  <2>1. seg \in [Segments -> SegmentRecords]
    BY Known DEF Init, SegmentRecords
  <2>2. sub \in [Subprocs -> SubprocRecords]
    BY DEF Init, SubprocRecords
  <2>3. th \in [Threads -> ThreadRecords]
    <3>1. \A t \in Threads : ThreadRecord(t) \in ThreadRecords
      BY NoCursorType, Known, PcSets DEF ThreadRecord, ThreadRecords, PlainPcs
    <3> QED
      BY <3>1 DEF Init
  <2>4. "none" \notin HolderPcs \cup FreePcs
    BY DEF HolderPcs, FreePcs
  <2> QED
    BY <1>1, <2>1, <2>2, <2>3, <2>4 DEF Init, TypeOK
<1>5. \A p \in Subprocs : Elems(sub[p].list) = {} /\ NoDup(sub[p].list) /\ Len(sub[p].list) = 0
  BY <1>3 DEF Elems, NoDup
<1>6. /\ "none" \notin HolderPcs /\ "none" \notin FreePcs /\ "none" \notin LockPcs /\ "none" \notin MapPcs
  BY DEF HolderPcs, FreePcs, LockPcs, MapPcs
<1>7. HoldInv
  <2>1. OneAlone /\ HeldApart
    BY <1>1, <1>6 DEF OneAlone, HeldApart
  <2>2. BitsAbandoned /\ ListsAbandoned /\ NoneForgotten
    BY <1>2, <1>5 DEF Init, BitsAbandoned, ListsAbandoned, NoneForgotten
  <2>3. InRightPlace
    BY <1>1 DEF InRightPlace
  <2> QED
    BY <2>1, <2>2, <2>3 DEF HoldInv
<1>8. PinInv
  <2>1. \A s \in Segments : Freeing(s) = {}
    BY <1>1 DEF Freeing
  <2>2. \A s \in Segments : Cardinality(Freeing(s)) = 0
    BY <2>1, FS_EmptySet
  <2> QED
    BY <1>1, <1>2, <1>6, <2>2 DEF PinInv
<1>9. MapInv
  <2>1. part = Nobody /\ \A t \in Threads \cup {Nobody} : map[t] = {}
    BY DEF Init
  <2>2. \A s \in OsSegments : ~SegmentOf(s) /\ ~Noted(s) /\ ~seg[s].live
    BY <1>2, <2>1, Known DEF SegmentOf, Noted
  <2>3. \A t \in Threads : th[t].pc # "map_set"
    BY <1>1
  <2> QED
    BY <2>1, <2>2, <2>3 DEF MapInv
<1>10. LockInv
  <2>1. ~\E t \in Threads : th[t].pc = "popped"
    BY <1>1
  <2>2. \A p \in Subprocs : sub[p].os_count =
          Len(sub[p].list) + (IF \E t \in Threads : th[t].proc = p /\ th[t].pc = "popped" THEN 1 ELSE 0)
    <3> TAKE p \in Subprocs
    <3>1. ~\E t \in Threads : th[t].proc = p /\ th[t].pc = "popped"
      BY <2>1
    <3> QED
      BY <1>3, <1>5, <3>1
  <2> QED
    BY ZenonT(60), <1>1, <1>3, <1>6, <2>2, Known DEF LockInv
<1>11. SubprocInv
  BY <1>1, <1>2, <1>6, Known DEF SubprocInv
<1>12. CountInv
  <2> SUFFICES ASSUME NEW p \in Subprocs
               PROVE  sub[p].count + (Cardinality(Coming(p)) - Cardinality(Going(p)))
                        = Len(sub[p].list) + Cardinality(Marked(p))
    BY DEF CountInv
  <2>1. Coming(p) = {} /\ Going(p) = {} /\ Marked(p) = {}
    BY <1>1, <1>2 DEF Coming, Going, Marked
  <2>2. Cardinality(Coming(p)) = 0 /\ Cardinality(Going(p)) = 0 /\ Cardinality(Marked(p)) = 0
    BY <2>1, FS_EmptySet
  <2> QED
    BY <1>3, <1>5, <2>2
<1>13. DataInv
  BY <1>1 DEF Init, DataInv, DataUnique
<1> QED
  BY <1>4, <1>7, <1>8, <1>9, <1>10, <1>11, <1>12, <1>13 DEF IInv

LEMMA StutterInv ==
  ASSUME TypeOK, IInv, UNCHANGED vars
  PROVE  TypeOK' /\ IInv'
<1>1. UNCHANGED <<seg, bits, sub, arenaLock, part, map, td_cache, th>>
  BY DEF vars
<1>2. TypeOK'
  BY <1>1 DEF TypeOK
<1>3. HoldInv /\ PinInv /\ MapInv /\ LockInv /\ SubprocInv /\ CountInv /\ DataInv
  BY Parts
<1>4. HoldInv'
  <2>1. \A s : (InList(s)' <=> InList(s)) /\ (Held(s)' <=> Held(s))
    BY <1>1 DEF InList, Held
  <2>2. (NoneForgotten)'
    BY <1>1, <1>3, <2>1 DEF HoldInv, NoneForgotten
  <2>3. (OneAlone /\ HeldApart /\ BitsAbandoned)'
    BY <1>1, <1>3 DEF HoldInv, OneAlone, HeldApart, BitsAbandoned
  <2>4. (ListsAbandoned /\ InRightPlace)'
    BY <1>1, <1>3 DEF HoldInv, ListsAbandoned, InRightPlace
  <2> QED
    BY <2>2, <2>3, <2>4 DEF HoldInv
<1>5. PinInv'
  <2>1. \A s \in Segments : Freeing(s)' = Freeing(s)
    BY <1>1 DEF Freeing
  <2> QED
    BY <1>1, <1>3, <2>1 DEF PinInv
<1>6. MapInv'
  <2>1. \A s \in OsSegments : Noted(s)' <=> Noted(s)
    BY <1>1 DEF Noted, SegmentOf
  <2> QED
    BY <1>1, <1>3, <2>1 DEF MapInv, SegmentOf
<1>7. SubprocInv'
  BY <1>1, <1>3 DEF SubprocInv
<1>10. LockInv'
  <2> DEFINE out(p) == \E t \in Threads : th[t].proc = p /\ th[t].pc = "popped"
  <2>1. \A p \in Subprocs : sub[p].os_count = Len(sub[p].list) + (IF out(p) THEN 1 ELSE 0)
    BY <1>3 DEF LockInv
  <2>2. \A p \in Subprocs : out(p)' <=> out(p)
    BY <1>1
  <2> HIDE DEF out
  <2>3. \A p \in Subprocs : sub'[p].os_count = Len(sub'[p].list) + (IF out(p)' THEN 1 ELSE 0)
    BY <1>1, <2>1, <2>2
  <2>4. /\ \A t \in Threads : th'[t].pc \in LockPcs => sub'[th'[t].proc].lock = t
        /\ \A p \in Subprocs, t \in Threads : sub'[p].lock = t => th'[t].proc = p /\ th'[t].pc \in LockPcs
    BY <1>1, <1>3 DEF LockInv
  <2> QED
    BY <2>3, <2>4 DEF LockInv, out
<1>8. CountInv'
  <2>1. \A p \in Subprocs : Coming(p)' = Coming(p) /\ Going(p)' = Going(p) /\ Marked(p)' = Marked(p)
    BY <1>1 DEF Coming, Going, Marked, Proc
  <2> QED
    BY <1>1, <1>3, <2>1 DEF CountInv
<1>9. DataInv'
  BY <1>1, <1>3 DEF DataInv, DataUnique
<1> QED
  BY <1>2, <1>4, <1>5, <1>6, <1>7, <1>8, <1>9, <1>10 DEF IInv

LEMMA NextInv ==
  ASSUME TypeOK, IInv, [Next]_vars
  PROVE  TypeOK' /\ IInv'
<1>1. CASE UNCHANGED vars
  BY <1>1, StutterInv
<1>2. CASE Next
  <2>1. PICK t \in Threads : ThreadStep(t) \/ AbandonStep(t) \/ FreeStep(t) \/ CursorStep(t)
    BY <1>2 DEF Next
  <2>2. CASE ThreadStep(t)
    BY <2>2, ThreadInitInv, ThreadDataCollectInv, ThreadDataExchangeInv, ThreadDataZallocInv, ThreadDoneInv,
       SubprocAddInv, SegmentAllocInv, MallocInv, SegmentFreeInv, MapCasInv, MapFailsInv,
       MapAllocatedAtInv, SegmentOsFreeInv, ArenaFreeInv DEF ThreadStep
  <2>3. CASE AbandonStep(t)
    BY <2>3, AbandonInv, MarkAbandonedInv, MarkBitInv, MarkCountInv, OsMarkLockInv, OsMarkPushInv,
       OsMarkUnlockInv DEF AbandonStep
  <2>4. CASE FreeStep(t)
    BY <2>4, FreeInv, ClearAbandonedInv, ClearCountInv, ClearOwnInv, OsClearAbandonedInv,
       OsClearRemoveInv DEF FreeStep
  <2>5. CASE CursorStep(t)
    BY <2>5, CursorInitInv, CursorCountsInv, NextFieldInv, SkipArenaInv, ClearAbandonedAtInv, RemarkInv,
       BitCountInv, FieldDoneInv, NextListInv, ListLockInv, ListPopInv, ListUnlockInv, CursorEndInv,
       HoldFreeInv, HoldReclaimInv, HoldMarkInv DEF CursorStep
  <2> QED
    BY <2>1, <2>2, <2>3, <2>4, <2>5
<1> QED
  BY <1>1, <1>2

\* The inductive invariant holds in every state: what each step of a thread may
\* count on about the others, whichever of them stand between the bit and the
\* count, or inside a locked list.
THEOREM Invariance == Spec => [](TypeOK /\ IInv)
<1>1. Init => TypeOK /\ IInv
  BY InitInv
<1>2. TypeOK /\ IInv /\ [Next]_vars => (TypeOK /\ IInv)'
  BY NextInv
<1> QED
  BY <1>1, <1>2, PTL DEF Spec

\* A list is no longer than there are segments.
LEMMA ListLength ==
  ASSUME TypeOK, HoldInv, NEW p \in Subprocs
  PROVE  Len(sub[p].list) <= Cardinality(Segments) /\ Cardinality(Segments) \in Nat
<1> DEFINE list == sub[p].list
           S == 1..Len(list)
<1>1. list \in Seq(OsSegments) /\ Len(list) \in Nat
  BY SubprocFields
<1>2. NoDup(list) /\ Elems(list) \subseteq Segments
  BY ListsType
<1>3. [k \in S |-> list[k]] \in Injection(S, Segments)
  <2>1. \A k \in S : list[k] \in Segments
    BY <1>2 DEF Elems
  <2> QED
    BY <1>2, <2>1 DEF Injection, IsInjective, NoDup
<1>4. Cardinality(S) <= Cardinality(Segments)
  BY <1>3, Known, FS_Injection
<1>5. Cardinality(S) = Len(list)
  BY <1>1, FS_Interval
<1>6. Cardinality(Segments) \in Nat
  BY Known, FS_CardinalityType
<1> QED
  BY <1>4, <1>5, <1>6

\* How often a segment is listed.
LEMMA ListingsCount ==
  ASSUME TypeOK, HoldInv, NEW s \in Segments
  PROVE  /\ (\A p \in Subprocs : s \notin Elems(sub[p].list)) => Cardinality(Listings(s)) = 0
         /\ (\E p \in Subprocs : s \in Elems(sub[p].list)) => Cardinality(Listings(s)) = 1
<1>1. ASSUME \A p \in Subprocs : s \notin Elems(sub[p].list)
      PROVE  Cardinality(Listings(s)) = 0
  <2>1. ASSUME NEW e \in Listings(s)
        PROVE  FALSE
    <3>1. /\ e[1] \in Subprocs /\ e[2] \in 1..Cardinality(Segments)
          /\ e[2] <= Len(sub[e[1]].list) /\ sub[e[1]].list[e[2]] = s
      BY <2>1 DEF Listings
    <3>2. e[2] \in 1..Len(sub[e[1]].list)
      BY <3>1, ListLength
    <3> QED
      BY <1>1, <3>1, <3>2 DEF Elems
  <2>2. Listings(s) = {}
    BY <2>1
  <2> QED
    BY <2>2, FS_EmptySet
<1>2. ASSUME NEW p \in Subprocs, s \in Elems(sub[p].list)
      PROVE  Cardinality(Listings(s)) = 1
  <2>1. PICK k \in 1..Len(sub[p].list) : sub[p].list[k] = s
    BY <1>2 DEF Elems
  <2>2. k \in 1..Cardinality(Segments) /\ k <= Len(sub[p].list)
    BY ListLength, SubprocFields
  <2>3. <<p, k>> \in Listings(s)
    BY <2>1, <2>2 DEF Listings
  <2>4. ASSUME NEW e \in Listings(s)
        PROVE  e = <<p, k>>
    <3>1. /\ e \in Subprocs \X (1..Cardinality(Segments))
          /\ e[2] <= Len(sub[e[1]].list) /\ sub[e[1]].list[e[2]] = s
      BY <2>4 DEF Listings
    <3>2. e = <<e[1], e[2]>> /\ e[1] \in Subprocs /\ e[2] \in 1..Cardinality(Segments)
      BY <3>1
    <3>3. e[2] \in 1..Len(sub[e[1]].list)
      BY <3>1, <3>2, ListLength
    <3>4. s \in Elems(sub[e[1]].list)
      BY <3>1, <3>3 DEF Elems
    <3>5. e[1] = p
      BY <1>2, <3>2, <3>4 DEF HoldInv, ListsAbandoned
    <3>6. e[2] = k
      BY <2>1, <3>1, <3>3, <3>5, ListsType DEF NoDup
    <3> QED
      BY <3>2, <3>5, <3>6
  <2>5. Listings(s) = {<<p, k>>}
    BY <2>3, <2>4
  <2> QED
    BY <2>5, FS_Singleton
<1> QED
  BY <1>1, <1>2

LEMMA HoldersCount ==
  ASSUME TypeOK, HoldInv, NEW s \in Segments
  PROVE  /\ Holders(s) = {t \in Threads : th[t].seg = s /\ th[t].pc \in HolderPcs}
         /\ \A t \in Threads : th[t].seg = s /\ th[t].pc \in HolderPcs =>
              Holders(s) = {t} /\ Cardinality(Holders(s)) = 1
         /\ ~Held(s) => Holders(s) = {} /\ Cardinality(Holders(s)) = 0
<1>1. Holders(s) = {t \in Threads : th[t].seg = s /\ th[t].pc \in HolderPcs}
  BY DEF Holders, HolderPcs
<1>2. ASSUME NEW t \in Threads, th[t].seg = s, th[t].pc \in HolderPcs
      PROVE  Holders(s) = {t} /\ Cardinality(Holders(s)) = 1
  <2>1. Holders(s) = {t}
    BY <1>1, <1>2 DEF HoldInv, OneAlone
  <2> QED
    BY <2>1, FS_Singleton
<1>3. ASSUME ~Held(s)
      PROVE  Holders(s) = {} /\ Cardinality(Holders(s)) = 0
  <2>1. Holders(s) = {}
    BY <1>1, <1>3 DEF Held
  <2> QED
    BY <2>1, FS_EmptySet
<1> QED
  BY <1>1, <1>2, <1>3

\* A live segment is marked in blocks_abandoned, or linked in one abandoned_os_list,
\* or in the hands of one thread that takes or returns it, or owned, and only one
\* of these: the bit that _pa_arena_segment_clear_abandoned clears, the list under
\* its lock and thread_id never give a segment to two threads.
THEOREM SegmentsHaveOneHolder == Spec => []OneHolder
<1>1. ASSUME TypeOK, IInv PROVE OneHolder
  <2> SUFFICES ASSUME NEW s \in Segments
               PROVE  /\ seg[s].live => Listed(s) + Cardinality(Holders(s))
                           + (IF seg[s].thread_id # Nobody /\ Holders(s) = {} THEN 1 ELSE 0) = 1
                      /\ seg[s].thread_id # Nobody => Holders(s) \subseteq {seg[s].thread_id}
                      /\ ~seg[s].live => Listed(s) = 0 /\ Holders(s) = {}
    BY DEF OneHolder
  <2>1. HoldInv
    BY <1>1, Parts
  <2>2. CASE Held(s)
    <3>1. PICK t \in Threads : th[t].pc \in HolderPcs /\ th[t].seg = s
      BY <2>2 DEF Held
    <3>2. /\ seg[s].live /\ s \notin bits /\ (\A p \in Subprocs : s \notin Elems(sub[p].list))
          /\ seg[s].thread_id \in {t, Nobody}
      BY <1>1, <2>1, <3>1, HolderKnows
    <3>3. Holders(s) = {t} /\ Cardinality(Holders(s)) = 1
      BY <1>1, <2>1, <3>1, HoldersCount
    <3>4. Listed(s) = 0
      BY <1>1, <2>1, <3>2, ListingsCount DEF Listed
    <3> QED
      BY <3>2, <3>3, <3>4
  <2>3. CASE ~Held(s)
    <3>1. Holders(s) = {} /\ Cardinality(Holders(s)) = 0
      BY <1>1, <2>1, <2>3, HoldersCount
    <3>2. CASE seg[s].thread_id # Nobody \/ ~seg[s].live
      <4>1. s \notin bits /\ \A p \in Subprocs : s \notin Elems(sub[p].list)
        BY <1>1, <2>1, <3>2, Unlisted
      <4>2. Listed(s) = 0
        BY <1>1, <2>1, <4>1, ListingsCount DEF Listed
      <4>3. seg[s].thread_id # Nobody => seg[s].live
        BY <2>1 DEF HoldInv, NoneForgotten
      <4> QED
        BY <3>1, <3>2, <4>2
    <3>3. CASE seg[s].thread_id = Nobody /\ seg[s].live
      <4>1. s \in bits \/ \E p \in Subprocs : s \in Elems(sub[p].list)
        BY <2>1, <2>3, <3>3 DEF HoldInv, NoneForgotten, InList
      <4>2. s \in bits => \A p \in Subprocs : s \notin Elems(sub[p].list)
        BY <1>1, <2>1, ListsType, Known DEF TypeOK
      <4>3. Listed(s) = 1
        BY <1>1, <2>1, <4>1, <4>2, ListingsCount DEF Listed
      <4> QED
        BY <3>1, <3>3, <4>3
    <3> QED
      BY <3>1, <3>2, <3>3
  <2> QED
    BY <2>2, <2>3
<1> QED
  BY <1>1, Invariance, PTL

\* abandoned_count differs from the number of abandoned segments of the sub-process
\* only by the steps under way, and abandoned_os_list_count is the length of the
\* list whenever its lock is free.
THEOREM CountsAreExact == Spec => []CountExact
<1>1. ASSUME TypeOK, IInv PROVE CountExact
  <2>1. LockInv /\ CountInv
    BY <1>1, Parts
  <2> SUFFICES ASSUME NEW p \in Subprocs
               PROVE  /\ sub[p].count + Due(p) =
                           Len(sub[p].list)
                           + Cardinality({s \in Segments : seg[s].live /\ seg[s].subproc = p
                                /\ (s \in bits \/ \E t \in Threads : th[t].seg = s /\ th[t].pc = "remark")})
                      /\ sub[p].lock = Nobody => sub[p].os_count = Len(sub[p].list)
    BY DEF CountExact
  <2>2. Due(p) = Cardinality(Coming(p)) - Cardinality(Going(p))
    BY DEF Due, Coming, Going
  <2>3. sub[p].count + Due(p) = Len(sub[p].list) + Cardinality(Marked(p))
    BY <2>1, <2>2 DEF CountInv
  <2>4. sub[p].lock = Nobody => sub[p].os_count = Len(sub[p].list)
    BY <1>1, <2>1, FreeLock
  <2> QED
    BY <2>3, <2>4 DEF Marked
<1> QED
  BY <1>1, Invariance, PTL

\* A thread that looked at thread_id and is about to free its block
\* (pa_free_block_mt) finds the segment there, however the segment is reclaimed,
\* collected or abandoned again meanwhile.
THEOREM FreeingKeepsSegments == Spec => []FreeingPins
<1>1. ASSUME TypeOK, IInv PROVE FreeingPins
  <2>1. PinInv
    BY <1>1, Parts
  <2>2. ASSUME NEW t \in Threads, th[t].pc \in {"clear", "clear_count", "clear_own", "clear_os"}
        PROVE  seg[Seg(t)].live /\ seg[Seg(t)].blocks >= Cardinality(Freeing(Seg(t)))
    BY <1>1, <2>1, <2>2, FreeingLive DEF FreePcs, Seg
  <2> QED
    BY <2>2 DEF FreeingPins
<1> QED
  BY <1>1, Invariance, PTL

\* _pa_segment_of finds every OS segment that has blocks, but for those that found no
\* part (no memory for it, or an address beyond the map), and none that was returned,
\* although several threads may make the part of the segment map at once.
THEOREM SegmentMapIsExact == Spec => []MapExact
<1>1. ASSUME TypeOK, IInv PROVE MapExact
  <2>1. PinInv /\ MapInv
    BY <1>1, Parts
  <2>2. ASSUME NEW s \in OsSegments
        PROVE  /\ seg[s].blocks > 0 => (SegmentOf(s) <=> s \notin map[Nobody])
               /\ ~seg[s].live => ~SegmentOf(s) /\ s \notin map[Nobody]
    <3>1. Noted(s) <=> seg[s].live /\ \A t \in Threads : th[t].pc \in MapPcs => th[t].seg # s
      BY <2>1 DEF MapInv
    <3>2. s \in Segments
      BY Known
    <3>3. seg[s].blocks > 0 => seg[s].live /\ \A t \in Threads : th[t].pc \in MapPcs => th[t].seg # s
      BY <2>1, <3>2 DEF PinInv
    <3>4. ~(SegmentOf(s) /\ s \in map[Nobody])
      BY <2>1 DEF MapInv
    <3> QED
      BY <3>1, <3>3, <3>4 DEF Noted
  <2> QED
    BY <2>2 DEF MapExact
<1> QED
  BY <1>1, Invariance, PTL

\* The thread data of td_cache goes to one thread at a time: the exchange in
\* pa_thread_data_zalloc decides, not the look before it.
THEOREM ThreadDataIsOwn == Spec => []DataUnique
<1>1. TypeOK /\ IInv => DataUnique
  BY DEF IInv, DataInv
<1> QED
  BY <1>1, Invariance, PTL
=============================================================================
