------------------------------- MODULE Bitmap -------------------------------
(***************************************************************************)
(* The atomic bitmaps of bitmap.c: threads claim and release ranges of     *)
(* bits, in one field or across fields, with atomic operations on single   *)
(* fields only.  A claim across fields takes its fields one by one and     *)
(* rolls back when it meets a field somebody else has taken; arena.c uses  *)
(* this for blocks_inuse, where a claimed range is the right to use memory.*)
(*                                                                         *)
(* A field is the set of its one bits.  A load, a compare-and-swap and an  *)
(* atomic `or`/`and` of a field are one step each; a compare-and-swap loop *)
(* that only waits for its own bits is its last round.                     *)
(***************************************************************************)
EXTENDS Integers, FiniteSetsExt

CONSTANTS
  Threads,
  N,          \* bitmap_fields
  FieldBits,  \* PA_BITMAP_FIELD_BITS
  Counts,     \* numbers of bits that are asked for
  Leftover    \* bits at the end of the last field that are not blocks

ASSUME SizeAssumption ==
  /\ N \in Nat \ {0} /\ FieldBits \in Nat \ {0}
  /\ Counts \subseteq Nat \ {0}
  /\ Leftover \in 0..FieldBits - 1

VARIABLES
  bitmap,   \* bitmap[f]: the one bits of field f
  held,     \* claimed ranges in the hands of clients
  thread    \* thread[t]: progress of t in its call

vars == <<bitmap, held, thread>>

Fields == 0..N - 1
Bits == 0..FieldBits - 1
Full == Bits

\* A bitmap index (pa_bitmap_index_create) with a number of bits.
Ranges == [field : Fields, bit : Bits, count : Counts]

\* Zero bits at the high end of a field (pa_clz).
Clz(map) == IF map = {} THEN FieldBits ELSE FieldBits - 1 - Max(map)

\* The first zero bit of a field (pa_ctz of the complement).
Ctz(map) == IF map = Full THEN FieldBits ELSE Min(Full \ map)

\* pa_bitmap_mask_: count bits from bit on.
Mask(count, bit) == bit..bit + count - 1

DivideUp(n, d) == (n + d - 1) \div d

\* pa_bitmap_mask_across: the part of range r in field f, in the pre, mid and
\* post masks.
MaskAcross(r, f) ==
  LET pre  == FieldBits - r.bit
      rest == r.count - pre
      mid  == rest \div FieldBits
  IN CASE r.count <= pre -> IF f = r.field THEN Mask(r.count, r.bit) ELSE {}
       [] r.count > pre -> CASE f = r.field -> Mask(pre, r.bit)
                             [] f > r.field /\ f <= r.field + mid -> Full
                             [] f = r.field + mid + 1 -> Mask(rest % FieldBits, 0)
                             [] OTHER -> {}

LastField(r) == r.field + DivideUp(r.bit + r.count, FieldBits) - 1

\* Mutant of Scan: the last place of the field is not tried.
ScanShort(map, count, from) ==
  LET next[bit \in 0..FieldBits] ==
        LET mapm == map \cap Mask(count, bit)
        IN IF bit + count >= FieldBits THEN FieldBits
           ELSE IF mapm = {} THEN bit
           ELSE next[Max(mapm) + 1]
  IN next[from]

\* The loop of _pa_bitmap_try_find_claim_field: the first bit from `from` on
\* where count bits are zero; FieldBits if there is none.
Scan(map, count, from) ==
  LET next[bit \in 0..FieldBits] ==
        LET mapm == map \cap Mask(count, bit)
        IN IF bit + count > FieldBits THEN FieldBits
           ELSE IF mapm = {} THEN bit
           ELSE next[Max(mapm) + 1]
  IN next[from]

-----------------------------------------------------------------------------
(* A thread in a call.  idx, visited, retries: the search over the fields;  *)
(* map, bit: the last value seen of the field, and the bit to claim at;     *)
(* initial, field: a claim across fields and the field it is at.  An        *)
(* unclaim uses idx, bit, count and field; result tells of a search that     *)
(* failed, and of a release that did not find its bits set.                 *)

ThreadRecord ==
  [pc : {"idle", "infield", "cas", "across", "ahead", "first", "next", "roll", "unclaim"},
   count : Counts \cup {0}, idx : Fields, visited : Fields, retries : 0..3,
   map : SUBSET Bits, bit : 0..FieldBits, initial : 0..FieldBits, field : 0..N,
   result : {"none", "failed", "not_all_one"}]

Idle(result) ==
  [pc |-> "idle", count |-> 0, idx |-> 0, visited |-> 0, retries |-> 0, map |-> {},
   bit |-> 0, initial |-> 0, field |-> 0, result |-> result]

\* pa_manage_os_memory_ex2 claims the leftover bits.
Init ==
  /\ bitmap = [f \in Fields |-> IF f = N - 1 THEN Mask(Leftover, FieldBits - Leftover) ELSE {}]
  /\ held = {}
  /\ thread = [t \in Threads |-> Idle("none")]

Step(t, pc) == [thread[t] EXCEPT !.pc = pc]

\* Small counts never cross fields.
Visit(count) == IF count <= 2 THEN "infield" ELSE "across"

\* The search goes to the next field, or ends.
NextField(t) ==
  LET th == thread[t]
  IN IF th.visited + 1 = N THEN [Idle("failed") EXCEPT !.count = th.count]
     ELSE [Idle("none") EXCEPT !.pc = Visit(th.count), !.count = th.count,
                               !.visited = th.visited + 1,
                               !.idx = IF th.idx + 1 = N THEN 0 ELSE th.idx + 1]

\* _pa_bitmap_try_find_from_claim_across, and _pa_bitmap_try_find_from_claim.
FindClaim(t, count, start) ==
  /\ thread[t].pc = "idle"
  /\ thread' = [thread EXCEPT ![t] = [Idle("none") EXCEPT !.pc = Visit(count),
                                                          !.count = count, !.idx = start]]
  /\ UNCHANGED <<bitmap, held>>

\* Where the loop of _pa_bitmap_try_find_claim_field gets to with a field value.
FindIn(t, map, from) ==
  LET bit == Scan(map, thread[t].count, from)
  IN IF bit = FieldBits THEN NextField(t)
     ELSE [Step(t, "cas") EXCEPT !.map = map, !.bit = bit]

\* _pa_bitmap_try_find_claim_field: load the field, and find a place ...
InField(t) ==
  LET map == bitmap[thread[t].idx]
  IN /\ thread[t].pc = "infield"
     /\ thread' = [thread EXCEPT ![t] = FindIn(t, map, Ctz(map))]
     /\ UNCHANGED <<bitmap, held>>

Claimed(t, field, bit) ==
  /\ held' = held \cup {[field |-> field, bit |-> bit, count |-> thread[t].count]}
  /\ thread' = [thread EXCEPT ![t] = Idle("none")]

\* Mutant of CasField: the new value is stored over what others wrote.
StoreField(t) ==
  LET th == thread[t]
  IN /\ th.pc = "cas"
     /\ bitmap' = [bitmap EXCEPT ![th.idx] = th.map \cup Mask(th.count, th.bit)]
     /\ Claimed(t, th.idx, th.bit)

\* ... and swap; if the field changed, go on from the same bit.
CasField(t) ==
  LET th  == thread[t]
      map == bitmap[th.idx]
  IN /\ th.pc = "cas"
     /\ IF map = th.map
        THEN /\ bitmap' = [bitmap EXCEPT ![th.idx] = map \cup Mask(th.count, th.bit)]
             /\ Claimed(t, th.idx, th.bit)
        ELSE /\ thread' = [thread EXCEPT ![t] = FindIn(t, map, th.bit)]
             /\ UNCHANGED <<bitmap, held>>

-----------------------------------------------------------------------------
(* pa_bitmap_try_find_claim_field_across.                                   *)

\* The zeros at the end of the field where the range is to start.
Across(t) ==
  LET th      == thread[t]
      initial == Clz(bitmap[th.idx])
  IN /\ th.pc = "across"
     /\ thread' = [thread EXCEPT ![t] =
          CASE initial = 0 -> NextField(t)
            [] initial >= th.count -> Step(t, "infield")
            [] 0 < initial /\ initial < th.count ->
                 IF DivideUp(th.count - initial, FieldBits) >= N - th.idx THEN NextField(t)
                 ELSE [Step(t, "ahead") EXCEPT !.initial = initial, !.field = th.idx + 1]]
     /\ UNCHANGED <<bitmap, held>>

\* Bits of the range before field f, and the part of the range in a later field.
Found(th, f) == th.initial + (f - th.idx - 1) * FieldBits
FieldMask(th, f) ==
  Mask(IF Found(th, f) + FieldBits <= th.count THEN FieldBits ELSE th.count - Found(th, f), 0)
IsFinal(th, f) == Found(th, f) + FieldBits >= th.count
InitialMask(th) == Mask(th.initial, FieldBits - th.initial)

\* Scan ahead over the next fields, one at a time.
Ahead(t) ==
  LET th == thread[t]
  IN /\ th.pc = "ahead"
     /\ thread' = [thread EXCEPT ![t] =
          IF bitmap[th.field] \cap FieldMask(th, th.field) # {} THEN NextField(t)
          ELSE IF IsFinal(th, th.field) THEN Step(t, "first")
          ELSE [th EXCEPT !.field = th.field + 1]]
     /\ UNCHANGED <<bitmap, held>>

\* After a rollback: try the same field again, at most three times.
Retry(t) ==
  IF thread[t].retries <= 2
  THEN [Step(t, "across") EXCEPT !.retries = thread[t].retries + 1, !.initial = 0, !.field = 0]
  ELSE NextField(t)

\* Claim the part in the first field; nothing to roll back when that fails.
ClaimFirst(t) ==
  LET th == thread[t]
  IN /\ th.pc = "first"
     /\ IF bitmap[th.idx] \cap InitialMask(th) # {}
        THEN thread' = [thread EXCEPT ![t] = Retry(t)] /\ bitmap' = bitmap
        ELSE /\ bitmap' = [bitmap EXCEPT ![th.idx] = @ \cup InitialMask(th)]
             /\ thread' = [thread EXCEPT ![t] = [Step(t, "next") EXCEPT !.field = th.idx + 1]]
     /\ held' = held

\* A whole field in the middle must be zero; of the final field only its part.
ClaimNext(t) ==
  LET th   == thread[t]
      mask == FieldMask(th, th.field)
  IN /\ th.pc = "next"
     /\ IF bitmap[th.field] \cap mask # {}
        THEN /\ thread' = [thread EXCEPT ![t] = [Step(t, "roll") EXCEPT !.field = th.field - 1]]
             /\ UNCHANGED <<bitmap, held>>
        ELSE /\ bitmap' = [bitmap EXCEPT ![th.field] = @ \cup mask]
             /\ IF IsFinal(th, th.field) THEN Claimed(t, th.idx, FieldBits - th.initial)
                ELSE held' = held /\ thread' = [thread EXCEPT ![t].field = th.field + 1]

\* Mutant of Rollback: the middle fields stay claimed.
RollbackFirst(t) ==
  LET th == thread[t]
  IN /\ th.pc = "roll"
     /\ bitmap' = [bitmap EXCEPT ![th.idx] = @ \ InitialMask(th)]
     /\ thread' = [thread EXCEPT ![t] = Retry(t)]
     /\ held' = held

\* Give the fields back in reverse order: middle fields are stored as zero, the
\* first is cleared in its part.
Rollback(t) ==
  LET th == thread[t]
  IN /\ th.pc = "roll"
     /\ IF th.field > th.idx
        THEN /\ bitmap' = [bitmap EXCEPT ![th.field] = {}]
             /\ thread' = [thread EXCEPT ![t].field = th.field - 1]
        ELSE /\ bitmap' = [bitmap EXCEPT ![th.idx] = @ \ InitialMask(th)]
             /\ thread' = [thread EXCEPT ![t] = Retry(t)]
     /\ held' = held

-----------------------------------------------------------------------------
(* _pa_bitmap_try_claim, and _pa_bitmap_unclaim and _unclaim_across.        *)

\* Claim a given range of one field (pa_arena_try_purge does this).
TryClaim(t, r) ==
  /\ thread[t].pc = "idle"
  /\ r.bit + r.count <= FieldBits
  /\ bitmap[r.field] \cap Mask(r.count, r.bit) = {}
  /\ bitmap' = [bitmap EXCEPT ![r.field] = @ \cup Mask(r.count, r.bit)]
  /\ held' = held \cup {r}
  /\ thread' = [thread EXCEPT ![t] = Idle("none")]

\* Any thread releases a range; the first field is cleared in the next step.
Unclaim(t, r) ==
  /\ thread[t].pc = "idle"
  /\ r \in held
  /\ held' = held \ {r}
  /\ thread' = [thread EXCEPT ![t] = [Idle("none") EXCEPT !.pc = "unclaim", !.count = r.count,
                                        !.idx = r.field, !.bit = r.bit, !.field = r.field]]
  /\ UNCHANGED bitmap

Releasing(th) == [field |-> th.idx, bit |-> th.bit, count |-> th.count]

UnclaimField(t) ==
  LET th   == thread[t]
      r    == Releasing(th)
      mask == MaskAcross(r, th.field)
      all  == mask \subseteq bitmap[th.field] /\ th.result = "none"
  IN /\ th.pc = "unclaim"
     /\ bitmap' = [bitmap EXCEPT ![th.field] = @ \ mask]
     /\ thread' = [thread EXCEPT ![t] =
          IF th.field = LastField(r) THEN Idle(IF all THEN "none" ELSE "not_all_one")
          ELSE [th EXCEPT !.field = th.field + 1, !.result = IF all THEN "none" ELSE "not_all_one"]]
     /\ held' = held

-----------------------------------------------------------------------------
ThreadStep(t) ==
  \/ InField(t) \/ CasField(t)
  \/ Across(t) \/ Ahead(t) \/ ClaimFirst(t) \/ ClaimNext(t) \/ Rollback(t)
  \/ UnclaimField(t)

Next ==
  \E t \in Threads :
    \/ ThreadStep(t)
    \/ \E count \in Counts, start \in Fields : FindClaim(t, count, start)
    \/ \E r \in Ranges : TryClaim(t, r)
    \/ \E r \in held : Unclaim(t, r)

Spec == Init /\ [][Next]_vars

-----------------------------------------------------------------------------
(* Properties.                                                              *)

TypeOK ==
  /\ bitmap \in [Fields -> SUBSET Bits]
  /\ held \subseteq Ranges
  /\ thread \in [Threads -> ThreadRecord]

\* The bits of a range, as its position in the whole bitmap says.
BitsOf(r, f) == {b \in Bits : /\ r.bit <= (f - r.field) * FieldBits + b
                              /\ (f - r.field) * FieldBits + b < r.bit + r.count}

\* The bits of field f that thread t has taken and not given away: of a claim
\* across fields in progress, of a rollback, and of a release.
Taken(t, f) ==
  LET th == thread[t]
  IN CASE th.pc \in {"next", "roll"} ->
            IF f = th.idx THEN InitialMask(th)
            ELSE IF th.idx < f /\ (IF th.pc = "next" THEN f < th.field ELSE f <= th.field)
            THEN Full ELSE {}
       [] th.pc = "unclaim" -> IF f >= th.field THEN BitsOf(Releasing(th), f) ELSE {}
       [] OTHER -> {}

LeftoverBits(f) == IF f = N - 1 THEN Mask(Leftover, FieldBits - Leftover) ELSE {}

\* Claimed ranges, claims and releases in progress and the leftover bits never
\* share a bit: two successful claims are never given the same memory.
ClaimsDisjoint ==
  \A f \in Fields :
    /\ \A r, s \in held : r # s => BitsOf(r, f) \cap BitsOf(s, f) = {}
    /\ \A t \in Threads :
         /\ \A r \in held : Taken(t, f) \cap BitsOf(r, f) = {}
         /\ \A u \in Threads : t # u => Taken(t, f) \cap Taken(u, f) = {}
         /\ Taken(t, f) \cap LeftoverBits(f) = {}
    /\ \A r \in held : BitsOf(r, f) \cap LeftoverBits(f) = {}

\* The one bits are exactly those: a rollback never leaves a bit behind nor clears
\* one that somebody else claimed meanwhile, and a release, whose masks are
\* computed differently from those of the claim, finds all its bits set
\* (_pa_arena_free reports a double free otherwise) and clears what the claim set.
BitmapExact ==
  /\ \A f \in Fields :
       bitmap[f] = LeftoverBits(f) \cup (UNION {BitsOf(r, f) : r \in held})
                     \cup (UNION {Taken(t, f) : t \in Threads})
  /\ \A t \in Threads : thread[t].result # "not_all_one"

\* The skipping scan of a field finds the first run of zeros that is long enough.
FirstRun(map, count) ==
  LET runs == {bit \in Bits : bit + count <= FieldBits /\ map \cap Mask(count, bit) = {}}
  IN IF runs = {} THEN FieldBits ELSE Min(runs)

ScanFindsFirst ==
  \A f \in Fields, count \in Counts :
    Scan(bitmap[f], count, Ctz(bitmap[f])) = FirstRun(bitmap[f], count)
=============================================================================
