----------------------------- MODULE VectorBatch -----------------------------
(***************************************************************************)
(* pa_vector_batch_alloc and pa_vector_batch_free of palloc_vector.c.  A   *)
(* batch is allocated block by block; it is freed by any thread, which     *)
(* groups the blocks of other threads' pages in buckets, by a hash of the  *)
(* page, and splices each bucket with one compare-and-swap into the page's *)
(* thread_free list, or into the delayed list of its heap.                 *)
(*                                                                         *)
(* The owner's side is that of PageBlocks, reduced to the steps that       *)
(* change the flag, the heap and the lists of a page.                      *)
(***************************************************************************)
EXTENDS VectorParams, SequencesExt

CONSTANTS
  BatchPages,
  BatchBlocks,
  BatchPageOf,     \* the page of a block
  BatchOwner,      \* the thread whose segment a page is in
  BucketOf,        \* the bucket a page hashes to
  NoPageB,
  MaxBatch         \* longest batch

ASSUME BatchAssumption ==
  /\ BatchPageOf \in [BatchBlocks -> BatchPages]
  /\ BatchOwner \in [BatchPages -> Threads]
  /\ NoPageB \notin BatchPages /\ MaxBatch \in Nat \ {0}

Buckets == {BucketOf[p] : p \in BatchPages}

VARIABLES
  bpage,     \* flag, heap (is there one), thread_free of each page
  delayed,   \* the blocks of the heap's thread_delayed_free list
  bfree,     \* the blocks on free lists
  batches,   \* the batches of the client
  bth        \* what each thread is doing

batchVars == <<bpage, delayed, bfree, batches, bth>>

NoBucket == [page |-> NoPageB, chain |-> {}]
EmptyBuckets == [h \in Buckets |-> NoBucket]
BatchIdle == [pc |-> "idle", count |-> 0, ptrs |-> <<>>, buckets |-> EmptyBuckets, bucket |-> NoBucket]

BatchInit ==
  /\ bpage = [p \in BatchPages |-> [flag |-> "use", heap |-> TRUE, thread_free |-> {}]]
  /\ delayed = {}
  /\ bfree = BatchBlocks
  /\ batches = {}
  /\ bth = [t \in Threads |-> BatchIdle]

BatchAt(t, pc) == bth[t].pc = pc

-----------------------------------------------------------------------------
(* pa_vector_batch_alloc: block by block; if one cannot be had, the others  *)
(* are freed again.                                                         *)

BatchAlloc(t, count) ==
  /\ BatchAt(t, "idle")
  /\ bth' = [bth EXCEPT ![t].pc = "alloc", ![t].count = count]
  /\ UNCHANGED <<bpage, delayed, bfree, batches>>

BatchAllocOne(t, b) ==
  LET ptrs == Append(bth[t].ptrs, b)
  IN /\ BatchAt(t, "alloc")
     /\ b \in bfree /\ BatchOwner[BatchPageOf[b]] = t /\ bpage[BatchPageOf[b]].heap
     /\ bfree' = bfree \ {b}
     /\ IF Len(ptrs) = bth[t].count
          THEN /\ batches' = batches \cup {ptrs}
               /\ bth' = [bth EXCEPT ![t] = BatchIdle]
          ELSE /\ bth' = [bth EXCEPT ![t].ptrs = ptrs]
               /\ UNCHANGED batches
     /\ UNCHANGED <<bpage, delayed>>

BatchAllocFails(t) ==
  /\ BatchAt(t, "alloc")
  /\ bth' = [bth EXCEPT ![t].pc = "undo"]
  /\ UNCHANGED <<bpage, delayed, bfree, batches>>

BatchAllocUndo(t) ==
  LET ptrs == bth[t].ptrs
  IN /\ BatchAt(t, "undo")
     /\ IF ptrs = <<>>
          THEN bth' = [bth EXCEPT ![t] = BatchIdle] /\ UNCHANGED bfree
          ELSE /\ bfree' = bfree \cup {Last(ptrs)}
               /\ bth' = [bth EXCEPT ![t].ptrs = Front(ptrs)]
     /\ UNCHANGED <<bpage, delayed, batches>>

-----------------------------------------------------------------------------
(* pa_vector_batch_free                                                     *)

BatchFree(t, ptrs) ==
  /\ BatchAt(t, "idle")
  /\ bth' = [bth EXCEPT ![t].pc = "free", ![t].ptrs = ptrs]
  /\ batches' = batches \ {ptrs}
  /\ UNCHANGED <<bpage, delayed, bfree>>

\* A block of the thread's own segments.
BatchFreeLocal(t) ==
  LET ptrs == bth[t].ptrs
  IN /\ BatchAt(t, "free") /\ ptrs # <<>>
     /\ BatchOwner[BatchPageOf[ptrs[1]]] = t
     /\ bfree' = bfree \cup {ptrs[1]}
     /\ bth' = [bth EXCEPT ![t].ptrs = Tail(@)]
     /\ UNCHANGED <<bpage, delayed, batches>>

\* Another thread's block: it goes into the bucket of its page, after a flush
\* of the bucket if it holds blocks of another page.
BatchFreeRemote(t) ==
  LET r == bth[t]
      p == BatchPageOf[r.ptrs[1]]
      h == BucketOf[p]
  IN /\ BatchAt(t, "free") /\ r.ptrs # <<>> /\ BatchOwner[p] # t
     /\ IF r.buckets[h].page \notin {NoPageB, p}
          THEN bth' = [bth EXCEPT ![t].pc = "flush", ![t].bucket = r.buckets[h],
                                  ![t].buckets[h] = NoBucket]
          ELSE bth' = [bth EXCEPT ![t].buckets[h] = [page |-> p, chain |-> @.chain \cup {r.ptrs[1]}],
                                  ![t].ptrs = Tail(@)]
     /\ UNCHANGED <<bpage, delayed, bfree, batches>>

\* The buckets that are left, and the array of pointers.
BatchFlushAll(t) ==
  LET r == bth[t]
      H == {h \in Buckets : r.buckets[h].page # NoPageB}
  IN /\ BatchAt(t, "free") /\ r.ptrs = <<>>
     /\ IF H = {} THEN bth' = [bth EXCEPT ![t] = BatchIdle]
        ELSE \E h \in H :
               bth' = [bth EXCEPT ![t].pc = "flush", ![t].bucket = r.buckets[h],
                                  ![t].buckets[h] = NoBucket]
     /\ UNCHANGED <<bpage, delayed, bfree, batches>>

\* Mutant of FlushSplice: the page is not kept in the heap while the chain is
\* moved to the delayed list.
FlushSpliceUnpinned(t) ==
  LET p == bth[t].bucket.page
  IN /\ BatchAt(t, "flush")
     /\ IF bpage[p].flag = "use"
          THEN /\ bth' = [bth EXCEPT ![t].pc = "delay"]
               /\ UNCHANGED bpage
          ELSE /\ bpage' = [bpage EXCEPT ![p].thread_free = @ \cup bth[t].bucket.chain]
               /\ bth' = [bth EXCEPT ![t].pc = "free", ![t].bucket = NoBucket]
     /\ UNCHANGED <<delayed, bfree, batches>>

\* pa_flush_page_bucket: the splice into thread_free ...
FlushSplice(t) ==
  LET p == bth[t].bucket.page
  IN /\ BatchAt(t, "flush")
     /\ IF bpage[p].flag = "use"
          THEN /\ bpage' = [bpage EXCEPT ![p].flag = "freeing"]
               /\ bth' = [bth EXCEPT ![t].pc = "delay"]
          ELSE /\ bpage' = [bpage EXCEPT ![p].thread_free = @ \cup bth[t].bucket.chain]
               /\ bth' = [bth EXCEPT ![t].pc = "free", ![t].bucket = NoBucket]
     /\ UNCHANGED <<delayed, bfree, batches>>

\* ... or into the delayed list of the page's heap, if the page has one ...
FlushDelay(t) ==
  LET r == bth[t]
  IN /\ BatchAt(t, "delay")
     /\ delayed' = IF bpage[r.bucket.page].heap THEN delayed \cup r.bucket.chain ELSE delayed
     /\ bth' = [bth EXCEPT ![t].pc = "reset", ![t].bucket.chain = {}]
     /\ UNCHANGED <<bpage, bfree, batches>>

\* ... after which the flag says that a delayed free is pending.
FlushReset(t) ==
  /\ BatchAt(t, "reset")
  /\ bpage' = [bpage EXCEPT ![bth[t].bucket.page].flag = "no"]
  /\ bth' = [bth EXCEPT ![t].pc = "free", ![t].bucket = NoBucket]
  /\ UNCHANGED <<delayed, bfree, batches>>

-----------------------------------------------------------------------------
(* The thread that owns a page, between its own calls.                      *)

OwnerQuiet(p) == BatchAt(BatchOwner[p], "idle")

\* _pa_page_thread_free_collect
OwnerCollect(p) ==
  /\ OwnerQuiet(p) /\ bpage[p].heap /\ bpage[p].thread_free # {}
  /\ bfree' = bfree \cup bpage[p].thread_free
  /\ bpage' = [bpage EXCEPT ![p].thread_free = {}]
  /\ UNCHANGED <<delayed, batches, bth>>

\* _pa_free_delayed_block, which fails while a thread is in state FREEING.
OwnerDelayedFree(b) ==
  LET p == BatchPageOf[b]
  IN /\ b \in delayed /\ OwnerQuiet(p) /\ bpage[p].flag # "freeing"
     /\ delayed' = delayed \ {b}
     /\ bfree' = bfree \cup {b} \cup bpage[p].thread_free
     /\ bpage' = [bpage EXCEPT ![p].thread_free = {}, ![p].flag = IF @ = "never" THEN @ ELSE "use"]
     /\ UNCHANGED <<batches, bth>>

\* The page is abandoned: first its flag is NEVER, then the delayed list is
\* emptied, then it has no heap.
OwnerNever(p) ==
  /\ OwnerQuiet(p) /\ bpage[p].flag \in {"use", "no"}
  /\ bpage' = [bpage EXCEPT ![p].flag = "never"]
  /\ UNCHANGED <<delayed, bfree, batches, bth>>

OwnerAbandon(p) ==
  /\ OwnerQuiet(p) /\ bpage[p].flag = "never" /\ bpage[p].heap
  /\ \A b \in delayed : BatchPageOf[b] # p
  /\ bpage' = [bpage EXCEPT ![p].heap = FALSE]
  /\ UNCHANGED <<delayed, bfree, batches, bth>>

OwnerReclaim(p) ==
  /\ OwnerQuiet(p) /\ ~bpage[p].heap
  /\ bpage' = [bpage EXCEPT ![p].heap = TRUE, ![p].flag = "use"]
  /\ UNCHANGED <<delayed, bfree, batches, bth>>

BatchNext ==
  \/ \E t \in Threads :
       \/ \E n \in 1 .. MaxBatch : BatchAlloc(t, n)
       \/ \E b \in BatchBlocks : BatchAllocOne(t, b)
       \/ BatchAllocFails(t) \/ BatchAllocUndo(t)
       \/ \E ptrs \in batches : BatchFree(t, ptrs)
       \/ BatchFreeLocal(t) \/ BatchFreeRemote(t) \/ BatchFlushAll(t)
       \/ FlushSplice(t) \/ FlushDelay(t) \/ FlushReset(t)
  \/ \E p \in BatchPages : OwnerCollect(p) \/ OwnerNever(p) \/ OwnerAbandon(p) \/ OwnerReclaim(p)
  \/ \E b \in BatchBlocks : OwnerDelayedFree(b)

\* Every block is in exactly one place: on a free list, on thread_free or on
\* the delayed list, in a batch of the client, or in the hands of a call (the
\* array, a bucket, the chain being flushed).  A batch free that loses a chain
\* because its page has no heap, or frees a block twice, breaks it.
BatchFreesOnce ==
  \A b \in BatchBlocks :
    LET In(S) == IF b \in S THEN 1 ELSE 0
        calls == {t \in Threads : b \in Range(bth[t].ptrs) \cup bth[t].bucket.chain
                                        \cup UNION {bth[t].buckets[h].chain : h \in Buckets}}
    IN In(bfree) + In(delayed) + In(bpage[BatchPageOf[b]].thread_free)
         + Cardinality({x \in batches : b \in Range(x)}) + Cardinality(calls) = 1
=============================================================================
