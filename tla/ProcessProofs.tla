--------------------------- MODULE ProcessProofs ----------------------------
(***************************************************************************)
(* Theorems about the life of the process (Process, init.c) and about its  *)
(* messages and options (Messages, options.c).                             *)
(*                                                                         *)
(* Process, for any number of threads.  LifecycleSafe is not inductive:    *)
(* that nobody is early, and that nobody releases memory while the worker  *)
(* may start, rest on there being one thread between the swap of           *)
(* process_init_state and its publication; and the count of threads covers *)
(* their heaps only because it starts at one for a main thread that is     *)
(* taken off at most once.                                                 *)
(*                                                                         *)
(* Messages, for any number of threads, depth of nested messages, length   *)
(* of the delayed buffer, limit and environment.  A call that copies to    *)
(* the buffer owns the cells of its room from the claim to the copy        *)
(* (Owns), one that flushes the cell behind the text; what was copied      *)
(* stays because no two calls own a cell (Apart), nobody owns a cell of    *)
(* text (PiecesOK), and out_len is beyond all of them (FramesOK).  Loading *)
(* reads the options in order, so that the last one is read after the      *)
(* others (LoadOK).                                                        *)
(***************************************************************************)
EXTENDS Process, Messages, SequenceTheorems, FiniteSetTheorems, TLAPS

-----------------------------------------------------------------------------
(* The life of the process.                                                 *)

ProcessSpec == ProcessInit /\ [][ProcessNext]_processVars

\* The places of a thread in the initialisation that it has to itself.
Initialising == {"own", "setup", "create", "flag", "publish"}
Places == {"none", "idle", "init", "swap", "wait", "heap", "count", "uncounted", "check",
           "purge", "exited", "join", "release", "over"} \cup Initialising

ProcessTypeOK ==
  /\ loading \in BOOLEAN /\ background \in BOOLEAN /\ destroy \in BOOLEAN
  /\ process_init_state \in 0..2 /\ process_init_thread \in Procs \cup {NoThread}
  /\ is_initialized \in BOOLEAN /\ tls_initialized \in BOOLEAN
  /\ main_thread \in Procs \cup {NoThread}
  /\ default \in [Procs -> {"empty", "main", "own"}]
  /\ thread_count \in Int /\ main_done \in BOOLEAN
  /\ worker_running \in BOOLEAN /\ process_done \in BOOLEAN /\ done_started \in BOOLEAN
  /\ destroyed \in BOOLEAN
  /\ at \in [Procs -> Places]

\* Nothing has started while the loader has still to run.
LoaderFirst ==
  loading => /\ process_init_state = 0 /\ main_thread = NoThread /\ ~tls_initialized
             /\ \A t \in Procs : default[t] = "empty" /\ at[t] \in {"none", "idle"}

\* One thread initialises, and only while process_init_state is 1; it gets its heap
\* then too.
Initialises(t) ==
  at[t] \in Initialising \/ (at[t] \in {"heap", "count"} /\ process_init_state = 1)

OneInitialises ==
  /\ \A t \in Procs : at[t] \in Initialising => process_init_state = 1
  /\ \A t, u \in Procs : Initialises(t) /\ Initialises(u) => t = u
  /\ \A t \in Procs : at[t] = "own" => process_init_thread = NoThread
  /\ \A t \in Procs : Initialises(t) /\ at[t] # "own" => process_init_thread = t
  /\ process_init_thread # NoThread =>
       process_init_state = 2 \/ Initialises(process_init_thread)
  /\ process_init_state = 0 => process_init_thread = NoThread

\* The main heap has its thread before anybody else gets a heap.
MainFirst ==
  /\ tls_initialized <=> main_thread # NoThread
  /\ process_init_state = 2 => tls_initialized
  /\ \A t \in Procs : at[t] \in {"heap", "count", "create", "flag", "publish"} => tls_initialized
  /\ main_thread # Worker
  /\ \A t \in Procs : at[t] \in {"heap", "count"} => process_init_state # 0
  /\ \A t \in Procs : at[t] \in {"purge", "uncounted"} => process_init_state = 2
  /\ \A t \in Procs : default[t] # "empty" /\ at[t] \in {"idle", "uncounted", "join", "release"} =>
       process_init_state = 2
  /\ \A t \in Procs : default[t] # "empty" => tls_initialized

\* The worker starts in the initialisation, once, and is known to run after it.
WorkerKnown ==
  /\ at[Worker] \in {"none", "exited", "check", "init", "swap", "wait", "heap", "count", "purge",
                     "uncounted"}
  /\ \A t \in Clients : at[t] \notin {"none", "exited", "check", "purge"}
  /\ process_init_state = 0 => at[Worker] = "none"
  /\ \A t \in Procs : Initialises(t) /\ at[t] \notin {"flag", "publish"} => at[Worker] = "none"
  /\ at[Worker] # "none" => tls_initialized
  /\ process_init_state = 2 /\ at[Worker] \notin {"none", "exited"} => worker_running
  /\ \A t \in Procs : at[t] = "publish" /\ at[Worker] # "none" => worker_running
  /\ \A t \in Procs : at[t] \in {"join", "release", "over"} => process_init_state = 2
  /\ \A t \in Procs : at[t] \in {"release", "over"} => at[Worker] \in {"none", "exited"}
  /\ destroyed => process_init_state = 2 /\ at[Worker] \in {"none", "exited"}

\* The heaps of threads, and the main thread until it is done.
Heaps == {t \in Procs : default[t] = "own" /\ at[t] \notin {"count", "uncounted"}}
Counted == Cardinality(Heaps) + (IF main_done THEN 0 ELSE 1) <= thread_count

PInv ==
  /\ LoaderFirst /\ OneInitialises /\ MainFirst /\ WorkerKnown /\ NobodyEarly /\ OneMainHeap
  /\ Counted

-----------------------------------------------------------------------------
(* Heaps are counted.                                                       *)

LEMMA ProcsFinite ==
  IsFiniteSet(Procs) /\ Worker \in Procs /\ Clients \subseteq Procs
                      /\ NoThread \notin Procs
BY ProcessAssumption, FS_AddElement DEF Procs

LEMMA HeapsFinite == IsFiniteSet(Heaps) /\ Cardinality(Heaps) \in Nat
BY ProcsFinite, FS_Subset, FS_CardinalityType DEF Heaps

\* No new heap.
LEMMA CountKept ==
  ASSUME ProcessTypeOK, Counted, Heaps' \subseteq Heaps, UNCHANGED <<thread_count, main_done>>
  PROVE  Counted'
<1>1. Cardinality(Heaps') \in Nat /\ Cardinality(Heaps') <= Cardinality(Heaps)
  BY HeapsFinite, FS_Subset, FS_CardinalityType
<1> QED
  BY <1>1, HeapsFinite DEF ProcessTypeOK, Counted

\* The heap of t is counted with it.
LEMMA CountAdded ==
  ASSUME ProcessTypeOK, Counted, NEW t \in Procs, Heaps' \subseteq Heaps \cup {t},
         thread_count' = thread_count + 1, main_done' = main_done
  PROVE  Counted'
<1>1. /\ IsFiniteSet(Heaps \cup {t}) /\ Cardinality(Heaps \cup {t}) \in Nat
      /\ Cardinality(Heaps \cup {t}) <= Cardinality(Heaps) + 1
  BY SMTT(30), HeapsFinite, FS_AddElement
<1>2. Cardinality(Heaps') \in Nat /\ Cardinality(Heaps') <= Cardinality(Heaps \cup {t})
  BY <1>1, FS_Subset, FS_CardinalityType
<1> QED
  BY <1>1, <1>2, HeapsFinite DEF ProcessTypeOK, Counted

\* The heap of t goes with its count.
LEMMA CountRemoved ==
  ASSUME ProcessTypeOK, Counted, NEW t \in Heaps, Heaps' \subseteq Heaps \ {t},
         thread_count' = thread_count - 1, main_done' = main_done
  PROVE  Counted'
<1>1. /\ IsFiniteSet(Heaps \ {t}) /\ Cardinality(Heaps \ {t}) = Cardinality(Heaps) - 1
      /\ Cardinality(Heaps \ {t}) \in Nat
  BY HeapsFinite, FS_RemoveElement, FS_CardinalityType
<1>2. Cardinality(Heaps') \in Nat /\ Cardinality(Heaps') <= Cardinality(Heaps \ {t})
  BY <1>1, FS_Subset, FS_CardinalityType
<1> QED
  BY <1>1, <1>2, HeapsFinite DEF ProcessTypeOK, Counted

\* The main thread is taken off once.
LEMMA CountMainDone ==
  ASSUME ProcessTypeOK, Counted, Heaps' \subseteq Heaps, ~main_done, main_done',
         thread_count' = thread_count - 1
  PROVE  Counted'
<1>1. Cardinality(Heaps') \in Nat /\ Cardinality(Heaps') <= Cardinality(Heaps)
  BY HeapsFinite, FS_Subset, FS_CardinalityType
<1> QED
  BY <1>1, HeapsFinite DEF ProcessTypeOK, Counted

-----------------------------------------------------------------------------
(* The steps.                                                               *)

LEMMA LoadInv ==
  ASSUME ProcessTypeOK, PInv, Load
  PROVE  (ProcessTypeOK /\ PInv)'
<1>0. Loader \in Procs /\ Worker \in Procs /\ NoThread \notin Procs
  BY ProcsFinite, ProcessAssumption
<1>1. \A u \in Procs : at'[u] = IF u = Loader THEN "init" ELSE at[u]
  BY <1>0 DEF Load, Move, ProcessTypeOK
<1>2. ProcessTypeOK'
  BY ZenonT(40), <1>0 DEF Load, Move, ProcessTypeOK, Places, Initialising, SetupMain, doneVars
<1>3. LoaderFirst'
  BY <1>0, <1>1 DEF Load, ProcessTypeOK, PInv, LoaderFirst, Move, SetupMain, doneVars
<1>4. OneInitialises'
  BY <1>0, <1>1 DEF Load, ProcessTypeOK, PInv, OneInitialises, Initialising, Initialises, Move, SetupMain,
     doneVars
<1>5. MainFirst'
  BY <1>0, <1>1, ProcessAssumption DEF Load, ProcessTypeOK, PInv, LoaderFirst, OneInitialises,
     MainFirst, WorkerKnown, Initialising, Initialises, Move, Procs, SetupMain, doneVars
<1>6. WorkerKnown'
  BY <1>0, <1>1, ProcessAssumption DEF Load, ProcessTypeOK, PInv, WorkerKnown, Initialising,
     Initialises, Procs, Move,
     SetupMain, doneVars
<1>7. (NobodyEarly /\ OneMainHeap)'
  BY <1>0, <1>1, ProcessAssumption DEF Load, ProcessTypeOK, PInv, NobodyEarly, OneMainHeap,
     LoaderFirst, OneInitialises, MainFirst, WorkerKnown, Initialising, Initialises, Move, Procs, SetupMain,
     doneVars
<1>8. Counted'
  BY <1>0, <1>1, CountKept DEF Load, ProcessTypeOK, PInv, Heaps, Move, SetupMain, doneVars
<1> QED
  BY <1>2, <1>3, <1>4, <1>5, <1>6, <1>7, <1>8 DEF PInv

LEMMA ThreadInitInv ==
  ASSUME ProcessTypeOK, PInv, NEW t \in Clients, ThreadInit(t)
  PROVE  (ProcessTypeOK /\ PInv)'
<1>0. t \in Procs /\ Worker \in Procs /\ NoThread \notin Procs
  BY ProcsFinite, ProcessAssumption
<1>1. \A u \in Procs : at'[u] = IF u = t THEN "init" ELSE at[u]
  BY <1>0 DEF ThreadInit, Move, ProcessTypeOK
<1>2. ProcessTypeOK'
  BY <1>0 DEF ThreadInit, Move, ProcessTypeOK, Places, Initialising, initVars, doneVars, heapVars
<1>3. LoaderFirst'
  BY <1>0, <1>1 DEF ThreadInit, ProcessTypeOK, PInv, LoaderFirst, Move, initVars, doneVars, heapVars
<1>4. OneInitialises'
  BY <1>0, <1>1 DEF ThreadInit, ProcessTypeOK, PInv, OneInitialises, Initialising, Initialises, Move,
     initVars, doneVars, heapVars
<1>5. MainFirst'
  BY <1>0, <1>1 DEF ThreadInit, ProcessTypeOK, PInv, OneInitialises, MainFirst, Initialising, Initialises,
     Move, initVars, doneVars, heapVars
<1>6. WorkerKnown'
  BY <1>0, <1>1, ProcessAssumption DEF ThreadInit, ProcessTypeOK, PInv, WorkerKnown, Initialising,
     Initialises, Procs,
     Move, initVars, doneVars, heapVars
<1>7. (NobodyEarly /\ OneMainHeap)'
  BY <1>0, <1>1 DEF ThreadInit, ProcessTypeOK, PInv, NobodyEarly, OneMainHeap, Move, initVars,
     doneVars, heapVars
<1>8. Counted'
  BY <1>0, <1>1, CountKept DEF ThreadInit, ProcessTypeOK, PInv, Heaps, Move, initVars, doneVars,
     heapVars
<1> QED
  BY <1>2, <1>3, <1>4, <1>5, <1>6, <1>7, <1>8 DEF PInv

LEMMA InitCheckInv ==
  ASSUME ProcessTypeOK, PInv, NEW t \in Procs, InitCheck(t)
  PROVE  (ProcessTypeOK /\ PInv)'
<1>0. t \in Procs /\ Worker \in Procs /\ NoThread \notin Procs
  BY ProcsFinite, ProcessAssumption
<1>1. \A u \in Procs : at'[u] = IF u = t THEN at'[t] ELSE at[u]
  BY <1>0 DEF InitCheck, Move, ProcessTypeOK
<1>2. ProcessTypeOK'
  BY <1>0 DEF InitCheck, Move, ProcessTypeOK, Places, Initialising, initVars, doneVars, heapVars
<1>3. LoaderFirst'
  BY <1>0, <1>1 DEF InitCheck, ProcessTypeOK, PInv, LoaderFirst, Move, initVars, doneVars, heapVars
<1>4. OneInitialises'
  BY <1>0, <1>1 DEF InitCheck, ProcessTypeOK, PInv, OneInitialises, Initialising, Initialises, Move,
     initVars, doneVars, heapVars
<1>5. MainFirst'
  BY <1>0, <1>1 DEF InitCheck, ProcessTypeOK, PInv, OneInitialises, MainFirst, Initialising, Initialises,
     Move, initVars, doneVars, heapVars
<1>6. WorkerKnown'
  BY <1>0, <1>1, ProcessAssumption DEF InitCheck, ProcessTypeOK, PInv, OneInitialises, WorkerKnown,
     Initialising, Initialises, Procs, Move, initVars, doneVars, heapVars
<1>7. (NobodyEarly /\ OneMainHeap)'
  BY <1>0, <1>1 DEF InitCheck, ProcessTypeOK, PInv, NobodyEarly, OneMainHeap, Move, initVars,
     doneVars, heapVars
<1>8. Counted'
  BY <1>0, <1>1, CountKept DEF InitCheck, ProcessTypeOK, PInv, Heaps, Move, initVars, doneVars,
     heapVars
<1> QED
  BY <1>2, <1>3, <1>4, <1>5, <1>6, <1>7, <1>8 DEF PInv

LEMMA InitSwapInv ==
  ASSUME ProcessTypeOK, PInv, NEW t \in Procs, InitSwap(t)
  PROVE  (ProcessTypeOK /\ PInv)'
<1>0. t \in Procs /\ Worker \in Procs /\ NoThread \notin Procs
  BY ProcsFinite, ProcessAssumption
<1>1. \A u \in Procs : at'[u] = IF u = t THEN IF process_init_state = 0 THEN "own" ELSE "wait" ELSE at[u]
  BY <1>0 DEF InitSwap, Move, ProcessTypeOK
<1>2. ProcessTypeOK'
  BY <1>0 DEF InitSwap, Move, ProcessTypeOK, Places, Initialising, initVars, doneVars, heapVars
<1>3. LoaderFirst'
  BY <1>0, <1>1 DEF InitSwap, ProcessTypeOK, PInv, LoaderFirst, Move, initVars, doneVars, heapVars
<1>4. OneInitialises'
  BY <1>0, <1>1 DEF InitSwap, ProcessTypeOK, PInv, OneInitialises, MainFirst, Initialising,
     Initialises, Move, initVars, doneVars, heapVars
<1>5. MainFirst'
  BY <1>0, <1>1 DEF InitSwap, ProcessTypeOK, PInv, OneInitialises, MainFirst, Initialising, Initialises,
     Move, initVars, doneVars, heapVars
<1>6. WorkerKnown'
  BY <1>0, <1>1, ProcessAssumption DEF InitSwap, ProcessTypeOK, PInv, WorkerKnown, Initialising,
     Initialises, Procs, Move,
     initVars, doneVars, heapVars
<1>7. (NobodyEarly /\ OneMainHeap)'
  BY <1>0, <1>1 DEF InitSwap, ProcessTypeOK, PInv, NobodyEarly, OneMainHeap, Move, initVars,
     doneVars, heapVars
<1>8. Counted'
  BY <1>0, <1>1, CountKept DEF InitSwap, ProcessTypeOK, PInv, Heaps, Move, initVars, doneVars,
     heapVars
<1> QED
  BY <1>2, <1>3, <1>4, <1>5, <1>6, <1>7, <1>8 DEF PInv

LEMMA InitWaitInv ==
  ASSUME ProcessTypeOK, PInv, NEW t \in Procs, InitWait(t)
  PROVE  (ProcessTypeOK /\ PInv)'
<1>0. t \in Procs /\ Worker \in Procs /\ NoThread \notin Procs
  BY ProcsFinite, ProcessAssumption
<1>1. \A u \in Procs : at'[u] = IF u = t THEN "heap" ELSE at[u]
  BY <1>0 DEF InitWait, Move, ProcessTypeOK
<1>2. ProcessTypeOK'
  BY <1>0 DEF InitWait, Move, ProcessTypeOK, Places, Initialising, initVars, doneVars, heapVars
<1>3. LoaderFirst'
  BY <1>0, <1>1 DEF InitWait, ProcessTypeOK, PInv, LoaderFirst, Move, initVars, doneVars, heapVars
<1>4. OneInitialises'
  BY <1>0, <1>1 DEF InitWait, ProcessTypeOK, PInv, OneInitialises, Initialising, Initialises, Move, initVars,
     doneVars, heapVars
<1>5. MainFirst'
  BY <1>0, <1>1 DEF InitWait, ProcessTypeOK, PInv, OneInitialises, MainFirst, Initialising, Initialises,
     Move, initVars, doneVars, heapVars
<1>6. WorkerKnown'
  BY <1>0, <1>1, ProcessAssumption DEF InitWait, ProcessTypeOK, PInv, WorkerKnown, Initialising,
     Initialises, Procs, Move,
     initVars, doneVars, heapVars
<1>7. (NobodyEarly /\ OneMainHeap)'
  BY <1>0, <1>1 DEF InitWait, ProcessTypeOK, PInv, NobodyEarly, OneMainHeap, Move, initVars,
     doneVars, heapVars
<1>8. Counted'
  BY <1>0, <1>1, CountKept DEF InitWait, ProcessTypeOK, PInv, Heaps, Move, initVars, doneVars,
     heapVars
<1> QED
  BY <1>2, <1>3, <1>4, <1>5, <1>6, <1>7, <1>8 DEF PInv

LEMMA InitOwnInv ==
  ASSUME ProcessTypeOK, PInv, NEW t \in Procs, InitOwn(t)
  PROVE  (ProcessTypeOK /\ PInv)'
<1>0. t \in Procs /\ Worker \in Procs /\ NoThread \notin Procs
  BY ProcsFinite, ProcessAssumption
<1>1. \A u \in Procs : at'[u] = IF u = t THEN "setup" ELSE at[u]
  BY <1>0 DEF InitOwn, Move, ProcessTypeOK
<1>2. ProcessTypeOK'
  BY <1>0 DEF InitOwn, Move, ProcessTypeOK, Places, Initialising, initVars, doneVars, heapVars
<1>3. LoaderFirst'
  BY <1>0, <1>1 DEF InitOwn, ProcessTypeOK, PInv, LoaderFirst, Move, initVars, doneVars, heapVars
<1>4. OneInitialises'
  BY <1>0, <1>1 DEF InitOwn, ProcessTypeOK, PInv, OneInitialises, Initialising, Initialises, Move, initVars,
     doneVars, heapVars
<1>5. MainFirst'
  BY <1>0, <1>1 DEF InitOwn, ProcessTypeOK, PInv, OneInitialises, MainFirst, Initialising, Initialises, Move,
     initVars, doneVars, heapVars
<1>6. WorkerKnown'
  BY <1>0, <1>1, ProcessAssumption DEF InitOwn, ProcessTypeOK, PInv, WorkerKnown, Initialising,
     Initialises, Procs, Move,
     initVars, doneVars, heapVars
<1>7. (NobodyEarly /\ OneMainHeap)'
  BY <1>0, <1>1, ProcessAssumption DEF InitOwn, ProcessTypeOK, PInv, NobodyEarly, OneMainHeap,
     LoaderFirst, OneInitialises, MainFirst, WorkerKnown, Initialising, Initialises, Move, Procs, initVars,
     doneVars, heapVars
<1>8. Counted'
  BY <1>0, <1>1, CountKept DEF InitOwn, ProcessTypeOK, PInv, Heaps, Move, initVars, doneVars,
     heapVars
<1> QED
  BY <1>2, <1>3, <1>4, <1>5, <1>6, <1>7, <1>8 DEF PInv

LEMMA InitSetupInv ==
  ASSUME ProcessTypeOK, PInv, NEW t \in Procs, InitSetup(t)
  PROVE  (ProcessTypeOK /\ PInv)'
<1>0. t \in Procs /\ Worker \in Procs /\ NoThread \notin Procs
  BY ProcsFinite, ProcessAssumption
<1>1. \A u \in Procs : at'[u] = IF u = t THEN "heap" ELSE at[u]
  BY <1>0 DEF InitSetup, Move, ProcessTypeOK
<1>2. ProcessTypeOK'
  BY <1>0 DEF InitSetup, Move, ProcessTypeOK, Places, Initialising, SetupMain, doneVars
<1>3. LoaderFirst'
  BY <1>0, <1>1 DEF InitSetup, ProcessTypeOK, PInv, LoaderFirst, Move, SetupMain, doneVars
<1>4. OneInitialises'
  BY <1>0, <1>1 DEF InitSetup, ProcessTypeOK, PInv, OneInitialises, Initialising, Initialises, Move,
     SetupMain, doneVars
<1>5. MainFirst'
  BY <1>0, <1>1, ProcessAssumption DEF InitSetup, ProcessTypeOK, PInv, LoaderFirst,
     OneInitialises, MainFirst, WorkerKnown, Initialising, Initialises, Move, Procs, SetupMain, doneVars
<1>6. WorkerKnown'
  BY <1>0, <1>1, ProcessAssumption DEF InitSetup, ProcessTypeOK, PInv, WorkerKnown, Initialising,
     Initialises, Procs, Move,
     SetupMain, doneVars
<1>7. (NobodyEarly /\ OneMainHeap)'
  BY <1>0, <1>1, ProcessAssumption DEF InitSetup, ProcessTypeOK, PInv, NobodyEarly, OneMainHeap,
     LoaderFirst, OneInitialises, MainFirst, WorkerKnown, Initialising, Initialises, Move, Procs, SetupMain,
     doneVars
<1>8. Counted'
  BY <1>0, <1>1, CountKept DEF InitSetup, ProcessTypeOK, PInv, Heaps, Move, SetupMain, doneVars
<1> QED
  BY <1>2, <1>3, <1>4, <1>5, <1>6, <1>7, <1>8 DEF PInv

LEMMA FlagWorkerInv ==
  ASSUME ProcessTypeOK, PInv, NEW t \in Procs, FlagWorker(t)
  PROVE  (ProcessTypeOK /\ PInv)'
<1>0. t \in Procs /\ Worker \in Procs /\ NoThread \notin Procs
  BY ProcsFinite, ProcessAssumption
<1>1. \A u \in Procs : at'[u] = IF u = t THEN "publish" ELSE at[u]
  BY <1>0 DEF FlagWorker, Move, ProcessTypeOK
<1>2. ProcessTypeOK'
  BY <1>0 DEF FlagWorker, Move, ProcessTypeOK, Places, Initialising, initVars, doneVars, heapVars
<1>3. LoaderFirst'
  BY <1>0, <1>1 DEF FlagWorker, ProcessTypeOK, PInv, LoaderFirst, Move, initVars, doneVars, heapVars
<1>4. OneInitialises'
  BY <1>0, <1>1 DEF FlagWorker, ProcessTypeOK, PInv, OneInitialises, Initialising, Initialises, Move,
     initVars, doneVars, heapVars
<1>5. MainFirst'
  BY <1>0, <1>1 DEF FlagWorker, ProcessTypeOK, PInv, OneInitialises, MainFirst, Initialising, Initialises,
     Move, initVars, doneVars, heapVars
<1>6. WorkerKnown'
  BY <1>0, <1>1, ProcessAssumption DEF FlagWorker, ProcessTypeOK, PInv, WorkerKnown, Initialising,
     Initialises, Procs,
     Move, initVars, doneVars, heapVars
<1>7. (NobodyEarly /\ OneMainHeap)'
  BY <1>0, <1>1 DEF FlagWorker, ProcessTypeOK, PInv, NobodyEarly, OneMainHeap, Move, initVars,
     doneVars, heapVars
<1>8. Counted'
  BY <1>0, <1>1, CountKept DEF FlagWorker, ProcessTypeOK, PInv, Heaps, Move, initVars, doneVars,
     heapVars
<1> QED
  BY <1>2, <1>3, <1>4, <1>5, <1>6, <1>7, <1>8 DEF PInv

LEMMA PublishInv ==
  ASSUME ProcessTypeOK, PInv, NEW t \in Procs, Publish(t)
  PROVE  (ProcessTypeOK /\ PInv)'
<1>0. t \in Procs /\ Worker \in Procs /\ NoThread \notin Procs
  BY ProcsFinite, ProcessAssumption
<1>1. \A u \in Procs : at'[u] = IF u = t THEN "heap" ELSE at[u]
  BY <1>0 DEF Publish, Move, ProcessTypeOK
<1>2. ProcessTypeOK'
  BY <1>0 DEF Publish, Move, ProcessTypeOK, Places, Initialising, initVars, doneVars, heapVars
<1>3. LoaderFirst'
  BY <1>0, <1>1 DEF Publish, ProcessTypeOK, PInv, LoaderFirst, Move, initVars, doneVars, heapVars
<1>4. OneInitialises'
  BY <1>0, <1>1 DEF Publish, ProcessTypeOK, PInv, OneInitialises, Initialising, Initialises, Move, initVars,
     doneVars, heapVars
<1>5. MainFirst'
  BY <1>0, <1>1 DEF Publish, ProcessTypeOK, PInv, OneInitialises, MainFirst, Initialising, Initialises, Move,
     initVars, doneVars, heapVars
<1>6. WorkerKnown'
  BY <1>0, <1>1, ProcessAssumption DEF Publish, ProcessTypeOK, PInv, WorkerKnown, Initialising,
     Initialises, Procs, Move,
     initVars, doneVars, heapVars
<1>7. (NobodyEarly /\ OneMainHeap)'
  BY <1>0, <1>1 DEF Publish, ProcessTypeOK, PInv, NobodyEarly, OneMainHeap, Move, initVars,
     doneVars, heapVars
<1>8. Counted'
  BY <1>0, <1>1, CountKept DEF Publish, ProcessTypeOK, PInv, Heaps, Move, initVars, doneVars,
     heapVars
<1> QED
  BY <1>2, <1>3, <1>4, <1>5, <1>6, <1>7, <1>8 DEF PInv

LEMMA CountThreadInv ==
  ASSUME ProcessTypeOK, PInv, NEW t \in Procs, CountThread(t)
  PROVE  (ProcessTypeOK /\ PInv)'
<1>0. t \in Procs /\ Worker \in Procs /\ NoThread \notin Procs
  BY ProcsFinite, ProcessAssumption
<1>1. \A u \in Procs : at'[u] = IF u = t THEN Ready(t) ELSE at[u]
  BY <1>0 DEF CountThread, Move, ProcessTypeOK
<1>2. ProcessTypeOK'
  BY <1>0 DEF CountThread, Move, ProcessTypeOK, Places, Initialising, Ready, initVars, doneVars,
     heapVars
<1>3. LoaderFirst'
  BY <1>0, <1>1 DEF CountThread, ProcessTypeOK, PInv, LoaderFirst, Move, Ready, initVars,
     doneVars, heapVars
<1>4. OneInitialises'
  BY <1>0, <1>1 DEF CountThread, ProcessTypeOK, PInv, OneInitialises, Initialising, Initialises, Move, Ready,
     initVars, doneVars, heapVars
<1>5. MainFirst'
  BY <1>0, <1>1 DEF CountThread, ProcessTypeOK, PInv, OneInitialises, MainFirst, Initialising, Initialises,
     Move, Ready, initVars, doneVars, heapVars
<1>6. WorkerKnown'
  BY <1>0, <1>1, ProcessAssumption DEF CountThread, ProcessTypeOK, PInv, WorkerKnown, Initialising,
     Initialises, Procs,
     Move, Ready, initVars, doneVars, heapVars
<1>7. (NobodyEarly /\ OneMainHeap)'
  BY <1>0, <1>1 DEF CountThread, ProcessTypeOK, PInv, NobodyEarly, OneMainHeap, Move, Ready,
     initVars, doneVars, heapVars
<1>8. Counted'
  BY <1>0, <1>1, CountAdded DEF CountThread, ProcessTypeOK, PInv, Heaps, Move
<1> QED
  BY <1>2, <1>3, <1>4, <1>5, <1>6, <1>7, <1>8 DEF PInv

LEMMA ThreadHeapDoneInv ==
  ASSUME ProcessTypeOK, PInv, NEW t \in Procs, ThreadHeapDone(t)
  PROVE  (ProcessTypeOK /\ PInv)'
<1>0. t \in Procs /\ Worker \in Procs /\ NoThread \notin Procs
  BY ProcsFinite, ProcessAssumption
<1>1. \A u \in Procs : at'[u] = IF u = t THEN IF t = Worker THEN "exited" ELSE "idle" ELSE at[u]
  BY <1>0 DEF ThreadHeapDone, Move, ProcessTypeOK
<1>2. ProcessTypeOK'
  BY <1>0 DEF ThreadHeapDone, Move, ProcessTypeOK, Places, Initialising, IsMainThread, initVars,
     doneVars, heapVars
<1>3. LoaderFirst'
  BY <1>0, <1>1 DEF ThreadHeapDone, ProcessTypeOK, PInv, LoaderFirst, Move, IsMainThread,
     initVars, doneVars, heapVars
<1>4. OneInitialises'
  BY <1>0, <1>1 DEF ThreadHeapDone, ProcessTypeOK, PInv, OneInitialises, Initialising, Initialises, Move,
     IsMainThread, initVars, doneVars, heapVars
<1>5. MainFirst'
  BY <1>0, <1>1 DEF ThreadHeapDone, ProcessTypeOK, PInv, OneInitialises, MainFirst,
     Initialising, Initialises, Move, IsMainThread, initVars, doneVars, heapVars
<1>6. WorkerKnown'
  BY <1>0, <1>1, ProcessAssumption DEF ThreadHeapDone, ProcessTypeOK, PInv, WorkerKnown,
     Initialising, Initialises, Procs,
     Move, IsMainThread, initVars, doneVars, heapVars
<1>7. (NobodyEarly /\ OneMainHeap)'
  BY <1>0, <1>1, ProcessAssumption DEF ThreadHeapDone, ProcessTypeOK, PInv, NobodyEarly,
     OneMainHeap, LoaderFirst, OneInitialises, MainFirst, WorkerKnown, Initialising, Initialises, Move,
     Procs, IsMainThread, initVars, doneVars, heapVars
<1>8. Counted'
  BY <1>0, <1>1, CountKept DEF ThreadHeapDone, ProcessTypeOK, PInv, Heaps, Move, IsMainThread,
     initVars, doneVars, heapVars
<1> QED
  BY <1>2, <1>3, <1>4, <1>5, <1>6, <1>7, <1>8 DEF PInv

LEMMA WorkerPurgeInv ==
  ASSUME ProcessTypeOK, PInv, WorkerPurge
  PROVE  (ProcessTypeOK /\ PInv)'
<1>0. Worker \in Procs /\ Worker \in Procs /\ NoThread \notin Procs
  BY ProcsFinite, ProcessAssumption
<1>1. \A u \in Procs : at'[u] = IF u = Worker THEN "check" ELSE at[u]
  BY <1>0 DEF WorkerPurge, Move, ProcessTypeOK
<1>2. ProcessTypeOK'
  BY <1>0 DEF WorkerPurge, Move, ProcessTypeOK, Places, Initialising, initVars, doneVars, heapVars
<1>3. LoaderFirst'
  BY <1>0, <1>1 DEF WorkerPurge, ProcessTypeOK, PInv, LoaderFirst, Move, initVars, doneVars,
     heapVars
<1>4. OneInitialises'
  BY <1>0, <1>1 DEF WorkerPurge, ProcessTypeOK, PInv, OneInitialises, Initialising, Initialises, Move,
     initVars, doneVars, heapVars
<1>5. MainFirst'
  BY <1>0, <1>1 DEF WorkerPurge, ProcessTypeOK, PInv, OneInitialises, MainFirst, Initialising, Initialises,
     Move, initVars, doneVars, heapVars
<1>6. WorkerKnown'
  BY <1>0, <1>1, ProcessAssumption DEF WorkerPurge, ProcessTypeOK, PInv, WorkerKnown, Initialising,
     Initialises, Procs,
     Move, initVars, doneVars, heapVars
<1>7. (NobodyEarly /\ OneMainHeap)'
  BY <1>0, <1>1 DEF WorkerPurge, ProcessTypeOK, PInv, NobodyEarly, OneMainHeap, Move, initVars,
     doneVars, heapVars
<1>8. Counted'
  BY <1>0, <1>1, CountKept DEF WorkerPurge, ProcessTypeOK, PInv, Heaps, Move, initVars,
     doneVars, heapVars
<1> QED
  BY <1>2, <1>3, <1>4, <1>5, <1>6, <1>7, <1>8 DEF PInv

LEMMA ProcessDoneInv ==
  ASSUME ProcessTypeOK, PInv, NEW t \in Clients, ProcessDone(t)
  PROVE  (ProcessTypeOK /\ PInv)'
<1>0. t \in Procs /\ Worker \in Procs /\ NoThread \notin Procs
  BY ProcsFinite, ProcessAssumption
<1>1. \A u \in Procs : at'[u] = IF u = t THEN "join" ELSE at[u]
  BY <1>0 DEF ProcessDone, Move, ProcessTypeOK
<1>2. ProcessTypeOK'
  BY <1>0 DEF ProcessDone, Move, ProcessTypeOK, Places, Initialising, initVars, doneVars, heapVars
<1>3. LoaderFirst'
  BY <1>0, <1>1 DEF ProcessDone, ProcessTypeOK, PInv, LoaderFirst, Move, initVars, doneVars,
     heapVars
<1>4. OneInitialises'
  BY <1>0, <1>1 DEF ProcessDone, ProcessTypeOK, PInv, OneInitialises, Initialising, Initialises, Move,
     initVars, doneVars, heapVars
<1>5. MainFirst'
  BY <1>0, <1>1 DEF ProcessDone, ProcessTypeOK, PInv, OneInitialises, MainFirst, Initialising, Initialises,
     Move, initVars, doneVars, heapVars
<1>6. WorkerKnown'
  BY <1>0, <1>1, ProcessAssumption DEF ProcessDone, ProcessTypeOK, PInv, LoaderFirst,
     OneInitialises, MainFirst, WorkerKnown, Initialising, Initialises, Move, Procs, initVars, doneVars,
     heapVars
<1>7. (NobodyEarly /\ OneMainHeap)'
  BY <1>0, <1>1 DEF ProcessDone, ProcessTypeOK, PInv, NobodyEarly, OneMainHeap, Move, initVars,
     doneVars, heapVars
<1>8. Counted'
  BY <1>0, <1>1, CountKept DEF ProcessDone, ProcessTypeOK, PInv, Heaps, Move, initVars,
     doneVars, heapVars
<1> QED
  BY <1>2, <1>3, <1>4, <1>5, <1>6, <1>7, <1>8 DEF PInv

LEMMA JoinWorkerInv ==
  ASSUME ProcessTypeOK, PInv, NEW t \in Clients, JoinWorker(t)
  PROVE  (ProcessTypeOK /\ PInv)'
<1>0. t \in Procs /\ Worker \in Procs /\ NoThread \notin Procs
  BY ProcsFinite, ProcessAssumption
<1>1. \A u \in Procs : at'[u] = IF u = t THEN "release" ELSE at[u]
  BY <1>0 DEF JoinWorker, Move, ProcessTypeOK
<1>2. ProcessTypeOK'
  BY <1>0, ZenonT(60) DEF JoinWorker, Move, ProcessTypeOK, Places, Initialising, initVars, doneVars, heapVars
<1>3. LoaderFirst'
  BY <1>0, <1>1 DEF JoinWorker, ProcessTypeOK, PInv, LoaderFirst, Move, initVars, doneVars, heapVars
<1>4. OneInitialises'
  BY <1>0, <1>1 DEF JoinWorker, ProcessTypeOK, PInv, OneInitialises, Initialising, Initialises, Move,
     initVars, doneVars, heapVars
<1>5. MainFirst'
  BY <1>0, <1>1 DEF JoinWorker, ProcessTypeOK, PInv, OneInitialises, MainFirst, Initialising, Initialises,
     Move, initVars, doneVars, heapVars
<1>6. WorkerKnown'
  BY <1>0, <1>1, ProcessAssumption DEF JoinWorker, ProcessTypeOK, PInv, LoaderFirst,
     OneInitialises, MainFirst, WorkerKnown, Initialising, Initialises, Move, Procs, initVars, doneVars,
     heapVars
<1>7. (NobodyEarly /\ OneMainHeap)'
  BY <1>0, <1>1 DEF JoinWorker, ProcessTypeOK, PInv, NobodyEarly, OneMainHeap, Move, initVars,
     doneVars, heapVars
<1>8. Counted'
  BY <1>0, <1>1, CountKept DEF JoinWorker, ProcessTypeOK, PInv, Heaps, Move, initVars, doneVars,
     heapVars
<1> QED
  BY <1>2, <1>3, <1>4, <1>5, <1>6, <1>7, <1>8 DEF PInv

LEMMA ReleaseAllInv ==
  ASSUME ProcessTypeOK, PInv, NEW t \in Clients, ReleaseAll(t)
  PROVE  (ProcessTypeOK /\ PInv)'
<1>0. t \in Procs /\ Worker \in Procs /\ NoThread \notin Procs
  BY ProcsFinite, ProcessAssumption
<1>1. \A u \in Procs : at'[u] = IF u = t THEN "over" ELSE at[u]
  BY <1>0 DEF ReleaseAll, Move, ProcessTypeOK
<1>2. ProcessTypeOK'
  BY <1>0 DEF ReleaseAll, Move, ProcessTypeOK, Places, Initialising, initVars, doneVars, heapVars
<1>3. LoaderFirst'
  BY <1>0, <1>1 DEF ReleaseAll, ProcessTypeOK, PInv, LoaderFirst, Move, initVars, doneVars, heapVars
<1>4. OneInitialises'
  BY <1>0, <1>1 DEF ReleaseAll, ProcessTypeOK, PInv, OneInitialises, Initialising, Initialises, Move,
     initVars, doneVars, heapVars
<1>5. MainFirst'
  BY <1>0, <1>1 DEF ReleaseAll, ProcessTypeOK, PInv, OneInitialises, MainFirst, Initialising, Initialises,
     Move, initVars, doneVars, heapVars
<1>6. WorkerKnown'
  BY <1>0, <1>1, ProcessAssumption DEF ReleaseAll, ProcessTypeOK, PInv, WorkerKnown, Initialising,
     Initialises, Procs,
     Move, initVars, doneVars, heapVars
<1>7. (NobodyEarly /\ OneMainHeap)'
  BY <1>0, <1>1 DEF ReleaseAll, ProcessTypeOK, PInv, NobodyEarly, OneMainHeap, Move, initVars,
     doneVars, heapVars
<1>8. Counted'
  BY <1>0, <1>1, CountKept DEF ReleaseAll, ProcessTypeOK, PInv, Heaps, Move, initVars, doneVars,
     heapVars
<1> QED
  BY <1>2, <1>3, <1>4, <1>5, <1>6, <1>7, <1>8 DEF PInv

LEMMA CreateWorkerInv ==
  ASSUME ProcessTypeOK, PInv, NEW t \in Procs, CreateWorker(t)
  PROVE  (ProcessTypeOK /\ PInv)'
<1>0. t \in Procs /\ Worker \in Procs /\ NoThread \notin Procs
  BY ProcsFinite
<1>1. /\ at[t] = "create" /\ at[Worker] = "none" /\ t # Worker
      /\ UNCHANGED <<loading, background, destroy, initVars, doneVars, heapVars>>
  BY <1>0 DEF CreateWorker, PInv, WorkerKnown, Initialising, Initialises
<1>2. \/ \A u \in Procs : at'[u] = IF u = t THEN "flag" ELSE IF u = Worker THEN "check" ELSE at[u]
      \/ \A u \in Procs : at'[u] = IF u = t THEN "publish" ELSE at[u]
  BY <1>0, <1>1 DEF CreateWorker, ProcessTypeOK
<1>3. at' \in [Procs -> Places]
  BY <1>0 DEF CreateWorker, ProcessTypeOK, Places, Initialising
<1>4. ProcessTypeOK'
  BY <1>1, <1>3 DEF ProcessTypeOK, initVars, doneVars, heapVars
<1>5. LoaderFirst'
  BY <1>0, <1>1, <1>2 DEF ProcessTypeOK, PInv, LoaderFirst, initVars, heapVars
<1>6. OneInitialises'
  BY <1>0, <1>1, <1>2 DEF ProcessTypeOK, PInv, OneInitialises, Initialising, Initialises, initVars
<1>7. MainFirst'
  BY <1>0, <1>1, <1>2 DEF ProcessTypeOK, PInv, MainFirst, initVars, heapVars
<1>8. WorkerKnown'
  BY <1>0, <1>1, <1>2, ProcessAssumption DEF ProcessTypeOK, PInv, OneInitialises, MainFirst,
     WorkerKnown, Initialising, Initialises, Procs, initVars, doneVars, heapVars
<1>9. (NobodyEarly /\ OneMainHeap)'
  BY <1>0, <1>1, <1>2 DEF ProcessTypeOK, PInv, NobodyEarly, OneMainHeap, initVars, heapVars
<1>10. Counted'
  <2>1. default[Worker] # "own"
    BY <1>0, <1>1 DEF PInv, WorkerKnown, NobodyEarly, OneInitialises, Initialising, Initialises, MainFirst
  <2> QED
    BY <1>0, <1>1, <1>2, <2>1, CountKept DEF ProcessTypeOK, PInv, Heaps, heapVars
<1> QED
  BY <1>4, <1>5, <1>6, <1>7, <1>8, <1>9, <1>10 DEF PInv

LEMMA ThreadHeapInitInv ==
  ASSUME ProcessTypeOK, PInv, NEW t \in Procs, ThreadHeapInit(t)
  PROVE  (ProcessTypeOK /\ PInv)'
<1>0. t \in Procs /\ Worker \in Procs /\ NoThread \notin Procs
  BY ProcsFinite
<1>1. /\ at[t] = "heap" /\ process_init_state # 0 /\ tls_initialized /\ main_thread # NoThread
      /\ UNCHANGED <<loading, background, destroy, initVars, doneVars, thread_count, main_done>>
  BY <1>0 DEF ThreadHeapInit, PInv, MainFirst
\* The main heap has its thread, which gets it again at most.
<1>2. /\ main_thread' = main_thread
      /\ \E x \in {"empty", "main", "own"} :
           /\ default' = [default EXCEPT ![t] = x]
           /\ x = "main" => t = main_thread \/ default[t] = "main"
           /\ \/ x = default[t] /\ default[t] # "empty" /\ at' = [at EXCEPT ![t] = Ready(t)]
              \/ at' = [at EXCEPT ![t] = "count"]
  <2>1. CASE default[t] # "empty"
    <3>1. at' = [at EXCEPT ![t] = Ready(t)] /\ main_thread' = main_thread /\ default' = default
      BY <2>1 DEF ThreadHeapInit
    <3>2. default[t] \in {"empty", "main", "own"} /\ default = [default EXCEPT ![t] = default[t]]
      BY DEF ProcessTypeOK
    <3> QED
      BY <2>1, <3>1, <3>2
  <2>2. CASE default[t] = "empty"
    <3>1. at' = [at EXCEPT ![t] = "count"]
      BY <2>2 DEF ThreadHeapInit
    <3>2. CASE IsMainThread(t)
      <4>1. t = main_thread
        BY <1>1, <3>2 DEF IsMainThread
      <4> QED
        BY <2>2, <3>1, <3>2, <4>1 DEF ThreadHeapInit
    <3>3. CASE ~IsMainThread(t)
      <4>1. default = [default EXCEPT ![t] = default[t]]
        BY DEF ProcessTypeOK
      <4>2. /\ main_thread' = main_thread
            /\ default' = [default EXCEPT ![t] = "own"] \/ default' = default
        BY <2>2, <3>3 DEF ThreadHeapInit
      <4> QED
        BY <2>2, <3>1, <4>1, <4>2
    <3> QED
      BY <3>2, <3>3
  <2> QED
    BY <2>1, <2>2 DEF ProcessTypeOK
<1>3. PICK x \in {"empty", "main", "own"} :
        /\ default' = [default EXCEPT ![t] = x]
        /\ x = "main" => t = main_thread \/ default[t] = "main"
        /\ \/ x = default[t] /\ default[t] # "empty" /\ at' = [at EXCEPT ![t] = Ready(t)]
           \/ at' = [at EXCEPT ![t] = "count"]
  BY <1>2
<1>4. /\ \A u \in Procs : default'[u] = IF u = t THEN x ELSE default[u]
      /\ \/ /\ \A u \in Procs : at'[u] = IF u = t THEN Ready(t) ELSE at[u]
            /\ x = default[t] /\ default[t] # "empty"
         \/ \A u \in Procs : at'[u] = IF u = t THEN "count" ELSE at[u]
  BY <1>3 DEF ProcessTypeOK
<1>5. ProcessTypeOK'
  BY <1>1, <1>2, <1>3 DEF ProcessTypeOK, Places, Initialising, Ready, initVars, doneVars
<1>6. LoaderFirst'
  BY <1>1 DEF PInv, LoaderFirst, initVars
<1>7. OneInitialises'
  BY <1>0, <1>1, <1>4 DEF ProcessTypeOK, PInv, OneInitialises, Initialising, Initialises, Ready, initVars
<1>8. MainFirst'
  BY <1>0, <1>1, <1>2, <1>4 DEF ProcessTypeOK, PInv, OneInitialises, MainFirst, Initialises, Ready, initVars
<1>9. WorkerKnown'
  BY <1>0, <1>1, <1>4, ProcessAssumption DEF ProcessTypeOK, PInv, WorkerKnown, Initialising,
     Initialises, Ready, Procs,
     initVars, doneVars
<1>10. NobodyEarly'
  BY <1>0, <1>1, <1>2, <1>4 DEF ProcessTypeOK, PInv, OneInitialises, NobodyEarly, Initialises, Ready, initVars
<1>11. OneMainHeap'
  BY <1>0, <1>2, <1>4 DEF PInv, OneMainHeap
<1>12. Counted'
  <2>1. Heaps' \subseteq Heaps
    BY <1>0, <1>1, <1>4 DEF Heaps, Ready
  <2> QED
    BY <1>1, <2>1, CountKept DEF PInv
<1> QED
  BY <1>5, <1>6, <1>7, <1>8, <1>9, <1>10, <1>11, <1>12 DEF PInv

LEMMA ThreadDoneInv ==
  ASSUME ProcessTypeOK, PInv, NEW t \in Clients, ThreadDone(t)
  PROVE  (ProcessTypeOK /\ PInv)'
<1>0. t \in Procs /\ Worker \in Procs /\ NoThread \notin Procs
  BY ProcsFinite, ProcessAssumption
<1>1. \A u \in Procs : at'[u] = IF u = t THEN "uncounted" ELSE at[u]
  BY <1>0 DEF ThreadDone, Move, ProcessTypeOK
<1>2. ProcessTypeOK'
  BY <1>0 DEF ThreadDone, Move, ProcessTypeOK, Places, Initialising, initVars, doneVars
<1>3. LoaderFirst'
  BY <1>0, <1>1 DEF ThreadDone, ProcessTypeOK, PInv, LoaderFirst, Move, initVars, doneVars
<1>4. OneInitialises'
  BY <1>0, <1>1 DEF ThreadDone, ProcessTypeOK, PInv, OneInitialises, Initialising, Initialises, Move,
     initVars, doneVars
<1>5. MainFirst'
  BY <1>0, <1>1 DEF ThreadDone, ProcessTypeOK, PInv, OneInitialises, MainFirst, Initialising, Initialises,
     Move, initVars, doneVars
<1>6. WorkerKnown'
  BY <1>0, <1>1, ProcessAssumption DEF ThreadDone, ProcessTypeOK, PInv, WorkerKnown, Initialising,
     Initialises, Procs,
     Move, initVars, doneVars
<1>7. (NobodyEarly /\ OneMainHeap)'
  BY <1>0, <1>1 DEF ThreadDone, ProcessTypeOK, PInv, NobodyEarly, OneMainHeap, Move, initVars,
     doneVars
<1>8. Counted'
  <2>1. CASE default[t] = "main"
    BY <1>0, <1>1, <2>1, CountMainDone DEF ThreadDone, ProcessTypeOK, PInv, Heaps, Move
  <2>2. CASE default[t] = "own"
    <3>1. t \in Heaps /\ Heaps' \subseteq Heaps \ {t}
      BY <1>0, <1>1, <2>2 DEF ThreadDone, ProcessTypeOK, Heaps, Move
    <3> QED
      BY <2>2, <3>1, CountRemoved DEF ThreadDone, ProcessTypeOK, PInv
  <2> QED
    BY <1>0, <2>1, <2>2 DEF ThreadDone, ProcessTypeOK
<1> QED
  BY <1>2, <1>3, <1>4, <1>5, <1>6, <1>7, <1>8 DEF PInv

LEMMA WorkerCheckInv ==
  ASSUME ProcessTypeOK, PInv, WorkerCheck
  PROVE  (ProcessTypeOK /\ PInv)'
<1>0. Worker \in Procs /\ NoThread \notin Procs
  BY ProcsFinite
<1>1. /\ at[Worker] = "check" /\ tls_initialized
      /\ UNCHANGED <<loading, background, destroy, initVars, doneVars, main_thread, default, main_done>>
  BY <1>0 DEF WorkerCheck, Move, PInv, WorkerKnown
<1>2. default[Worker] \in {"empty", "own"}
  BY <1>0 DEF ProcessTypeOK, PInv, OneMainHeap, MainFirst
<1>3. default[Worker] = "own" => process_init_state = 2
  BY <1>0, <1>1 DEF PInv, NobodyEarly, OneInitialises, MainFirst, Initialising, Initialises
<1>4. \/ /\ done_started /\ default[Worker] = "own" /\ thread_count' = thread_count - 1
         /\ at' = [at EXCEPT ![Worker] = "uncounted"]
      \/ /\ done_started /\ default[Worker] = "empty" /\ thread_count' = thread_count
         /\ at' = [at EXCEPT ![Worker] = "exited"]
      \/ ~done_started /\ thread_count' = thread_count /\ at' = [at EXCEPT ![Worker] = "init"]
  BY <1>2 DEF WorkerCheck, Move
<1>5. PICK x \in {"uncounted", "exited", "init"} :
        /\ at' = [at EXCEPT ![Worker] = x]
        /\ x = "uncounted" => default[Worker] = "own" /\ thread_count' = thread_count - 1
        /\ x # "uncounted" => thread_count' = thread_count
  BY <1>4
<1>6. \A u \in Procs : at'[u] = IF u = Worker THEN x ELSE at[u]
  BY <1>0, <1>5 DEF ProcessTypeOK
<1>7. ProcessTypeOK'
  BY <1>0, <1>1, <1>5 DEF ProcessTypeOK, Places, initVars, doneVars
<1>8. LoaderFirst'
  BY <1>1 DEF PInv, LoaderFirst, initVars
<1>9. OneInitialises'
  BY <1>0, <1>1, <1>6 DEF ProcessTypeOK, PInv, OneInitialises, Initialising, Initialises, initVars
<1>10. MainFirst'
  BY <1>0, <1>1, <1>3, <1>5, <1>6 DEF ProcessTypeOK, PInv, MainFirst, initVars
<1>11. WorkerKnown'
  BY <1>0, <1>1, <1>6, ProcessAssumption DEF ProcessTypeOK, PInv, WorkerKnown, Initialising,
     Initialises, Procs, initVars,
     doneVars
<1>12. (NobodyEarly /\ OneMainHeap)'
  BY <1>0, <1>1, <1>6 DEF PInv, NobodyEarly, OneMainHeap, initVars
<1>13. Counted'
  <2>1. CASE x = "uncounted"
    <3>1. Worker \in Heaps /\ Heaps' \subseteq Heaps \ {Worker}
      BY <1>0, <1>1, <1>5, <1>6, <2>1 DEF Heaps
    <3> QED
      BY <1>1, <1>5, <2>1, <3>1, CountRemoved DEF PInv
  <2>2. CASE x # "uncounted"
    <3>1. Heaps' \subseteq Heaps
      BY <1>0, <1>1, <1>6 DEF Heaps
    <3> QED
      BY <1>1, <1>5, <2>2, <3>1, CountKept DEF PInv
  <2> QED
    BY <2>1, <2>2
<1> QED
  BY <1>7, <1>8, <1>9, <1>10, <1>11, <1>12, <1>13 DEF PInv

-----------------------------------------------------------------------------
(* The theorem.                                                             *)

LEMMA ProcessInitInv == ProcessInit => ProcessTypeOK /\ PInv
<1> SUFFICES ASSUME ProcessInit PROVE ProcessTypeOK /\ PInv
  OBVIOUS
<1>0. Worker \in Procs /\ NoThread \notin Procs
  BY ProcsFinite
<1>1. \A t \in Procs : default[t] = "empty" /\ at[t] = IF t = Worker THEN "none" ELSE "idle"
  BY DEF ProcessInit
<1>2. ProcessTypeOK
  <2>1. at \in [Procs -> Places] /\ default \in [Procs -> {"empty", "main", "own"}]
    BY DEF ProcessInit, Places
  <2>2. process_init_state \in 0..2 /\ thread_count \in Int
    BY DEF ProcessInit
  <2>3. FALSE \in BOOLEAN
    OBVIOUS
  <2> QED
    BY <2>1, <2>2, <2>3 DEF ProcessInit, ProcessTypeOK
<1>3. LoaderFirst /\ OneInitialises
  BY <1>0, <1>1 DEF ProcessInit, LoaderFirst, OneInitialises, Initialising, Initialises
<1>4. MainFirst
  BY <1>0, <1>1 DEF ProcessInit, MainFirst
<1>5. WorkerKnown
  BY <1>0, <1>1, ProcessAssumption DEF ProcessInit, WorkerKnown, Initialising, Initialises, Procs
<1>6. NobodyEarly /\ OneMainHeap
  BY <1>0, <1>1 DEF NobodyEarly, OneMainHeap
<1>7. Counted
  <2>1. Heaps = {}
    BY <1>1 DEF Heaps
  <2>2. Cardinality(Heaps) = 0
    BY <2>1, FS_EmptySet
  <2> QED
    BY <2>2 DEF ProcessInit, Counted
<1> QED
  BY <1>2, <1>3, <1>4, <1>5, <1>6, <1>7 DEF PInv

LEMMA ProcessNextInv == ProcessTypeOK /\ PInv /\ [ProcessNext]_processVars => (ProcessTypeOK /\ PInv)'
<1> SUFFICES ASSUME ProcessTypeOK, PInv, [ProcessNext]_processVars PROVE (ProcessTypeOK /\ PInv)'
  OBVIOUS
<1>1. CASE UNCHANGED processVars
  BY <1>1 DEF processVars, initVars, doneVars, heapVars, ProcessTypeOK, PInv, LoaderFirst,
     OneInitialises, MainFirst, WorkerKnown, Initialising, Initialises, NobodyEarly, OneMainHeap, Counted, Heaps
<1>2. CASE Load \/ Ended \/ WorkerCheck \/ WorkerPurge
  BY <1>1, <1>2, LoadInv, WorkerCheckInv, WorkerPurgeInv DEF Ended
<1>3. ASSUME NEW t \in Clients,
             ThreadInit(t) \/ ThreadDone(t) \/ ProcessDone(t) \/ JoinWorker(t) \/ ReleaseAll(t)
      PROVE  (ProcessTypeOK /\ PInv)'
  BY <1>3, ThreadInitInv, ThreadDoneInv, ProcessDoneInv, JoinWorkerInv, ReleaseAllInv
<1>4. ASSUME NEW t \in Procs,
             \/ InitCheck(t) \/ InitSwap(t) \/ InitWait(t) \/ InitOwn(t) \/ InitSetup(t)
             \/ CreateWorker(t) \/ FlagWorker(t) \/ Publish(t)
             \/ ThreadHeapInit(t) \/ CountThread(t) \/ ThreadHeapDone(t)
      PROVE  (ProcessTypeOK /\ PInv)'
  BY <1>4, InitCheckInv, InitSwapInv, InitWaitInv, InitOwnInv, InitSetupInv, CreateWorkerInv,
     FlagWorkerInv, PublishInv, ThreadHeapInitInv, CountThreadInv, ThreadHeapDoneInv
<1> QED
  BY <1>1, <1>2, <1>3, <1>4 DEF ProcessNext

\* However many threads race to be the first that allocates, with or without a
\* loader, the process is initialised by one of them (pa_process_init), no other
\* gets a heap before, the main heap has one thread, pa_process_done releases
\* memory only when the worker has ended or never started, and the thread count
\* covers the heaps of threads.
THEOREM LifecycleIsSafe == ProcessSpec => []LifecycleSafe
<1>1. ProcessInit => ProcessTypeOK /\ PInv
  BY ProcessInitInv
<1>2. ProcessTypeOK /\ PInv /\ [ProcessNext]_processVars => (ProcessTypeOK /\ PInv)'
  BY ProcessNextInv
<1>3. ProcessTypeOK /\ PInv => LifecycleSafe
  <2> SUFFICES ASSUME ProcessTypeOK, PInv PROVE LifecycleSafe
    OBVIOUS
  <2>1. Cardinality(Heaps) <= thread_count
    BY HeapsFinite DEF ProcessTypeOK, PInv, Counted
  <2>2. destroyed => at[Worker] \in {"none", "exited"}
    BY DEF PInv, WorkerKnown
  <2> QED
    BY <2>1, <2>2 DEF PInv, LifecycleSafe, Heaps
<1> QED
  BY <1>1, <1>2, <1>3, PTL DEF ProcessSpec

-----------------------------------------------------------------------------
(* Messages: the inductive invariant.                                       *)

Kinds == {"message", "error", "warning", "verbose", "load", "register"}
Stages == {"print", "gate", "value", "restore", "count", "put", "claim", "copy", "flush", "flushed"}
Outputs == {"none", "buf_stderr", "stderr", "user"}
Parts == Seq(Nat)
Starts == 0 .. MAX_DELAY
Frame ==
  [pc : Stages, kind : Kinds, len : Nat, msg : Nat, option : Options, out : Outputs, parts : Parts,
   start : Starts]

OptionState == [value : Int, init : {UNINIT, DEFAULTED, INITIALIZED}]

MessagesTypeOK ==
  /\ preloading \in BOOLEAN /\ loaded \in BOOLEAN
  /\ opt \in [Options -> OptionState]
  /\ counts \in [{"error", "warning"} -> Nat] /\ shown \in [{"error", "warning"} -> Nat]
  /\ out_len \in Nat /\ out_buf \in [0 .. MAX_DELAY -> Int] /\ pieces \subseteq (Nat \X Nat \X Nat)
  /\ out_default \in Outputs
  /\ frames \in [Talkers -> Seq(Frame)] /\ recurse \in [Talkers -> BOOLEAN] /\ said \in Nat

\* What a frame may still write to the buffer: the text it has claimed room for, or the
\* new line after a flush.
Owns(f) ==
  CASE f.pc = "copy"    -> Cells(f.start, Room(f.start, Head(f.parts)))
    [] f.pc = "flushed" -> {i \in {f.start} : i < MAX_DELAY}
    [] OTHER            -> {}

Printing(f) == f.pc \in {"put", "claim", "copy"}

\* Where a frame can be by its kind.
FramePlace(f) ==
  /\ f.pc \in {"claim", "copy"} => f.parts # << >>
  /\ f.pc = "copy" => f.start < MAX_DELAY
  /\ f.pc \in {"flush", "flushed"} => f.kind \in {"load", "register"}
  /\ f.pc \in {"gate", "value", "restore"} => f.kind \in {"error", "warning", "verbose", "load"}
  /\ f.kind = "verbose" => f.option = "verbose"
  /\ f.pc = "count" => f.kind \in {"error", "warning"}

\* Loading reads one option after the other, after preloading.
Read(o) == opt[o].init # UNINIT
LoadOK(f) ==
  f.kind = "load" => /\ ~preloading
                     /\ f.pc \in {"value", "restore"} => Read(f.option)
                     /\ f.option = "verbose" => Read("show_errors")

Calls(t) == 1 .. Len(frames[t])

FramesOK ==
  \A t \in Talkers : \A i \in Calls(t) :
    /\ FramePlace(frames[t][i]) /\ LoadOK(frames[t][i])
    /\ \A c \in Owns(frames[t][i]) : c < out_len

\* No two calls may write the same cell.
Apart ==
  \A t, u \in Talkers : \A i \in Calls(t), j \in Calls(u) :
    (t # u \/ i # j) => Owns(frames[t][i]) \cap Owns(frames[u][j]) = {}

\* Text in the buffer is in room that was claimed, and nobody writes there again.
PiecesOK ==
  \A p \in pieces : \A c \in Cells(p[1], p[2]) :
    /\ c < out_len /\ c < MAX_DELAY /\ out_buf[c] = p[3]
    /\ \A t \in Talkers : \A i \in Calls(t) : c \notin Owns(frames[t][i])
PiecesApart == \A p, q \in pieces : p # q => Cells(p[1], p[2]) \cap Cells(q[1], q[2]) = {}
LastIsNoText == out_buf[MAX_DELAY] \in {NUL, NEWLINE}

PrintsOnce ==
  \A t \in Talkers :
    /\ \A i \in Calls(t) : Printing(frames[t][i]) => recurse[t]
    /\ \A i, j \in Calls(t) : Printing(frames[t][i]) /\ Printing(frames[t][j]) => i = j
    /\ recurse[t] => \E i \in Calls(t) : Printing(frames[t][i])

Limited == \A k \in {"error", "warning"} : shown[k] <= counts[k] /\ shown[k] <= MaxErrors + 1
LoadedOK == loaded => \A o \in Options : Read(o)

MessagesInv ==
  /\ MessagesTypeOK
  /\ FramesOK
  /\ Apart /\ PiecesOK /\ PiecesApart /\ LastIsNoText
  /\ PrintsOnce
  /\ Limited
  /\ LoadedOK

-----------------------------------------------------------------------------
(* Stacks of frames.                                                        *)

LEMMA TopIs ==
  ASSUME frames \in [Talkers -> Seq(Frame)], NEW t \in Talkers, frames[t] # << >>
  PROVE  /\ Len(frames[t]) \in Nat /\ Len(frames[t]) >= 1 /\ Len(frames[t]) \in Calls(t)
         /\ Top(t) = frames[t][Len(frames[t])] /\ Top(t) \in Frame
<1>1. frames[t] \in Seq(Frame)
  OBVIOUS
<1> DEFINE s == frames[t]
<1> HIDE DEF s
<1>2. s \in Seq(Frame) /\ s # << >>
  BY <1>1 DEF s
<1>3. Len(s) \in Nat /\ Len(s) >= 1 /\ Len(s) \in 1 .. Len(s)
  BY <1>2
<1>4. s[Len(s)] \in Frame
  BY <1>2, <1>3
<1> QED
  BY <1>3, <1>4 DEF s, Calls, Top, Last

LEMMA FrontIs ==
  ASSUME NEW S, NEW s \in Seq(S), s # << >>
  PROVE  /\ Front(s) \in Seq(S) /\ Len(Front(s)) = Len(s) - 1
         /\ \A i \in 1 .. Len(s) - 1 : Front(s)[i] = s[i]
<1>1. Len(s) \in Nat /\ Len(s) >= 1
  OBVIOUS
<1>2. /\ SubSeq(s, 1, Len(s) - 1) \in Seq(S)
      /\ Len(SubSeq(s, 1, Len(s) - 1)) = Len(s) - 1
      /\ \A i \in 1 .. Len(s) - 1 : SubSeq(s, 1, Len(s) - 1)[i] = s[i]
  <2> DEFINE m == Len(s) - 1
  <2>1. m \in Int /\ \A i \in 1 .. m : s[i] \in S
    BY <1>1
  <2>2. m \in Nat
    BY <1>1
  <2> HIDE DEF m
  <2>3. m - 1 + 1 = m /\ \A i \in 1 .. m : 1 + i - 1 = i
    BY <2>2
  <2>4. /\ SubSeq(s, 1, m) \in Seq(S)
        /\ Len(SubSeq(s, 1, m)) = IF 1 <= m THEN m - 1 + 1 ELSE 0
        /\ \A i \in 1 .. m - 1 + 1 : SubSeq(s, 1, m)[i] = s[1 + i - 1]
    BY <2>1, SubSeqProperties
  <2>5. SubSeq(s, 1, m) \in Seq(S) /\ Len(SubSeq(s, 1, m)) = m
    BY <2>2, <2>4
  <2>6. \A i \in 1 .. m : SubSeq(s, 1, m)[i] = s[i]
    BY <2>3, <2>4
  <2> QED
    BY <2>5, <2>6 DEF m
<1> QED
  BY <1>2 DEF Front

LEMMA ReplaceTop ==
  ASSUME NEW S, NEW s \in Seq(S), s # << >>, NEW f \in S
  PROVE  /\ Append(Front(s), f) \in Seq(S) /\ Len(Append(Front(s), f)) = Len(s)
         /\ \A i \in 1 .. Len(s) : Append(Front(s), f)[i] = IF i = Len(s) THEN f ELSE s[i]
<1>1. Len(s) \in Nat /\ Len(s) >= 1
  OBVIOUS
<1> DEFINE r == Front(s)
<1>2. r \in Seq(S) /\ Len(r) = Len(s) - 1 /\ \A i \in 1 .. Len(s) - 1 : r[i] = s[i]
  BY FrontIs
<1> HIDE DEF r
<1>3. /\ Append(r, f) \in Seq(S) /\ Len(Append(r, f)) = Len(r) + 1
      /\ \A i \in 1 .. Len(r) : Append(r, f)[i] = r[i]
      /\ Append(r, f)[Len(r) + 1] = f
  BY <1>2, AppendProperties
<1>4. Len(r) + 1 = Len(s)
  BY <1>1, <1>2
<1>5. \A i \in 1 .. Len(s) : Append(r, f)[i] = IF i = Len(s) THEN f ELSE s[i]
  BY <1>1, <1>2, <1>3, <1>4
<1> QED
  BY <1>3, <1>4, <1>5 DEF r

\* What a step leaves of the calls: thread t has n calls, those below `same` as they were.
Stays(t, n, same) ==
  /\ frames' \in [Talkers -> Seq(Frame)]
  /\ Len(frames'[t]) = n
  /\ \A i \in 1 .. same : frames'[t][i] = frames[t][i]
  /\ \A u \in Talkers : u # t => frames'[u] = frames[u]

LEMMA GotoIs ==
  ASSUME frames \in [Talkers -> Seq(Frame)], NEW t \in Talkers, frames[t] # << >>,
         NEW f \in Frame, Goto(t, f)
  PROVE  /\ Stays(t, Len(frames[t]), Len(frames[t]) - 1)
         /\ frames'[t][Len(frames[t])] = f
<1> DEFINE s == frames[t]
           r == Append(Front(s), f)
<1>1. s \in Seq(Frame) /\ s # << >> /\ Len(s) \in Nat /\ Len(s) >= 1
  OBVIOUS
<1>2. frames' = [frames EXCEPT ![t] = r]
  BY DEF Goto
<1>3. /\ r \in Seq(Frame) /\ Len(r) = Len(s)
      /\ \A i \in 1 .. Len(s) : r[i] = IF i = Len(s) THEN f ELSE s[i]
  BY <1>1, ReplaceTop
<1> HIDE DEF r
<1>4. frames' \in [Talkers -> Seq(Frame)] /\ frames'[t] = r /\ \A u \in Talkers : u # t => frames'[u] = frames[u]
  BY <1>2, <1>3
<1>5. \A i \in 1 .. Len(s) - 1 : r[i] = s[i]
  BY <1>1, <1>3
<1>6. r[Len(s)] = f
  BY <1>1, <1>3
<1> QED
  BY <1>3, <1>4, <1>5, <1>6 DEF Stays

LEMMA ReturnIs ==
  ASSUME frames \in [Talkers -> Seq(Frame)], NEW t \in Talkers, frames[t] # << >>, Return(t)
  PROVE  Stays(t, Len(frames[t]) - 1, Len(frames[t]) - 1)
<1> DEFINE s == frames[t]
           r == Front(s)
<1>1. s \in Seq(Frame) /\ s # << >>
  OBVIOUS
<1>2. frames' = [frames EXCEPT ![t] = r]
  BY DEF Return
<1>3. r \in Seq(Frame) /\ Len(r) = Len(s) - 1 /\ \A i \in 1 .. Len(s) - 1 : r[i] = s[i]
  BY <1>1, FrontIs
<1> HIDE DEF r
<1> QED
  BY <1>2, <1>3 DEF Stays

LEMMA PushIs ==
  ASSUME frames \in [Talkers -> Seq(Frame)], NEW t \in Talkers, NEW f \in Frame,
         frames' = [frames EXCEPT ![t] = Append(frames[t], f)]
  PROVE  /\ Stays(t, Len(frames[t]) + 1, Len(frames[t]))
         /\ frames'[t][Len(frames[t]) + 1] = f
<1> DEFINE s == frames[t]
           r == Append(s, f)
<1>1. s \in Seq(Frame)
  OBVIOUS
<1>3. /\ r \in Seq(Frame) /\ Len(r) = Len(s) + 1
      /\ \A i \in 1 .. Len(s) : r[i] = s[i]
      /\ r[Len(s) + 1] = f
  BY <1>1, AppendProperties
<1>2. frames' = [frames EXCEPT ![t] = r]
  OBVIOUS
<1> HIDE DEF r
<1> QED
  BY <1>2, <1>3 DEF Stays

-----------------------------------------------------------------------------
(* What a step that leaves most calls as they are keeps of the invariant.   *)

\* The part of the invariant that is not about calls and the buffer.
RestOK ==
  /\ preloading \in BOOLEAN /\ loaded \in BOOLEAN
  /\ opt \in [Options -> OptionState]
  /\ counts \in [{"error", "warning"} -> Nat] /\ shown \in [{"error", "warning"} -> Nat]
  /\ out_default \in Outputs /\ said \in Nat
  /\ Limited /\ LoadedOK

BufferOK ==
  /\ out_len \in Nat /\ out_buf \in [0 .. MAX_DELAY -> Int] /\ pieces \subseteq (Nat \X Nat \X Nat)
  /\ Apart /\ PiecesOK /\ PiecesApart /\ LastIsNoText
  /\ \A t \in Talkers : \A i \in Calls(t) : \A c \in Owns(frames[t][i]) : c < out_len

FramesTyped == frames \in [Talkers -> Seq(Frame)]
CallsOK == \A t \in Talkers : \A i \in Calls(t) : FramePlace(frames[t][i]) /\ LoadOK(frames[t][i])
PrintsOK == recurse \in [Talkers -> BOOLEAN] /\ PrintsOnce

\* Options that were read stay read.
Onward == (preloading' => preloading) /\ \A o \in Options : Read(o) => Read(o)'

LEMMA InvParts == MessagesInv <=> RestOK /\ BufferOK /\ FramesTyped /\ CallsOK /\ PrintsOK
  BY DEF MessagesInv, MessagesTypeOK, FramesOK, RestOK, BufferOK, FramesTyped, CallsOK, PrintsOK

LEMMA LenNat ==
  ASSUME FramesTyped, NEW t \in Talkers
  PROVE  Len(frames[t]) \in Nat /\ \A i \in Calls(t) : frames[t][i] \in Frame
<1>1. frames[t] \in Seq(Frame)
  BY DEF FramesTyped
<1> QED
  BY <1>1 DEF Calls

\* The calls above `same` are new.
LEMMA CallsStay ==
  ASSUME FramesTyped, CallsOK, Onward,
         NEW t \in Talkers, NEW n \in Nat, NEW same \in Nat, Stays(t, n, same),
         same <= Len(frames[t]), same <= n,
         \A i \in same + 1 .. n : FramePlace(frames'[t][i]) /\ LoadOK(frames[t][i])'
  PROVE  FramesTyped' /\ CallsOK'
<1>1. FramesTyped'
  BY DEF FramesTyped, Stays
<1>2. ASSUME NEW u \in Talkers, NEW i \in Calls(u)' PROVE FramePlace(frames'[u][i]) /\ LoadOK(frames[u][i])'
  <2>1. CASE u = t /\ i > same
    <3>1. i \in same + 1 .. n
      BY <2>1 DEF Calls, Stays
    <3> QED
      BY <2>1, <3>1
  <2>2. CASE ~(u = t /\ i > same)
    <3>1. i \in Calls(u) /\ frames'[u][i] = frames[u][i]
      BY <2>2, LenNat DEF Calls, Stays
    <3>2. frames[u][i] \in Frame /\ FramePlace(frames[u][i]) /\ LoadOK(frames[u][i])
      BY <3>1, LenNat DEF CallsOK
    <3>3. frames[u][i].option \in Options
      BY <3>2 DEF Frame
    <3>4. "show_errors" \in Options
      BY DEF Options
    <3> QED
      BY <3>1, <3>2, <3>3, <3>4 DEF LoadOK, Onward
  <2> QED
    BY <2>1, <2>2
<1>3. \A u \in Talkers : \A i \in Calls(u)' : FramePlace(frames'[u][i]) /\ LoadOK(frames[u][i])'
  BY <1>2
<1>4. CallsOK'
  BY <1>3 DEF CallsOK, FramePlace
<1> QED
  BY <1>1, <1>4

LEMMA PrintsStay ==
  ASSUME FramesTyped, PrintsOK,
         NEW t \in Talkers, NEW n \in Nat, NEW same \in Nat, Stays(t, n, same),
         same <= Len(frames[t]), same <= n,
         \A i \in same + 1 .. n : Printing(frames'[t][i]) => i \in Calls(t) /\ Printing(frames[t][i]),
         \A i \in same + 1 .. Len(frames[t]) : Printing(frames[t][i]) => i <= n /\ Printing(frames'[t][i]),
         UNCHANGED recurse
  PROVE  PrintsOK'
<1>1. \A u \in Talkers : Len(frames[u]) \in Nat
  BY LenNat
<1>2. ASSUME NEW u \in Talkers, NEW i \in Calls(u)', Printing(frames'[u][i])
      PROVE  i \in Calls(u) /\ Printing(frames[u][i])
  <2>1. CASE u = t /\ i > same
    <3>1. i \in same + 1 .. n
      BY <2>1 DEF Calls, Stays
    <3> QED
      BY <1>2, <2>1, <3>1
  <2>2. CASE ~(u = t /\ i > same)
    <3>1. i \in Calls(u) /\ frames'[u][i] = frames[u][i]
      BY <1>1, <2>2 DEF Calls, Stays
    <3> QED
      BY <1>2, <3>1
  <2> QED
    BY <2>1, <2>2
<1>3. ASSUME NEW u \in Talkers, NEW i \in Calls(u), Printing(frames[u][i])
      PROVE  i \in Calls(u)' /\ Printing(frames'[u][i])
  <2>1. CASE u = t /\ i > same
    <3>1. i \in same + 1 .. Len(frames[t])
      BY <1>1, <2>1 DEF Calls
    <3> QED
      BY <1>3, <2>1, <3>1 DEF Calls, Stays
  <2>2. CASE ~(u = t /\ i > same)
    <3>1. i \in Calls(u)' /\ frames'[u][i] = frames[u][i]
      BY <1>1, <2>2 DEF Calls, Stays
    <3> QED
      BY <1>3, <3>1
  <2> QED
    BY <2>1, <2>2
<1>4. ASSUME NEW u \in Talkers
      PROVE  /\ \A i \in Calls(u)' : Printing(frames'[u][i]) => recurse'[u]
             /\ \A i, j \in Calls(u)' : Printing(frames'[u][i]) /\ Printing(frames'[u][j]) => i = j
             /\ recurse'[u] => \E i \in Calls(u)' : Printing(frames'[u][i])
  <2>1. /\ \A i \in Calls(u) : Printing(frames[u][i]) => recurse[u]
        /\ \A i, j \in Calls(u) : Printing(frames[u][i]) /\ Printing(frames[u][j]) => i = j
        /\ recurse[u] => \E i \in Calls(u) : Printing(frames[u][i])
    BY DEF PrintsOK, PrintsOnce
  <2> QED
    BY <1>2, <1>3, <2>1
<1> QED
  BY <1>4 DEF PrintsOK, PrintsOnce, Printing

LEMMA BufferStays ==
  ASSUME FramesTyped, BufferOK,
         NEW t \in Talkers, NEW n \in Nat, NEW same \in Nat, Stays(t, n, same),
         same <= Len(frames[t]), same <= n,
         \A i \in same + 1 .. n : \/ Owns(frames'[t][i]) = {}
                                  \/ i \in Calls(t) /\ Owns(frames'[t][i]) \subseteq Owns(frames[t][i]),
         UNCHANGED <<out_buf, pieces>>, out_len' \in Nat, out_len' >= out_len
  PROVE  BufferOK'
<1>1. \A u \in Talkers : Len(frames[u]) \in Nat
  BY LenNat
<1>2. ASSUME NEW u \in Talkers, NEW i \in Calls(u)'
      PROVE  Owns(frames'[u][i]) = {} \/ (i \in Calls(u) /\ Owns(frames'[u][i]) \subseteq Owns(frames[u][i]))
  <2>1. CASE u = t /\ i > same
    <3>1. i \in same + 1 .. n
      BY <2>1 DEF Calls, Stays
    <3> QED
      BY <1>2, <2>1, <3>1
  <2>2. CASE ~(u = t /\ i > same)
    BY <1>1, <2>2 DEF Calls, Stays
  <2> QED
    BY <2>1, <2>2
<1>3. ASSUME NEW u \in Talkers, NEW v \in Talkers, NEW i \in Calls(u)', NEW j \in Calls(v)', u # v \/ i # j
      PROVE  Owns(frames'[u][i]) \cap Owns(frames'[v][j]) = {}
  <2>1. i \in Calls(u) /\ j \in Calls(v) => Owns(frames[u][i]) \cap Owns(frames[v][j]) = {}
    BY <1>3 DEF BufferOK, Apart
  <2>2. Owns(frames'[u][i]) = {} \/ (i \in Calls(u) /\ Owns(frames'[u][i]) \subseteq Owns(frames[u][i]))
    BY <1>2
  <2>3. Owns(frames'[v][j]) = {} \/ (j \in Calls(v) /\ Owns(frames'[v][j]) \subseteq Owns(frames[v][j]))
    BY <1>2
  <2> QED
    BY <2>1, <2>2, <2>3
<1>4. ASSUME NEW u \in Talkers, NEW i \in Calls(u)', NEW c \in Owns(frames'[u][i]) PROVE c < out_len'
  <2>1. i \in Calls(u) /\ c \in Owns(frames[u][i])
    BY <1>2
  <2>2. c < out_len /\ c \in Int
    <3>1. frames[u][i] \in Frame
      BY <2>1, LenNat
    <3>2. frames[u][i].start \in Int
      BY <3>1, MessagesAssumption DEF Frame, Starts
    <3> QED
      BY <2>1, <3>2 DEF BufferOK, Owns, Cells
  <2> QED
    BY <2>2 DEF BufferOK
<1>5. ASSUME NEW p \in pieces, NEW c \in Cells(p[1], p[2])
      PROVE  /\ c < out_len' /\ c < MAX_DELAY /\ out_buf'[c] = p[3]
             /\ \A u \in Talkers : \A i \in Calls(u)' : c \notin Owns(frames'[u][i])
  <2>1. /\ c < out_len /\ c < MAX_DELAY /\ out_buf[c] = p[3]
        /\ \A u \in Talkers : \A i \in Calls(u) : c \notin Owns(frames[u][i])
    BY DEF BufferOK, PiecesOK
  <2>2. c \in Int /\ out_len \in Nat
    BY DEF BufferOK, Cells
  <2>3. ASSUME NEW u \in Talkers, NEW i \in Calls(u)'
        PROVE  c \notin Owns(frames'[u][i])
    <3>1. Owns(frames'[u][i]) = {} \/ (i \in Calls(u) /\ Owns(frames'[u][i]) \subseteq Owns(frames[u][i]))
      BY <1>2
    <3> QED
      BY <2>1, <3>1
  <2>4. c < out_len' /\ c < MAX_DELAY /\ out_buf'[c] = p[3]
    BY <2>1, <2>2
  <2> QED
    BY <2>3, <2>4
<1>6. Apart'
  BY <1>3 DEF Apart, Owns, Cells, Room
<1>7. PiecesOK'
  BY <1>5 DEF PiecesOK, Owns, Cells, Room
<1>8. PiecesApart' /\ LastIsNoText'
  BY DEF BufferOK, PiecesApart, LastIsNoText
<1> QED
  BY <1>4, <1>6, <1>7, <1>8 DEF BufferOK

\* The innermost call goes on.
LEMMA GotoInv ==
  ASSUME MessagesInv, NEW t \in Talkers, frames[t] # << >>, NEW f \in Frame, Goto(t, f),
         Owns(f) = {} \/ Owns(f) \subseteq Owns(Top(t)), Printing(f) <=> Printing(Top(t)),
         FramePlace(f), LoadOK(f)', Onward, RestOK',
         UNCHANGED <<out_buf, pieces, recurse>>, out_len' \in Nat, out_len' >= out_len
  PROVE  MessagesInv'
<1>0. PICK n, m : n = Len(frames[t]) /\ m = n - 1
  OBVIOUS
<1>1. RestOK /\ BufferOK /\ FramesTyped /\ CallsOK /\ PrintsOK
  BY InvParts
<1>2. n \in Nat /\ n >= 1 /\ n \in Calls(t) /\ Top(t) = frames[t][n]
  BY <1>0, <1>1, TopIs DEF FramesTyped
<1>3. Stays(t, n, m) /\ frames'[t][n] = f
  BY <1>0, <1>1, GotoIs DEF FramesTyped
<1>4. m \in Nat /\ m <= n /\ m <= Len(frames[t]) /\ \A i \in m + 1 .. n : i = n
  BY <1>0, <1>2
<1>5. \A i \in m + 1 .. n : FramePlace(frames'[t][i]) /\ LoadOK(frames[t][i])'
  <2>1. LoadOK(frames[t][n])'
    BY <1>3 DEF LoadOK, Read
  <2>2. \A i \in m + 1 .. n : LoadOK(frames[t][i])'
    BY <1>4, <2>1 DEF LoadOK, Read
  <2> QED
    BY <1>3, <1>4, <2>2
<1>6. FramesTyped' /\ CallsOK'
  BY <1>1, <1>2, <1>3, <1>4, <1>5, CallsStay
<1>7. PrintsOK'
  BY SMTT(30), <1>0, <1>1, <1>2, <1>3, <1>4, PrintsStay
<1>8. BufferOK'
  BY <1>0, <1>1, <1>2, <1>3, <1>4, BufferStays
<1>9. MessagesInv' <=> RestOK' /\ BufferOK' /\ FramesTyped' /\ CallsOK' /\ PrintsOK'
  BY InvParts, PTL
<1> QED
  BY <1>6, <1>7, <1>8, <1>9

\* The innermost call returns.
LEMMA ReturnInv ==
  ASSUME MessagesInv, NEW t \in Talkers, frames[t] # << >>, Return(t), ~Printing(Top(t)), Onward, RestOK',
         UNCHANGED <<out_buf, pieces, recurse>>, out_len' \in Nat, out_len' >= out_len
  PROVE  MessagesInv'
<1>0. PICK n, m : n = Len(frames[t]) /\ m = n - 1
  OBVIOUS
<1>1. RestOK /\ BufferOK /\ FramesTyped /\ CallsOK /\ PrintsOK
  BY InvParts
<1>2. n \in Nat /\ n >= 1 /\ n \in Calls(t) /\ Top(t) = frames[t][n]
  BY <1>0, <1>1, TopIs DEF FramesTyped
<1>3. Stays(t, m, m)
  BY <1>0, <1>1, ReturnIs DEF FramesTyped
<1>4. /\ m \in Nat /\ m <= m /\ m <= Len(frames[t])
      /\ (\A i \in m + 1 .. m : FALSE) /\ \A i \in m + 1 .. Len(frames[t]) : i = n
  BY <1>0, <1>2
<1>6. FramesTyped' /\ CallsOK'
  BY <1>1, <1>2, <1>3, <1>4, CallsStay
<1>7. PrintsOK'
  <2>1. \A i \in m + 1 .. m : Printing(frames'[t][i]) => i \in Calls(t) /\ Printing(frames[t][i])
    BY <1>4
  <2>2. \A i \in m + 1 .. Len(frames[t]) : Printing(frames[t][i]) => i <= m /\ Printing(frames'[t][i])
    BY <1>2, <1>4
  <2> QED
    BY <1>1, <1>3, <1>4, <2>1, <2>2, PrintsStay
<1>8. BufferOK'
  <2>1. \A i \in m + 1 .. m : \/ Owns(frames'[t][i]) = {}
                              \/ i \in Calls(t) /\ Owns(frames'[t][i]) \subseteq Owns(frames[t][i])
    BY <1>4
  <2> QED
    BY <1>1, <1>3, <1>4, <2>1, BufferStays
<1>9. MessagesInv' <=> RestOK' /\ BufferOK' /\ FramesTyped' /\ CallsOK' /\ PrintsOK'
  BY InvParts, PTL
<1> QED
  BY <1>6, <1>7, <1>8, <1>9

\* A new call.
LEMMA PushInv ==
  ASSUME MessagesInv, NEW t \in Talkers, NEW f \in Frame, frames' = [frames EXCEPT ![t] = Append(frames[t], f)],
         Owns(f) = {}, ~Printing(f), FramePlace(f), LoadOK(f)', Onward, RestOK',
         UNCHANGED <<out_buf, pieces, out_len, recurse>>
  PROVE  MessagesInv'
<1>0. PICK n, m : n = Len(frames[t]) /\ m = n + 1
  OBVIOUS
<1>1. RestOK /\ BufferOK /\ FramesTyped /\ CallsOK /\ PrintsOK
  BY InvParts
<1>2. n \in Nat
  BY <1>0, <1>1, LenNat
<1>3. Stays(t, m, n) /\ frames'[t][m] = f
  BY <1>0, <1>1, PushIs DEF FramesTyped
<1>4. /\ n <= m /\ m \in Nat /\ n <= Len(frames[t])
      /\ (\A i \in n + 1 .. Len(frames[t]) : FALSE) /\ (\A i \in n + 1 .. m : i = m)
  BY <1>0, <1>2
<1>5. \A i \in n + 1 .. m : FramePlace(frames'[t][i]) /\ LoadOK(frames[t][i])'
  <2>1. LoadOK(frames[t][m])'
    BY <1>3 DEF LoadOK, Read
  <2>2. \A i \in n + 1 .. m : LoadOK(frames[t][i])'
    BY <1>4, <2>1 DEF LoadOK, Read
  <2> QED
    BY <1>3, <1>4, <2>2
<1>6. FramesTyped' /\ CallsOK'
  BY <1>1, <1>2, <1>3, <1>4, <1>5, CallsStay
<1>7. PrintsOK'
  BY <1>1, <1>2, <1>3, <1>4, PrintsStay
<1>8. out_len' \in Nat /\ out_len' >= out_len
  BY <1>1 DEF BufferOK
<1>10. BufferOK'
  BY <1>1, <1>2, <1>3, <1>4, <1>8, BufferStays
<1>9. MessagesInv' <=> RestOK' /\ BufferOK' /\ FramesTyped' /\ CallsOK' /\ PrintsOK'
  BY InvParts, PTL
<1> QED
  BY <1>6, <1>7, <1>10, <1>9

\* The innermost call goes on and makes a call of its own.
LEMMA GotoPushInv ==
  ASSUME MessagesInv, NEW t \in Talkers, frames[t] # << >>, NEW f \in Frame, NEW g \in Frame,
         frames' = [frames EXCEPT ![t] = Append(Append(Front(frames[t]), f), g)],
         Owns(f) = {}, Owns(g) = {}, ~Printing(f), ~Printing(g), ~Printing(Top(t)),
         FramePlace(f), FramePlace(g), LoadOK(f)', LoadOK(g)', Onward, RestOK',
         UNCHANGED <<out_buf, pieces, out_len, recurse>>
  PROVE  MessagesInv'
<1>0. PICK k, n, m : n = Len(frames[t]) /\ m = n + 1 /\ k = n - 1
  OBVIOUS
<1>1. RestOK /\ BufferOK /\ FramesTyped /\ CallsOK /\ PrintsOK
  BY InvParts
<1>2. n \in Nat /\ n >= 1 /\ n \in Calls(t) /\ Top(t) = frames[t][n]
  BY <1>0, <1>1, TopIs DEF FramesTyped
<1>3. Stays(t, m, k) /\ frames'[t][n] = f /\ frames'[t][m] = g
  <2> DEFINE s == frames[t]
             r == Append(Front(s), f)
             q == Append(r, g)
  <2>1. s \in Seq(Frame) /\ s # << >> /\ frames \in [Talkers -> Seq(Frame)]
    BY <1>1 DEF FramesTyped
  <2>2. /\ r \in Seq(Frame) /\ Len(r) = Len(s)
        /\ \A i \in 1 .. Len(s) : r[i] = IF i = Len(s) THEN f ELSE s[i]
    BY <2>1, ReplaceTop
  <2>3. frames' = [frames EXCEPT ![t] = q]
    OBVIOUS
  <2> HIDE DEF r
  <2>4. /\ q \in Seq(Frame) /\ Len(q) = Len(r) + 1
        /\ \A i \in 1 .. Len(r) : q[i] = r[i]
        /\ q[Len(r) + 1] = g
    BY <2>2, AppendProperties
  <2> HIDE DEF q
  <2>5. Len(r) = n /\ r[n] = f /\ \A i \in 1 .. k : r[i] = s[i]
    BY <1>0, <1>2, <2>2
  <2>6. n \in 1 .. n /\ \A i \in 1 .. k : i \in 1 .. n
    BY <1>0, <1>2
  <2>7. q[n] = f /\ \A i \in 1 .. k : q[i] = s[i]
    BY <2>4, <2>5, <2>6
  <2>8. Len(q) = m /\ q[m] = g
    BY <1>0, <2>4, <2>5
  <2> QED
    BY <2>1, <2>3, <2>4, <2>7, <2>8 DEF Stays
<1>4. /\ k \in Nat /\ m \in Nat /\ k <= m /\ k <= Len(frames[t])
      /\ (\A i \in k + 1 .. Len(frames[t]) : i = n) /\ (\A i \in k + 1 .. m : i = n \/ i = m)
  BY <1>0, <1>2
<1>5. \A i \in k + 1 .. m : FramePlace(frames'[t][i]) /\ LoadOK(frames[t][i])'
  <2>1. LoadOK(frames[t][m])' /\ LoadOK(frames[t][n])'
    BY <1>3 DEF LoadOK, Read
  <2>2. \A i \in k + 1 .. m : LoadOK(frames[t][i])'
    BY <1>4, <2>1 DEF LoadOK, Read
  <2> QED
    BY <1>3, <1>4, <2>2
<1>6. FramesTyped' /\ CallsOK'
  BY <1>1, <1>2, <1>3, <1>4, <1>5, CallsStay
<1>7. PrintsOK'
  <2>1. \A i \in k + 1 .. m : Printing(frames'[t][i]) => i \in Calls(t) /\ Printing(frames[t][i])
    BY <1>3, <1>4
  <2>2. \A i \in k + 1 .. Len(frames[t]) : Printing(frames[t][i]) => i <= m /\ Printing(frames'[t][i])
    BY <1>2, <1>4
  <2> QED
    BY <1>1, <1>3, <1>4, <2>1, <2>2, PrintsStay
<1>8. out_len' \in Nat /\ out_len' >= out_len
  BY <1>1 DEF BufferOK
<1>10. BufferOK'
  <2>1. \A i \in k + 1 .. m : Owns(frames'[t][i]) = {}
    BY <1>3, <1>4
  <2> QED
    BY <1>1, <1>3, <1>4, <1>8, <2>1, BufferStays
<1>9. MessagesInv' <=> RestOK' /\ BufferOK' /\ FramesTyped' /\ CallsOK' /\ PrintsOK'
  BY InvParts, PTL
<1> QED
  BY <1>6, <1>7, <1>10, <1>9

-----------------------------------------------------------------------------
(* One step per operation: options.                                         *)

LEMMA TopOK ==
  ASSUME MessagesInv, NEW t \in Talkers, NEW pc, At(t, pc)
  PROVE  /\ frames[t] # << >> /\ Top(t) \in Frame /\ Top(t).pc = pc
         /\ FramePlace(Top(t)) /\ LoadOK(Top(t))
         /\ Top(t) = frames[t][Len(frames[t])] /\ Len(frames[t]) \in Calls(t)
<1>1. frames[t] # << >> /\ Top(t).pc = pc
  BY DEF At
<1>2. /\ Top(t) = frames[t][Len(frames[t])] /\ Len(frames[t]) \in Calls(t)
      /\ Top(t) \in Frame
  BY <1>1, InvParts, TopIs DEF FramesTyped
<1> QED
  BY <1>1, <1>2, InvParts DEF CallsOK

LEMMA FrameFields ==
  ASSUME NEW f \in Frame
  PROVE  /\ f.pc \in Stages /\ f.kind \in Kinds /\ f.len \in Nat /\ f.msg \in Nat /\ f.option \in Options
         /\ f.out \in Outputs /\ f.parts \in Parts /\ f.start \in Starts
  BY DEF Frame

\* Only the stage of a frame changes.
LEMMA StageOnly ==
  ASSUME NEW f \in Frame, NEW pc \in Stages
  PROVE  LET g == [f EXCEPT !.pc = pc]
         IN /\ g \in Frame /\ g.pc = pc /\ g.kind = f.kind /\ g.option = f.option
            /\ g.parts = f.parts /\ g.start = f.start
  BY DEF Frame

LEMMA RestSame ==
  ASSUME MessagesInv, UNCHANGED <<preloading, loaded, opt, counts, shown>>,
         out_default' \in Outputs, said' \in Nat
  PROVE  RestOK' /\ Onward
<1>1. RestOK
  BY InvParts
<1> QED
  BY <1>1 DEF RestOK, Onward, Limited, LoadedOK, Read

LEMMA RestNow ==
  ASSUME MessagesInv
  PROVE  /\ out_default \in Outputs /\ said \in Nat /\ out_len \in Nat
         /\ loaded \in BOOLEAN /\ preloading \in BOOLEAN
         /\ opt \in [Options -> OptionState]
         /\ counts \in [{"error", "warning"} -> Nat] /\ shown \in [{"error", "warning"} -> Nat]
         /\ Limited /\ LoadedOK
  BY InvParts DEF RestOK, BufferOK

LEMMA MessageIs ==
  ASSUME NEW kind \in {"message", "error", "warning", "verbose"}, NEW len \in Nat, NEW msg \in Nat
  PROVE  /\ Message(kind, len, msg) \in Frame
         /\ Owns(Message(kind, len, msg)) = {} /\ ~Printing(Message(kind, len, msg))
         /\ FramePlace(Message(kind, len, msg)) /\ Message(kind, len, msg).kind # "load"
<1> DEFINE f == Message(kind, len, msg)
<1>1. /\ f.pc = (IF kind = "message" THEN "print" ELSE "gate") /\ f.kind = kind
      /\ f.option = "verbose"
  BY DEF Message
<1>2. 0 \in Starts /\ << >> \in Parts
  BY MessagesAssumption DEF Starts, Parts
<1>3. f \in Frame
  BY <1>2 DEF Message, Frame, Stages, Kinds, Options, Outputs
<1> HIDE DEF f
<1>4. Owns(f) = {} /\ ~Printing(f) /\ FramePlace(f) /\ f.kind # "load"
  BY <1>1 DEF Owns, Printing, FramePlace
<1> QED
  BY <1>3, <1>4 DEF f

LEMMA BeginInv ==
  ASSUME MessagesInv, NEW t \in Talkers, NEW kind \in Says[t], NEW len \in Lens, Begin(t, kind, len)
  PROVE  MessagesInv'
<1>1. kind \in {"message", "error", "warning", "verbose"} /\ len \in Nat
  BY MessagesAssumption
<1>2. said + 1 \in Nat /\ out_default \in Outputs
  BY RestNow
<1>3. PICK f : f = Message(kind, len, said + 1)
  OBVIOUS
<1>4. f \in Frame /\ Owns(f) = {} /\ ~Printing(f) /\ FramePlace(f) /\ f.kind # "load"
  BY <1>1, <1>2, <1>3, MessageIs
<1>5. /\ said' = said + 1 /\ frames' = [frames EXCEPT ![t] = Append(frames[t], f)]
      /\ UNCHANGED <<preloading, loaded, env, opt, sets, counts, shown, out_len, out_buf, pieces, out_default, recurse>>
  BY <1>3 DEF Begin, optionVars, bufferVars
<1>6. RestOK' /\ Onward
  BY <1>2, <1>5, RestSame
<1>7. LoadOK(f)'
  BY <1>4 DEF LoadOK
<1> QED
  BY <1>4, <1>5, <1>6, <1>7, PushInv

LEMMA OptionInitInv ==
  ASSUME MessagesInv, NEW t \in Talkers, At(t, "gate"), ~Read(Top(t).option),
         OptionInit(t, Top(t).option, "value"),
         UNCHANGED <<counts, shown, bufferVars, out_default, recurse, said>>
  PROVE  MessagesInv'
<1>0. PICK o, bogus, brief, init, value, f, g :
        /\ o = Top(t).option
        /\ bogus = (env[o] = "bogus")
        /\ brief = (bogus /\ o = "verbose" /\ opt[o].value = 0)
        /\ init = CASE env[o] \in {"on", "off"} -> INITIALIZED
                    [] bogus -> DEFAULTED
                    [] OTHER -> IF preloading THEN UNINIT ELSE DEFAULTED
        /\ value = IF env[o] = "on" \/ brief THEN 1 ELSE IF env[o] = "off" THEN 0 ELSE opt[o].value
        /\ f = [Top(t) EXCEPT !.pc = IF brief THEN "restore" ELSE "value"]
        /\ g = Message("warning", 1, 0)
  OBVIOUS
<1>1. /\ opt' = [opt EXCEPT ![o] = [value |-> value, init |-> init]]
      /\ frames' = [frames EXCEPT ![t] = Append(Front(frames[t]), f) \o (IF bogus THEN <<g>> ELSE << >>)]
      /\ UNCHANGED <<preloading, loaded, env, sets, counts, shown, out_len, out_buf, pieces, out_default, recurse, said>>
  BY <1>0, Zenon DEF OptionInit, bufferVars
<1>2. /\ frames[t] # << >> /\ Top(t) \in Frame /\ Top(t).pc = "gate" /\ FramePlace(Top(t)) /\ LoadOK(Top(t))
      /\ o \in Options /\ ~Read(o)
  BY <1>0, TopOK, FrameFields
<1>3. /\ f \in Frame /\ f.pc \in {"restore", "value"} /\ f.kind = Top(t).kind /\ f.option = o
      /\ f.parts = Top(t).parts /\ f.start = Top(t).start
  <2>1. PICK pc : pc = (IF brief THEN "restore" ELSE "value") /\ pc \in {"restore", "value"} /\ pc \in Stages
    BY DEF Stages
  <2>2. f = [Top(t) EXCEPT !.pc = pc]
    BY <1>0, <2>1
  <2> QED
    BY <1>0, <1>2, <2>1, <2>2, StageOnly
<1>4. Owns(f) = {} /\ ~Printing(f) /\ FramePlace(f) /\ ~Printing(Top(t))
  <2>1. ~Printing(f) /\ ~Printing(Top(t))
    BY <1>2, <1>3 DEF Printing
  <2>2. Owns(f) = {}
    BY <1>3 DEF Owns
  <2>3. Top(t).kind \in {"error", "warning", "verbose", "load"} /\ (Top(t).kind = "verbose" => o = "verbose")
    BY <1>0, <1>2 DEF FramePlace
  <2>4. FramePlace(f)
    BY <1>3, <2>3 DEF FramePlace
  <2> QED
    BY <2>1, <2>2, <2>4
<1>5. init \in {UNINIT, DEFAULTED, INITIALIZED} /\ (~preloading => init # UNINIT)
  <2>1. CASE env[o] \in {"on", "off"}
    <3>1. init = INITIALIZED
      BY <1>0, <2>1
    <3> QED
      BY <3>1 DEF INITIALIZED, UNINIT
  <2>2. CASE env[o] \notin {"on", "off"} /\ env[o] = "bogus"
    <3>1. init = DEFAULTED
      BY <1>0, <2>2
    <3> QED
      BY <3>1 DEF DEFAULTED, UNINIT
  <2>3. CASE env[o] \notin {"on", "off"} /\ env[o] # "bogus"
    <3>1. init = IF preloading THEN UNINIT ELSE DEFAULTED
      BY <1>0, <2>3
    <3> QED
      BY <3>1 DEF DEFAULTED, UNINIT
  <2> QED
    BY <2>1, <2>2, <2>3
<1>6. opt \in [Options -> OptionState] /\ opt[o].value \in Int
  BY <1>2, RestNow DEF OptionState
<1>7. value \in Int
  BY <1>0, <1>6
<1>8. /\ opt' \in [Options -> OptionState] /\ opt'[o].init = init
      /\ \A x \in Options : x # o => opt'[x] = opt[x]
  BY <1>1, <1>2, <1>5, <1>6, <1>7 DEF OptionState
<1>9. Onward
  BY <1>1, <1>2, <1>8 DEF Onward, Read
<1>10. RestOK'
  <2>1. RestOK
    BY InvParts
  <2>2. LoadedOK'
    BY <1>1, <1>9, <2>1 DEF RestOK, LoadedOK, Onward
  <2> QED
    BY <1>1, <1>8, <2>1, <2>2 DEF RestOK, Limited
<1>11. LoadOK(f)'
  <2>1. SUFFICES ASSUME f.kind = "load"
                 PROVE  ~preloading' /\ Read(o)' /\ (o = "verbose" => Read("show_errors")')
    BY <1>3 DEF LoadOK, Read
  <2>2. ~preloading /\ (o = "verbose" => Read("show_errors"))
    BY <1>0, <1>2, <1>3, <2>1 DEF LoadOK
  <2>3. Read(o)'
    BY <1>5, <1>8, <2>2 DEF Read
  <2>4. o = "verbose" => Read("show_errors")'
    BY <1>9, <2>2 DEF Onward, Options
  <2> QED
    BY <1>1, <2>2, <2>3, <2>4
<1>12. /\ g \in Frame /\ Owns(g) = {} /\ ~Printing(g) /\ FramePlace(g) /\ g.kind # "load"
  BY <1>0, MessageIs
<1>13. LoadOK(g)'
  BY <1>12 DEF LoadOK
<1>14. frames \in [Talkers -> Seq(Frame)] /\ Append(Front(frames[t]), f) \in Seq(Frame)
  <2>1. frames \in [Talkers -> Seq(Frame)]
    BY InvParts DEF FramesTyped
  <2>2. frames[t] \in Seq(Frame)
    BY <2>1
  <2> QED
    BY <1>2, <1>3, <2>1, <2>2, ReplaceTop
<1>15. CASE bogus
  <2>1. PICK r : r = Append(Front(frames[t]), f) /\ r \in Seq(Frame)
    BY <1>14
  <2>2. r \o <<g>> = Append(r, g)
    BY <1>12, <2>1
  <2>3. frames' = [frames EXCEPT ![t] = Append(Append(Front(frames[t]), f), g)]
    BY <1>1, <1>15, <2>1, <2>2
  <2> QED
    BY <1>1, <1>2, <1>3, <1>4, <1>9, <1>10, <1>11, <1>12, <1>13, <2>3, GotoPushInv
<1>16. CASE ~bogus
  <2>1. PICK r : r = Append(Front(frames[t]), f) /\ r \in Seq(Frame)
    BY <1>14
  <2>2. r \o << >> = r
    BY <2>1
  <2>3. Goto(t, f)
    BY <1>1, <1>16, <2>1, <2>2 DEF Goto
  <2>4. out_len' \in Nat /\ out_len' >= out_len
    BY <1>1, RestNow
  <2> QED
    BY <1>1, <1>2, <1>3, <1>4, <1>9, <1>10, <1>11, <2>3, <2>4, GotoInv
<1> QED
  BY <1>0, <1>15, <1>16

\* A step that changes the stage of the innermost call only, which writes nothing.
LEMMA StepQuiet ==
  ASSUME MessagesInv, NEW t \in Talkers, NEW pc, NEW next \in Stages, At(t, pc), Step(t, next),
         pc \notin {"put", "claim", "copy"}, next \notin {"put", "claim", "copy", "flushed"},
         FramePlace([Top(t) EXCEPT !.pc = next]),
         NEW o, o = Top(t).option, Top(t).kind = "load" /\ next \in {"value", "restore"} => Read(o)',
         Onward, RestOK',
         UNCHANGED <<bufferVars, recurse>>
  PROVE  MessagesInv'
<1>1. PICK f : f = [Top(t) EXCEPT !.pc = next]
  OBVIOUS
<1>2. frames[t] # << >> /\ Top(t) \in Frame /\ Top(t).pc = pc /\ LoadOK(Top(t))
  BY TopOK
<1>3. /\ f \in Frame /\ f.pc = next /\ f.kind = Top(t).kind /\ f.option = Top(t).option
  BY <1>1, <1>2, StageOnly
<1>4. Owns(f) = {} /\ ~Printing(f) /\ ~Printing(Top(t)) /\ FramePlace(f)
  BY <1>1, <1>2, <1>3 DEF Owns, Printing
<1>5. UNCHANGED <<out_buf, pieces, out_len>> /\ out_len' \in Nat /\ out_len' >= out_len
  BY RestNow DEF bufferVars
<1>6. Goto(t, f)
  BY <1>1 DEF Step
<1>7. LoadOK(f)'
  <2>1. SUFFICES ASSUME f.kind = "load"
                 PROVE  ~preloading' /\ (next \in {"value", "restore"} => Read(o)')
                        /\ (o = "verbose" => Read("show_errors")')
    BY <1>3 DEF LoadOK, Read
  <2>2. ~preloading /\ (o = "verbose" => Read("show_errors"))
    BY <1>2, <1>3, <2>1 DEF LoadOK
  <2>3. preloading \in BOOLEAN /\ preloading' \in BOOLEAN
    BY RestNow DEF RestOK
  <2>4. ~preloading' /\ (o = "verbose" => Read("show_errors")')
    BY <2>2, <2>3 DEF Onward, Options
  <2> QED
    BY <1>3, <2>1, <2>4
<1> QED
  BY <1>2, <1>3, <1>4, <1>5, <1>6, <1>7, GotoInv

LEMMA PlaceMoves ==
  ASSUME NEW f \in Frame, FramePlace(f), f.pc \in {"gate", "value", "restore", "count"},
         NEW next \in {"gate", "value", "restore", "print"},
         next # "print" => f.pc # "count"
  PROVE  FramePlace([f EXCEPT !.pc = next])
<1>1. PICK g : g = [f EXCEPT !.pc = next]
  OBVIOUS
<1>2. next \in Stages
  BY DEF Stages
<1>3. g \in Frame /\ g.pc = next /\ g.kind = f.kind /\ g.option = f.option
  BY <1>1, <1>2, StageOnly
<1>4. FramePlace(g)
  BY <1>3 DEF FramePlace
<1> QED
  BY <1>1, <1>4

LEMMA OptionGetInv ==
  ASSUME MessagesInv, NEW t \in Talkers, OptionGet(t)
  PROVE  MessagesInv'
<1>1. /\ At(t, "gate")
      /\ IF opt[Top(t).option].init = UNINIT THEN OptionInit(t, Top(t).option, "value")
         ELSE Step(t, "value") /\ UNCHANGED optionVars
      /\ UNCHANGED <<counts, shown, bufferVars, out_default, recurse, said>>
  BY DEF OptionGet
<1>2. CASE ~Read(Top(t).option)
  BY <1>1, <1>2, OptionInitInv DEF Read
<1>3. CASE Read(Top(t).option)
  <2>1. Step(t, "value") /\ UNCHANGED <<preloading, loaded, opt, counts, shown, out_default, said>>
    BY <1>1, <1>3 DEF Read, optionVars
  <2>2. RestOK' /\ Onward
    BY <2>1, RestNow, RestSame
  <2>3. PICK o : o = Top(t).option
    OBVIOUS
  <2>4. Read(o)'
    BY <1>3, <2>1, <2>3 DEF Read
  <2>5. "value" \in Stages /\ "gate" \notin {"put", "claim", "copy"} /\ "value" \notin {"put", "claim", "copy", "flushed"}
    BY DEF Stages
  <2>6. FramePlace([Top(t) EXCEPT !.pc = "value"])
    <3>1. Top(t) \in Frame /\ Top(t).pc = "gate" /\ FramePlace(Top(t))
      BY <1>1, TopOK
    <3> QED
      BY <3>1, PlaceMoves
  <2>7. UNCHANGED <<bufferVars, recurse>>
    BY <1>1
  <2> QED
    BY <1>1, <2>1, <2>2, <2>3, <2>4, <2>5, <2>6, <2>7, StepQuiet
<1> QED
  BY <1>2, <1>3

LEMMA OptionRestoreInv ==
  ASSUME MessagesInv, NEW t \in Talkers, OptionRestore(t)
  PROVE  MessagesInv'
<1>1. /\ At(t, "restore") /\ Step(t, "value")
      /\ opt' = [opt EXCEPT !["verbose"].value = 0]
      /\ UNCHANGED <<preloading, loaded, counts, shown, out_default, said>> /\ UNCHANGED <<bufferVars, recurse>>
  BY DEF OptionRestore
<1>2. opt \in [Options -> OptionState]
  BY RestNow
<1>3. opt' \in [Options -> OptionState] /\ \A o \in Options : opt'[o].init = opt[o].init
  BY <1>1, <1>2 DEF Options, OptionState
<1>4. Onward
  BY <1>1, <1>3 DEF Onward, Read
<1>5. RestOK'
  <2>1. RestOK
    BY InvParts
  <2>2. LoadedOK'
    BY <1>1, <1>4, <2>1 DEF RestOK, LoadedOK, Onward
  <2> QED
    BY <1>1, <1>3, <2>1, <2>2 DEF RestOK, Limited
<1>6. PICK o : o = Top(t).option
  OBVIOUS
<1>7. Top(t) \in Frame /\ Top(t).pc = "restore" /\ FramePlace(Top(t)) /\ LoadOK(Top(t)) /\ o \in Options
  BY <1>1, <1>6, TopOK, FrameFields
<1>8. Top(t).kind = "load" => Read(o)'
  <2>1. Top(t).kind = "load" => Read(o)
    BY <1>6, <1>7 DEF LoadOK
  <2> QED
    BY <1>4, <1>7, <2>1 DEF Onward
<1>9. FramePlace([Top(t) EXCEPT !.pc = "value"])
  BY <1>7, PlaceMoves
<1>10. /\ "value" \in Stages /\ "restore" \notin {"put", "claim", "copy"}
       /\ "value" \notin {"put", "claim", "copy", "flushed"}
  BY DEF Stages
<1> QED
  BY <1>1, <1>4, <1>5, <1>6, <1>8, <1>9, <1>10, StepQuiet

\* A step outside of all calls.
LEMMA OutsideInv ==
  ASSUME MessagesInv, UNCHANGED <<frames, out_len, out_buf, pieces, recurse>>, Onward, RestOK'
  PROVE  MessagesInv'
<1>1. RestOK /\ BufferOK /\ FramesTyped /\ CallsOK /\ PrintsOK
  BY InvParts
<1>2. FramesTyped' /\ PrintsOK'
  BY <1>1 DEF FramesTyped, PrintsOK, PrintsOnce, Calls, Printing
<1>5. BufferOK'
  <2>0. Apart /\ PiecesOK
    BY <1>1 DEF BufferOK
  <2>4. Apart'
    BY <2>0 DEF Apart, Calls
  <2>5. PiecesOK'
    BY <2>0 DEF PiecesOK, Calls
  <2>1. Apart' /\ PiecesOK'
    BY <2>4, <2>5
  <2>2. PiecesApart' /\ LastIsNoText'
    BY <1>1 DEF BufferOK, PiecesApart, LastIsNoText, Cells
  <2>3. \A t \in Talkers : \A i \in Calls(t)' : \A c \in Owns(frames'[t][i]) : c < out_len'
    BY <1>1 DEF BufferOK, Calls
  <2> QED
    BY <1>1, <2>1, <2>2, <2>3 DEF BufferOK, Calls, Owns, Cells, Room
<1>3. CallsOK'
  <2>1. ASSUME NEW t \in Talkers, NEW i \in Calls(t) PROVE FramePlace(frames[t][i]) /\ LoadOK(frames[t][i])'
    <3>1. frames[t][i] \in Frame /\ FramePlace(frames[t][i]) /\ LoadOK(frames[t][i])
      BY <1>1, LenNat DEF CallsOK
    <3>2. frames[t][i].option \in Options /\ "show_errors" \in Options
      BY <3>1, FrameFields DEF Options
    <3> QED
      BY <3>1, <3>2 DEF LoadOK, Onward
  <2> QED
    BY <2>1 DEF CallsOK, Calls, FramePlace
<1>4. MessagesInv' <=> RestOK' /\ BufferOK' /\ FramesTyped' /\ CallsOK' /\ PrintsOK'
  BY InvParts, PTL
<1> QED
  BY <1>2, <1>3, <1>4, <1>5

LEMMA OptionSetInv ==
  ASSUME MessagesInv, NEW o \in Options, NEW value \in 0 .. 1, OptionSet(o, value) \/ OptionSetDefault(o, value)
  PROVE  MessagesInv'
<1>1. /\ UNCHANGED <<preloading, loaded, counts, shown, out_default, said>>
      /\ UNCHANGED <<frames, out_len, out_buf, pieces, recurse>>
      /\ \/ opt' = [opt EXCEPT ![o] = [value |-> value, init |-> INITIALIZED]]
         \/ opt' = [opt EXCEPT ![o].value = value]
  BY Zenon DEF OptionSet, OptionSetDefault, bufferVars
<1>2. opt \in [Options -> OptionState]
  BY RestNow
<1>3. opt' \in [Options -> OptionState]
  BY <1>1, <1>2 DEF OptionState
<1>4. \A x \in Options : Read(x) => Read(x)'
  <2>1. \A x \in Options : opt[x].init # UNINIT => opt'[x].init # UNINIT
    BY <1>1, <1>2 DEF OptionState, INITIALIZED, UNINIT
  <2> QED
    BY <2>1 DEF Read
<1>5. Onward
  BY <1>1, <1>4 DEF Onward
<1>6. RestOK'
  <2>1. RestOK
    BY InvParts
  <2>2. LoadedOK'
    BY <1>1, <1>4, <2>1 DEF RestOK, LoadedOK
  <2> QED
    BY <1>1, <1>3, <2>1, <2>2 DEF RestOK, Limited
<1> QED
  BY <1>1, <1>5, <1>6, OutsideInv

-----------------------------------------------------------------------------
(* One step per operation: which messages are shown.                        *)

LEMMA GateInv ==
  ASSUME MessagesInv, NEW t \in Talkers, Gate(t)
  PROVE  MessagesInv'
<1>0. PICK f, on : f = Top(t) /\ on = (opt[f.option].value # 0)
  OBVIOUS
<1>1. /\ At(t, "value") /\ f.kind # "load"
      /\ \/ f.option = "verbose" /\ on /\ Step(t, "print")
         \/ /\ f.option = "verbose" /\ f.kind # "verbose"
            /\ Goto(t, [f EXCEPT !.pc = "gate", !.option = "show_errors"])
         \/ f.option = "show_errors" /\ Step(t, "count")
         \/ Return(t)
      /\ UNCHANGED <<preloading, loaded, opt, counts, shown, out_default, said>>
      /\ UNCHANGED <<bufferVars, recurse>>
  <2>1. /\ At(t, "value") /\ f.kind # "load"
        /\ CASE f.option = "verbose" /\ on -> Step(t, "print")
             [] f.option = "verbose" /\ ~on /\ f.kind # "verbose" ->
                  Goto(t, [f EXCEPT !.pc = "gate", !.option = "show_errors"])
             [] f.option = "show_errors" /\ on -> Step(t, "count")
             [] OTHER -> Return(t)
        /\ UNCHANGED <<optionVars, counts, shown, bufferVars, out_default, recurse, said>>
    BY <1>0, Zenon DEF Gate
  <2>2. \/ f.option = "verbose" /\ on /\ Step(t, "print")
        \/ /\ f.option = "verbose" /\ f.kind # "verbose"
           /\ Goto(t, [f EXCEPT !.pc = "gate", !.option = "show_errors"])
        \/ f.option = "show_errors" /\ Step(t, "count")
        \/ Return(t)
    BY <2>1
  <2> QED
    BY <2>1, <2>2 DEF optionVars
<1>2. /\ frames[t] # << >> /\ f \in Frame /\ f.pc = "value" /\ FramePlace(f) /\ LoadOK(f) /\ ~Printing(f)
  BY <1>0, <1>1, TopOK DEF Printing
<1>3. RestOK' /\ Onward
  BY <1>1, RestNow, RestSame
<1>4. /\ UNCHANGED <<out_buf, pieces, recurse, out_len>> /\ out_len' \in Nat /\ out_len' >= out_len
  BY <1>1, RestNow DEF bufferVars
<1>5. CASE Step(t, "print")
  <2>1. PICK o : o = Top(t).option
    OBVIOUS
  <2>2. FramePlace([Top(t) EXCEPT !.pc = "print"])
    BY <1>0, <1>2, PlaceMoves
  <2>3. /\ "print" \in Stages /\ "value" \notin {"put", "claim", "copy"}
        /\ "print" \notin {"put", "claim", "copy", "flushed"} /\ "print" \notin {"value", "restore"}
    BY DEF Stages
  <2> QED
    BY <1>1, <1>3, <1>5, <2>1, <2>2, <2>3, StepQuiet
<1>6. CASE f.option = "show_errors" /\ Step(t, "count")
  <2>1. PICK o : o = Top(t).option
    OBVIOUS
  <2>2. PICK g : g = [Top(t) EXCEPT !.pc = "count"]
    OBVIOUS
  <2>3. /\ "count" \in Stages /\ "value" \notin {"put", "claim", "copy"}
        /\ "count" \notin {"put", "claim", "copy", "flushed"} /\ "count" \notin {"value", "restore"}
    BY DEF Stages
  <2>4. g.pc = "count" /\ g.kind = f.kind /\ g.option = f.option
    BY <1>0, <1>2, <2>2, <2>3, StageOnly
  <2>5. f.kind \in {"error", "warning"}
    BY <1>1, <1>2, <1>6 DEF FramePlace
  <2>6. FramePlace(g)
    BY <1>6, <2>4, <2>5 DEF FramePlace
  <2> QED
    BY <1>1, <1>3, <1>6, <2>1, <2>2, <2>3, <2>6, StepQuiet
<1>7. CASE f.option = "verbose" /\ f.kind # "verbose" /\ Goto(t, [f EXCEPT !.pc = "gate", !.option = "show_errors"])
  <2>1. PICK g : g = [f EXCEPT !.pc = "gate", !.option = "show_errors"]
    OBVIOUS
  <2>2. /\ g \in Frame /\ g.pc = "gate" /\ g.kind = f.kind /\ g.option = "show_errors"
    BY <1>2, <2>1 DEF Frame, Stages, Options
  <2>3. f.kind \in {"error", "warning"}
    BY <1>1, <1>2, <1>7 DEF FramePlace
  <2>4. FramePlace(g)
    BY <2>2, <2>3 DEF FramePlace
  <2>5. Owns(g) = {} /\ ~Printing(g) /\ g.kind # "load"
    BY <2>2, <2>3 DEF Owns, Printing
  <2>6. LoadOK(g)'
    BY <2>5 DEF LoadOK
  <2>7. Goto(t, g)
    BY <1>7, <2>1
  <2>8. Printing(g) <=> Printing(Top(t))
    BY <1>0, <1>2, <2>5
  <2> QED
    BY <1>2, <1>3, <1>4, <2>2, <2>4, <2>5, <2>6, <2>7, <2>8, GotoInv
<1>8. CASE Return(t)
  BY <1>0, <1>2, <1>3, <1>4, <1>8, ReturnInv
<1> QED
  BY <1>1, <1>5, <1>6, <1>7, <1>8

LEMMA CountInv ==
  ASSUME MessagesInv, NEW t \in Talkers, Count(t)
  PROVE  MessagesInv'
<1>0. PICK k : k = Top(t).kind
  OBVIOUS
<1>1. /\ At(t, "count")
      /\ counts' = [counts EXCEPT ![k] = counts[k] + 1]
      /\ shown' = IF counts[k] <= MaxErrors THEN [shown EXCEPT ![k] = shown[k] + 1] ELSE shown
      /\ IF counts[k] <= MaxErrors THEN Step(t, "print") ELSE Return(t)
      /\ UNCHANGED <<preloading, loaded, opt, out_default, said>> /\ UNCHANGED <<bufferVars, recurse>>
  BY <1>0 DEF Count, optionVars
<1>2. frames[t] # << >> /\ Top(t) \in Frame /\ Top(t).pc = "count" /\ FramePlace(Top(t))
  BY <1>1, TopOK
<1>3. k \in {"error", "warning"}
  BY <1>0, <1>2 DEF FramePlace
<1>4. RestOK' /\ Onward
  <2>1. RestOK /\ MaxErrors \in Nat
    BY InvParts, MessagesAssumption
  <2>2. /\ counts \in [{"error", "warning"} -> Nat] /\ shown \in [{"error", "warning"} -> Nat] /\ Limited
    BY <2>1 DEF RestOK
  <2>3. counts' \in [{"error", "warning"} -> Nat] /\ shown' \in [{"error", "warning"} -> Nat]
    BY <1>1, <1>3, <2>2
  <2>4. ASSUME NEW j \in {"error", "warning"} PROVE shown'[j] <= counts'[j] /\ shown'[j] <= MaxErrors + 1
    <3>1. shown[j] <= counts[j] /\ shown[j] <= MaxErrors + 1 /\ shown[j] \in Nat /\ counts[j] \in Nat
      BY <2>2 DEF Limited
    <3>2. counts'[j] = IF j = k THEN counts[j] + 1 ELSE counts[j]
      BY <1>1, <2>2
    <3>3. shown'[j] = IF j = k /\ counts[k] <= MaxErrors THEN shown[j] + 1 ELSE shown[j]
      BY <1>1, <2>2
    <3> QED
      BY <2>1, <3>1, <3>2, <3>3
  <2>5. Limited'
    BY <2>4 DEF Limited
  <2> QED
    BY <1>1, <2>1, <2>3, <2>5 DEF RestOK, LoadedOK, Onward, Read
<1>5. CASE Step(t, "print")
  <2>1. PICK o : o = Top(t).option
    OBVIOUS
  <2>2. FramePlace([Top(t) EXCEPT !.pc = "print"])
    BY <1>2, PlaceMoves
  <2>3. /\ "print" \in Stages /\ "count" \notin {"put", "claim", "copy"}
        /\ "print" \notin {"put", "claim", "copy", "flushed"} /\ "print" \notin {"value", "restore"}
    BY DEF Stages
  <2> QED
    BY <1>1, <1>4, <1>5, <2>1, <2>2, <2>3, StepQuiet
<1>6. CASE Return(t)
  <2>1. /\ UNCHANGED <<out_buf, pieces, recurse>> /\ out_len' \in Nat /\ out_len' >= out_len
    BY <1>1, RestNow DEF bufferVars
  <2>2. ~Printing(Top(t))
    BY <1>2 DEF Printing
  <2> QED
    BY <1>2, <1>4, <1>6, <2>1, <2>2, ReturnInv
<1> QED
  BY <1>1, <1>5, <1>6

-----------------------------------------------------------------------------
(* One step per operation: a message is put, part by part.                  *)

LEMMA EmitInv ==
  ASSUME MessagesInv, NEW t \in Talkers, Emit(t)
  PROVE  MessagesInv'
<1>0. PICK f, g : f = Top(t) /\ g = [f EXCEPT !.pc = "put", !.out = out_default, !.parts = <<1, f.len>>]
  OBVIOUS
<1>1. /\ At(t, "print")
      /\ IF recurse[t] THEN Return(t) /\ UNCHANGED recurse
         ELSE recurse' = [recurse EXCEPT ![t] = TRUE] /\ Goto(t, g)
      /\ UNCHANGED <<preloading, loaded, opt, counts, shown, out_default, said>>
      /\ UNCHANGED <<out_len, out_buf, pieces>>
  BY <1>0 DEF Emit, optionVars, bufferVars
<1>2. /\ frames[t] # << >> /\ f \in Frame /\ f.pc = "print" /\ FramePlace(f) /\ LoadOK(f) /\ ~Printing(f)
  BY <1>0, <1>1, TopOK DEF Printing
<1>3. RestOK' /\ Onward
  BY <1>1, RestNow, RestSame
<1>4. out_len \in Nat /\ out_len' \in Nat /\ out_len' >= out_len
  BY <1>1, RestNow
<1>5. CASE recurse[t]
  <2>1. Return(t) /\ UNCHANGED <<out_buf, pieces, recurse>>
    BY <1>1, <1>5
  <2> QED
    BY <1>0, <1>2, <1>3, <1>4, <2>1, ReturnInv
<1>6. CASE ~recurse[t]
  <2>1. recurse' = [recurse EXCEPT ![t] = TRUE] /\ Goto(t, g)
    BY <1>1, <1>6
  <2>2. PICK n, m : n = Len(frames[t]) /\ m = n - 1
    OBVIOUS
  <2>3. RestOK /\ BufferOK /\ FramesTyped /\ CallsOK /\ PrintsOK
    BY InvParts
  <2>4. n \in Nat /\ n >= 1 /\ n \in Calls(t) /\ f = frames[t][n]
    BY <1>0, <1>2, <2>2, <2>3, TopIs DEF FramesTyped
  <2>5. g \in Frame /\ g.pc = "put" /\ g.kind = f.kind /\ g.option = f.option
    <3>1. <<1, f.len>> \in Parts /\ out_default \in Outputs /\ "put" \in Stages
      BY <1>2, FrameFields, RestNow DEF Parts, Stages
    <3> QED
      BY <1>0, <1>2, <3>1 DEF Frame
  <2>6. Owns(g) = {} /\ Printing(g)
    BY <2>5 DEF Owns, Printing
  <2>7. FramePlace(g)
    BY <1>2, <2>5 DEF FramePlace
  <2>8. LoadOK(g)'
    <3>1. SUFFICES ASSUME g.kind = "load" PROVE ~preloading' /\ (g.option = "verbose" => Read("show_errors")')
      BY <2>5 DEF LoadOK
    <3> QED
      BY <1>1, <1>2, <2>5, <3>1 DEF LoadOK, Read
  <2>9. Stays(t, n, m) /\ frames'[t][n] = g
    BY <1>2, <2>1, <2>2, <2>3, <2>5, GotoIs DEF FramesTyped
  <2>10. m \in Nat /\ m <= n /\ m <= Len(frames[t]) /\ \A i \in m + 1 .. n : i = n
    BY <2>2, <2>4
  <2>11. \A i \in m + 1 .. n : FramePlace(frames'[t][i]) /\ LoadOK(frames[t][i])'
    <3>1. LoadOK(frames[t][n])'
      BY <2>8, <2>9 DEF LoadOK, Read
    <3>2. \A i \in m + 1 .. n : LoadOK(frames[t][i])'
      BY <2>10, <3>1 DEF LoadOK, Read
    <3> QED
      BY <2>7, <2>9, <2>10, <3>2
  <2>12. FramesTyped' /\ CallsOK'
    BY <1>3, <2>3, <2>4, <2>9, <2>10, <2>11, CallsStay
  <2>13. BufferOK'
    <3>1. \A i \in m + 1 .. n : Owns(frames'[t][i]) = {}
      BY <2>6, <2>9, <2>10
    <3> QED
      BY <1>1, <1>4, <2>3, <2>4, <2>9, <2>10, <3>1, BufferStays
  <2>14. PrintsOK'
    <3>1. recurse \in [Talkers -> BOOLEAN] /\ recurse' \in [Talkers -> BOOLEAN] /\ recurse'[t] = TRUE
      BY <2>1, <2>3 DEF PrintsOK
    <3>2. \A i \in Calls(t) : ~Printing(frames[t][i])
      BY <1>6, <2>3 DEF PrintsOK, PrintsOnce
    <3>3. \A i \in Calls(t)' : Printing(frames'[t][i]) <=> i = n
      <4>1. ASSUME NEW i \in Calls(t)' PROVE Printing(frames'[t][i]) <=> i = n
        <5>1. i \in 1 .. n
          BY <2>9 DEF Calls, Stays
        <5>2. CASE i = n
          BY <2>6, <2>9, <5>2
        <5>3. CASE i # n
          <6>1. i \in 1 .. m /\ i \in Calls(t)
            BY <2>2, <2>4, <5>1, <5>3 DEF Calls
          <6>2. frames'[t][i] = frames[t][i]
            BY <2>9, <6>1 DEF Stays
          <6> QED
            BY <3>2, <5>3, <6>1, <6>2
        <5> QED
          BY <5>2, <5>3
      <4> QED
        BY <4>1
    <3>4. n \in Calls(t)'
      BY <2>4, <2>9 DEF Calls, Stays
    <3>5. ASSUME NEW u \in Talkers
          PROVE  /\ \A i \in Calls(u)' : Printing(frames'[u][i]) => recurse'[u]
                 /\ \A i, j \in Calls(u)' : Printing(frames'[u][i]) /\ Printing(frames'[u][j]) => i = j
                 /\ recurse'[u] => \E i \in Calls(u)' : Printing(frames'[u][i])
      <4>1. CASE u = t
        BY <3>1, <3>3, <3>4, <4>1
      <4>2. CASE u # t
        <5>1. frames'[u] = frames[u] /\ recurse'[u] = recurse[u]
          BY <2>1, <2>9, <3>1, <4>2 DEF Stays
        <5>2. /\ \A i \in Calls(u) : Printing(frames[u][i]) => recurse[u]
              /\ \A i, j \in Calls(u) : Printing(frames[u][i]) /\ Printing(frames[u][j]) => i = j
              /\ recurse[u] => \E i \in Calls(u) : Printing(frames[u][i])
          BY <2>3 DEF PrintsOK, PrintsOnce
        <5> QED
          BY <5>1, <5>2 DEF Calls
      <4> QED
        BY <4>1, <4>2
    <3> QED
      BY <3>1, <3>5 DEF PrintsOK, PrintsOnce, Printing
  <2>15. MessagesInv' <=> RestOK' /\ BufferOK' /\ FramesTyped' /\ CallsOK' /\ PrintsOK'
    BY InvParts, PTL
  <2> QED
    BY <1>3, <2>12, <2>13, <2>14, <2>15
<1> QED
  BY <1>5, <1>6

LEMMA EmittedInv ==
  ASSUME MessagesInv, NEW t \in Talkers, Emitted(t)
  PROVE  MessagesInv'
<1>1. /\ At(t, "put") /\ Return(t) /\ recurse' = [recurse EXCEPT ![t] = FALSE]
      /\ UNCHANGED <<preloading, loaded, opt, counts, shown, out_default, said>>
      /\ UNCHANGED <<out_len, out_buf, pieces>>
  BY DEF Emitted, optionVars, bufferVars
<1>2. frames[t] # << >> /\ Top(t).pc = "put" /\ Printing(Top(t))
  BY <1>1, TopOK DEF Printing
<1>3. RestOK' /\ Onward
  BY <1>1, RestNow, RestSame
<1>4. out_len \in Nat /\ out_len' \in Nat /\ out_len' >= out_len
  BY <1>1, RestNow
<1>5. PICK n, m : n = Len(frames[t]) /\ m = n - 1
  OBVIOUS
<1>6. RestOK /\ BufferOK /\ FramesTyped /\ CallsOK /\ PrintsOK
  BY InvParts
<1>7. n \in Nat /\ n >= 1 /\ n \in Calls(t) /\ Top(t) = frames[t][n]
  BY <1>2, <1>5, <1>6, TopIs DEF FramesTyped
<1>8. Stays(t, m, m)
  BY <1>1, <1>2, <1>5, <1>6, ReturnIs DEF FramesTyped
<1>9. m \in Nat /\ m <= m /\ m <= Len(frames[t]) /\ \A i \in m + 1 .. m : FALSE
  BY <1>5, <1>7
<1>10. FramesTyped' /\ CallsOK'
  BY <1>3, <1>6, <1>8, <1>9, CallsStay
<1>11. BufferOK'
  <2>1. \A i \in m + 1 .. m : Owns(frames'[t][i]) = {}
    BY <1>9
  <2> QED
    BY <1>1, <1>4, <1>6, <1>8, <1>9, <2>1, BufferStays
<1>12. PrintsOK'
  <2>1. recurse \in [Talkers -> BOOLEAN] /\ recurse' \in [Talkers -> BOOLEAN] /\ recurse'[t] = FALSE
    BY <1>1, <1>6 DEF PrintsOK
  <2>2. \A i \in Calls(t) : Printing(frames[t][i]) => i = n
    BY <1>2, <1>6, <1>7 DEF PrintsOK, PrintsOnce
  <2>3. \A i \in Calls(t)' : ~Printing(frames'[t][i])
    <3>1. ASSUME NEW i \in Calls(t)' PROVE ~Printing(frames'[t][i])
      <4>1. i \in 1 .. m
        BY <1>8 DEF Calls, Stays
      <4>2. frames'[t][i] = frames[t][i]
        BY <1>8, <4>1 DEF Stays
      <4>3. i \in Calls(t) /\ i # n
        BY <1>5, <1>7, <4>1 DEF Calls
      <4> QED
        BY <2>2, <4>2, <4>3
    <3> QED
      BY <3>1
  <2>4. ASSUME NEW u \in Talkers
        PROVE  /\ \A i \in Calls(u)' : Printing(frames'[u][i]) => recurse'[u]
               /\ \A i, j \in Calls(u)' : Printing(frames'[u][i]) /\ Printing(frames'[u][j]) => i = j
               /\ recurse'[u] => \E i \in Calls(u)' : Printing(frames'[u][i])
    <3>1. CASE u = t
      BY <2>1, <2>3, <3>1
    <3>2. CASE u # t
      <4>1. frames'[u] = frames[u] /\ recurse'[u] = recurse[u]
        BY <1>1, <1>8, <2>1, <3>2 DEF Stays
      <4>2. /\ \A i \in Calls(u) : Printing(frames[u][i]) => recurse[u]
            /\ \A i, j \in Calls(u) : Printing(frames[u][i]) /\ Printing(frames[u][j]) => i = j
            /\ recurse[u] => \E i \in Calls(u) : Printing(frames[u][i])
        BY <1>6 DEF PrintsOK, PrintsOnce
      <4> QED
        BY <4>1, <4>2 DEF Calls
    <3> QED
      BY <3>1, <3>2
  <2> QED
    BY <2>1, <2>4 DEF PrintsOK, PrintsOnce, Printing
<1>13. MessagesInv' <=> RestOK' /\ BufferOK' /\ FramesTyped' /\ CallsOK' /\ PrintsOK'
  BY InvParts, PTL
<1> QED
  BY <1>3, <1>10, <1>11, <1>12, <1>13

\* The frame of a message that goes on with its next part.
LEMMA NextPartInv ==
  ASSUME MessagesInv, NEW t \in Talkers, frames[t] # << >>, Printing(Top(t)), Top(t).parts # << >>, NextPart(t),
         RestOK', Onward, UNCHANGED <<out_buf, pieces, recurse>>, out_len' \in Nat, out_len' >= out_len
  PROVE  MessagesInv'
<1>1. PICK f, g : f = Top(t) /\ g = [f EXCEPT !.pc = "put", !.parts = Tail(f.parts)]
  OBVIOUS
<1>2. Goto(t, g)
  BY <1>1 DEF NextPart
<1>3. At(t, f.pc)
  BY <1>1 DEF At
<1>4. f \in Frame /\ FramePlace(f) /\ LoadOK(f)
  BY <1>1, <1>3, TopOK
<1>5. g \in Frame /\ g.pc = "put" /\ g.kind = f.kind /\ g.option = f.option
  <2>1. f.parts \in Seq(Nat) /\ f.parts # << >>
    BY <1>1, <1>4, FrameFields DEF Parts
  <2>2. Tail(f.parts) \in Parts /\ "put" \in Stages
    BY <2>1 DEF Parts, Stages
  <2> QED
    BY <1>1, <1>4, <2>2 DEF Frame
<1>6. Owns(g) = {} /\ Printing(g)
  BY <1>5 DEF Owns, Printing
<1>7. FramePlace(g)
  BY <1>4, <1>5 DEF FramePlace
<1>8. preloading \in BOOLEAN /\ preloading' \in BOOLEAN
  BY RestNow DEF RestOK
<1>9. LoadOK(g)'
  <2>1. SUFFICES ASSUME g.kind = "load" PROVE ~preloading' /\ (g.option = "verbose" => Read("show_errors")')
    BY <1>5 DEF LoadOK
  <2>2. ~preloading /\ (g.option = "verbose" => Read("show_errors"))
    BY <1>4, <1>5, <2>1 DEF LoadOK
  <2> QED
    BY <1>8, <2>2 DEF Onward, Options
<1>10. Printing(g) <=> Printing(Top(t))
  BY <1>6
<1> QED
  BY <1>2, <1>5, <1>6, <1>7, <1>9, <1>10, GotoInv

LEMMA PutElsewhereInv ==
  ASSUME MessagesInv, NEW t \in Talkers, PutElsewhere(t)
  PROVE  MessagesInv'
<1>1. /\ At(t, "put") /\ Top(t).parts # << >> /\ NextPart(t)
      /\ UNCHANGED <<preloading, loaded, opt, counts, shown, out_default, said>>
      /\ UNCHANGED <<out_len, out_buf, pieces, recurse>>
  BY DEF PutElsewhere, optionVars, bufferVars
<1>2. frames[t] # << >> /\ Printing(Top(t))
  BY <1>1, TopOK DEF Printing
<1>3. RestOK' /\ Onward
  BY <1>1, RestNow, RestSame
<1>4. out_len' \in Nat /\ out_len' >= out_len
  BY <1>1, RestNow
<1> QED
  BY <1>1, <1>2, <1>3, <1>4, NextPartInv

LEMMA BufCheckInv ==
  ASSUME MessagesInv, NEW t \in Talkers, BufCheck(t)
  PROVE  MessagesInv'
<1>1. /\ At(t, "put") /\ Top(t).parts # << >>
      /\ IF out_len >= MAX_DELAY THEN NextPart(t) ELSE Step(t, "claim")
      /\ UNCHANGED <<preloading, loaded, opt, counts, shown, out_default, said>>
      /\ UNCHANGED <<out_len, out_buf, pieces, recurse>>
  BY DEF BufCheck, optionVars, bufferVars
<1>2. /\ frames[t] # << >> /\ Top(t) \in Frame /\ Top(t).pc = "put" /\ Printing(Top(t))
      /\ FramePlace(Top(t)) /\ LoadOK(Top(t))
  BY <1>1, TopOK DEF Printing
<1>3. RestOK' /\ Onward
  BY <1>1, RestNow, RestSame
<1>4. out_len' \in Nat /\ out_len' >= out_len
  BY <1>1, RestNow
<1>5. CASE NextPart(t)
  BY <1>1, <1>2, <1>3, <1>4, <1>5, NextPartInv
<1>6. CASE Step(t, "claim")
  <2>1. PICK f, g : f = Top(t) /\ g = [f EXCEPT !.pc = "claim"]
    OBVIOUS
  <2>2. Goto(t, g)
    BY <1>6, <2>1 DEF Step
  <2>3. g \in Frame /\ g.pc = "claim" /\ g.kind = f.kind /\ g.option = f.option /\ g.parts = f.parts
    <3>1. "claim" \in Stages
      BY DEF Stages
    <3> QED
      BY <1>2, <2>1, <3>1, StageOnly
  <2>4. Owns(g) = {} /\ Printing(g)
    BY <2>3 DEF Owns, Printing
  <2>5. FramePlace(g)
    BY <1>1, <1>2, <2>1, <2>3 DEF FramePlace
  <2>6. LoadOK(g)'
    <3>1. SUFFICES ASSUME g.kind = "load" PROVE ~preloading' /\ (g.option = "verbose" => Read("show_errors")')
      BY <2>3 DEF LoadOK
    <3> QED
      BY <1>1, <1>2, <2>1, <2>3, <3>1 DEF LoadOK, Read
  <2>7. Printing(g) <=> Printing(Top(t))
    BY <1>2, <2>4
  <2> QED
    BY <1>1, <1>2, <1>3, <1>4, <2>2, <2>3, <2>4, <2>5, <2>6, <2>7, GotoInv
<1> QED
  BY <1>1, <1>5, <1>6

-----------------------------------------------------------------------------
(* One step per operation: the delayed output buffer.                       *)

\* The innermost call claims cells above all that were claimed, and may write
\* there.
LEMMA BufferClaims ==
  ASSUME FramesTyped, BufferOK,
         NEW t \in Talkers, NEW n \in Nat, NEW m \in Nat, n = m + 1, n = Len(frames[t]), Stays(t, n, m),
         out_len' \in Nat, out_len' >= out_len,
         \A c \in Owns(frames'[t][n]) : c \in Int /\ c >= out_len /\ c < out_len',
         out_buf' \in [0 .. MAX_DELAY -> Int],
         \A c \in 0 .. MAX_DELAY - 1 : c < out_len => out_buf'[c] = out_buf[c],
         out_buf'[MAX_DELAY] \in {NUL, NEWLINE}, UNCHANGED pieces
  PROVE  BufferOK'
<1>1. \A u \in Talkers : Len(frames[u]) \in Nat
  BY LenNat
<1>2. ASSUME NEW u \in Talkers, NEW i \in Calls(u)', ~(u = t /\ i = n)
      PROVE  i \in Calls(u) /\ frames'[u][i] = frames[u][i] /\ \A c \in Owns(frames'[u][i]) : c < out_len /\ c \in Int
  <2>1. i \in Calls(u) /\ frames'[u][i] = frames[u][i]
    <3>1. CASE u = t
      <4>1. i \in 1 .. n /\ i # n
        BY <1>2, <3>1 DEF Calls, Stays
      <4>2. i \in 1 .. m
        BY <4>1
      <4> QED
        BY <3>1, <4>1, <4>2 DEF Calls, Stays
    <3>2. CASE u # t
      BY <3>2 DEF Calls, Stays
    <3> QED
      BY <3>1, <3>2
  <2>2. ASSUME NEW c \in Owns(frames[u][i]) PROVE c < out_len /\ c \in Int
    <3>1. frames[u][i] \in Frame
      BY <2>1, LenNat
    <3>2. frames[u][i].start \in Int
      BY <3>1, MessagesAssumption DEF Frame, Starts
    <3> QED
      BY <2>1, <3>2 DEF BufferOK, Owns, Cells
  <2> QED
    BY <2>1, <2>2
<1>3. out_len \in Nat
  BY DEF BufferOK
<1>4. ASSUME NEW u \in Talkers, NEW i \in Calls(u)', NEW c \in Owns(frames'[u][i]) PROVE c < out_len'
  <2>1. CASE u = t /\ i = n
    BY <1>4, <2>1
  <2>2. CASE ~(u = t /\ i = n)
    <3>1. c < out_len /\ c \in Int
      BY <1>2, <1>4, <2>2
    <3> QED
      BY <1>3, <3>1
  <2> QED
    BY <2>1, <2>2
<1>5. ASSUME NEW u \in Talkers, NEW v \in Talkers, NEW i \in Calls(u)', NEW j \in Calls(v)', u # v \/ i # j
      PROVE  Owns(frames'[u][i]) \cap Owns(frames'[v][j]) = {}
  <2>1. CASE u = t /\ i = n
    <3>1. ~(v = t /\ j = n)
      BY <1>5, <2>1
    <3>2. \A c \in Owns(frames'[v][j]) : c < out_len /\ c \in Int
      BY <1>2, <3>1
    <3>3. \A c \in Owns(frames'[u][i]) : c \in Int /\ c >= out_len
      BY <2>1
    <3> QED
      BY <1>3, <3>2, <3>3
  <2>2. CASE v = t /\ j = n
    <3>1. ~(u = t /\ i = n)
      BY <1>5, <2>2
    <3>2. \A c \in Owns(frames'[u][i]) : c < out_len /\ c \in Int
      BY <1>2, <3>1
    <3>3. \A c \in Owns(frames'[v][j]) : c \in Int /\ c >= out_len
      BY <2>2
    <3> QED
      BY <1>3, <3>2, <3>3
  <2>3. CASE ~(u = t /\ i = n) /\ ~(v = t /\ j = n)
    <3>1. /\ i \in Calls(u) /\ frames'[u][i] = frames[u][i]
          /\ j \in Calls(v) /\ frames'[v][j] = frames[v][j]
      BY <1>2, <2>3
    <3>2. Owns(frames[u][i]) \cap Owns(frames[v][j]) = {}
      BY <1>5, <3>1 DEF BufferOK, Apart
    <3> QED
      BY <3>1, <3>2
  <2> QED
    BY <2>1, <2>2, <2>3
<1>6. ASSUME NEW p \in pieces, NEW c \in Cells(p[1], p[2])
      PROVE  /\ c < out_len' /\ c < MAX_DELAY /\ out_buf'[c] = p[3]
             /\ \A u \in Talkers : \A i \in Calls(u)' : c \notin Owns(frames'[u][i])
  <2>1. /\ c < out_len /\ c < MAX_DELAY /\ out_buf[c] = p[3]
        /\ \A u \in Talkers : \A i \in Calls(u) : c \notin Owns(frames[u][i])
    BY DEF BufferOK, PiecesOK
  <2>2. c \in Nat /\ MAX_DELAY \in Nat
    <3>1. p \in Nat \X Nat \X Nat
      BY DEF BufferOK
    <3>2. p[1] \in Nat /\ p[2] \in Nat
      BY <3>1
    <3> QED
      BY <3>2, MessagesAssumption DEF Cells
  <2>3. out_buf'[c] = out_buf[c]
    BY <2>1, <2>2
  <2>4. \A u \in Talkers : \A i \in Calls(u)' : c \notin Owns(frames'[u][i])
    <3>1. ASSUME NEW u \in Talkers, NEW i \in Calls(u)', c \in Owns(frames'[u][i]) PROVE FALSE
      <4>1. CASE u = t /\ i = n
        <5>1. c >= out_len
          BY <3>1, <4>1
        <5> QED
          BY <1>3, <2>1, <2>2, <5>1
      <4>2. CASE ~(u = t /\ i = n)
        BY <1>2, <2>1, <3>1, <4>2
      <4> QED
        BY <4>1, <4>2
    <3> QED
      BY <3>1
  <2> QED
    BY <1>3, <2>1, <2>2, <2>3, <2>4
<1>7. Apart'
  BY <1>5 DEF Apart, Owns, Cells, Room
<1>8. PiecesOK'
  BY <1>6 DEF PiecesOK, Owns, Cells, Room
<1>9. PiecesApart' /\ LastIsNoText'
  BY DEF BufferOK, PiecesApart, LastIsNoText
<1> QED
  BY <1>4, <1>7, <1>8, <1>9 DEF BufferOK

\* A write to the cells in `own`, or to the last of all; new pieces fill these cells.
Writes(own, new) ==
  /\ UNCHANGED out_len /\ out_buf' \in [0 .. MAX_DELAY -> Int]
  /\ \A c \in 0 .. MAX_DELAY - 1 : c \notin own => out_buf'[c] = out_buf[c]
  /\ out_buf'[MAX_DELAY] \in {NUL, NEWLINE}
  /\ new \subseteq (Nat \X Nat \X Nat) /\ pieces' = pieces \cup new
  /\ \A p, q \in new : p = q
  /\ \A p \in new : /\ Cells(p[1], p[2]) = own
                    /\ \A c \in own : c < MAX_DELAY /\ out_buf'[c] = p[3]

\* The innermost call writes to the cells it owns, and they are its last ones.
LEMMA BufferWrites ==
  ASSUME FramesTyped, BufferOK,
         NEW t \in Talkers, NEW n \in Nat, NEW m \in Nat, n = m + 1, n = Len(frames[t]), Stays(t, n, m),
         NEW own, own = Owns(frames[t][n]), Owns(frames'[t][n]) = {},
         NEW new, Writes(own, new)
  PROVE  BufferOK'
<1> USE DEF Writes
<1>1. \A u \in Talkers : Len(frames[u]) \in Nat
  BY LenNat
<1>2. ASSUME NEW u \in Talkers, NEW i \in Calls(u)', ~(u = t /\ i = n)
      PROVE  i \in Calls(u) /\ frames'[u][i] = frames[u][i]
  BY <1>1, <1>2 DEF Calls, Stays
<1>3. out_len \in Nat /\ n \in Calls(t)
  BY DEF BufferOK, Calls
<1>4. ASSUME NEW u \in Talkers, NEW i \in Calls(u)', NEW c \in Owns(frames'[u][i]) PROVE c < out_len'
  <2>1. ~(u = t /\ i = n)
    BY <1>4
  <2>2. i \in Calls(u) /\ frames'[u][i] = frames[u][i]
    BY <1>2, <2>1
  <2> QED
    BY <1>4, <2>2 DEF BufferOK
<1>5. ASSUME NEW u \in Talkers, NEW v \in Talkers, NEW i \in Calls(u)', NEW j \in Calls(v)', u # v \/ i # j
      PROVE  Owns(frames'[u][i]) \cap Owns(frames'[v][j]) = {}
  <2>1. CASE (u = t /\ i = n) \/ (v = t /\ j = n)
    BY <2>1
  <2>2. CASE ~(u = t /\ i = n) /\ ~(v = t /\ j = n)
    <3>1. /\ i \in Calls(u) /\ frames'[u][i] = frames[u][i]
          /\ j \in Calls(v) /\ frames'[v][j] = frames[v][j]
      BY <1>2, <2>2
    <3>2. Owns(frames[u][i]) \cap Owns(frames[v][j]) = {}
      BY <1>5, <3>1 DEF BufferOK, Apart
    <3> QED
      BY <3>1, <3>2
  <2> QED
    BY <2>1, <2>2
<1>6. ASSUME NEW p \in pieces', NEW c \in Cells(p[1], p[2])
      PROVE  /\ c < out_len' /\ c < MAX_DELAY /\ out_buf'[c] = p[3]
             /\ \A u \in Talkers : \A i \in Calls(u)' : c \notin Owns(frames'[u][i])
  <2>1. CASE p \in pieces
    <3>1. /\ c < out_len /\ c < MAX_DELAY /\ out_buf[c] = p[3]
          /\ \A u \in Talkers : \A i \in Calls(u) : c \notin Owns(frames[u][i])
      BY <2>1 DEF BufferOK, PiecesOK
    <3>2. c \in Nat /\ MAX_DELAY \in Nat
      <4>1. p \in Nat \X Nat \X Nat
        BY <2>1 DEF BufferOK
      <4>2. p[1] \in Nat /\ p[2] \in Nat
        BY <4>1
      <4> QED
        BY <4>2, MessagesAssumption DEF Cells
    <3>3. c \notin own
      BY <1>3, <3>1
    <3>4. out_buf'[c] = p[3]
      BY <3>1, <3>2, <3>3
    <3>5. ASSUME NEW u \in Talkers, NEW i \in Calls(u)' PROVE c \notin Owns(frames'[u][i])
      <4>1. CASE u = t /\ i = n
        BY <4>1
      <4>2. CASE ~(u = t /\ i = n)
        BY <1>2, <3>1, <4>2
      <4> QED
        BY <4>1, <4>2
    <3> QED
      BY <3>1, <3>4, <3>5
  <2>2. CASE p \in new
    <3>1. c \in own /\ c < MAX_DELAY /\ out_buf'[c] = p[3]
      BY <1>6, <2>2
    <3>2. c < out_len
      BY <1>3, <3>1 DEF BufferOK
    <3>3. ASSUME NEW u \in Talkers, NEW i \in Calls(u)' PROVE c \notin Owns(frames'[u][i])
      <4>1. CASE u = t /\ i = n
        BY <4>1
      <4>2. CASE ~(u = t /\ i = n)
        <5>1. i \in Calls(u) /\ frames'[u][i] = frames[u][i]
          BY <1>2, <4>2
        <5>2. Owns(frames[u][i]) \cap Owns(frames[t][n]) = {}
          BY <1>3, <4>2, <5>1 DEF BufferOK, Apart
        <5> QED
          BY <3>1, <5>1, <5>2
      <4> QED
        BY <4>1, <4>2
    <3> QED
      BY <3>1, <3>2, <3>3
  <2> QED
    BY <2>1, <2>2
<1>7. Apart'
  BY <1>5 DEF Apart, Owns, Cells, Room
<1>8. PiecesOK'
  BY <1>6 DEF PiecesOK, Owns, Cells, Room
<1>9. PiecesApart'
  <2>1. \A p \in pieces : Cells(p[1], p[2]) \cap own = {}
    BY <1>3 DEF BufferOK, PiecesOK
  <2>2. \A p, q \in pieces : p # q => Cells(p[1], p[2]) \cap Cells(q[1], q[2]) = {}
    BY DEF BufferOK, PiecesApart
  <2>3. \A p, q \in pieces' : p # q => Cells(p[1], p[2]) \cap Cells(q[1], q[2]) = {}
    BY <2>1, <2>2
  <2> QED
    BY <2>3 DEF PiecesApart, Cells
<1>10. LastIsNoText'
  BY DEF LastIsNoText
<1>11. pieces' \subseteq (Nat \X Nat \X Nat)
  BY DEF BufferOK
<1> QED
  BY <1>3, <1>4, <1>7, <1>8, <1>9, <1>10, <1>11 DEF BufferOK

\* What the innermost call of a thread and a change of it look like.
LEMMA GotoStays ==
  ASSUME MessagesInv, NEW t \in Talkers, frames[t] # << >>, NEW f \in Frame, Goto(t, f)
  PROVE  \E n, m \in Nat : /\ n = m + 1 /\ n = Len(frames[t]) /\ n \in Calls(t) /\ Top(t) = frames[t][n]
                           /\ Stays(t, n, m) /\ frames'[t][n] = f
<1>1. FramesTyped
  BY InvParts
<1>2. PICK n, m : n = Len(frames[t]) /\ m = n - 1
  OBVIOUS
<1>3. n \in Nat /\ n >= 1 /\ n \in Calls(t) /\ Top(t) = frames[t][n]
  BY <1>1, <1>2, TopIs DEF FramesTyped
<1>4. Stays(t, n, m) /\ frames'[t][n] = f
  BY <1>1, <1>2, GotoIs DEF FramesTyped
<1>5. m \in Nat /\ n = m + 1
  BY <1>2, <1>3
<1> QED
  BY <1>2, <1>3, <1>4, <1>5

LEMMA GotoKeeps ==
  ASSUME MessagesInv, NEW t \in Talkers, frames[t] # << >>, NEW f \in Frame, Goto(t, f),
         Printing(f) <=> Printing(Top(t)), FramePlace(f), LoadOK(f)', Onward, RestOK', BufferOK',
         UNCHANGED recurse
  PROVE  MessagesInv'
<1>1. RestOK /\ BufferOK /\ FramesTyped /\ CallsOK /\ PrintsOK
  BY InvParts
<1>2. PICK n \in Nat, m \in Nat :
        /\ n = m + 1 /\ n = Len(frames[t]) /\ n \in Calls(t) /\ Top(t) = frames[t][n]
        /\ Stays(t, n, m) /\ frames'[t][n] = f
  BY GotoStays
<1>4. m <= n /\ m <= Len(frames[t]) /\ \A i \in m + 1 .. n : i = n
  BY <1>2
<1>5. \A i \in m + 1 .. n : FramePlace(frames'[t][i]) /\ LoadOK(frames[t][i])'
  <2>1. LoadOK(frames[t][n])'
    BY <1>2 DEF LoadOK, Read
  <2>2. \A i \in m + 1 .. n : LoadOK(frames[t][i])'
    BY <1>4, <2>1 DEF LoadOK, Read
  <2> QED
    BY <1>2, <1>4, <2>2
<1>6. FramesTyped' /\ CallsOK'
  BY <1>1, <1>2, <1>4, <1>5, CallsStay
<1>7. PrintsOK'
  <2>1. \A i \in m + 1 .. n : Printing(frames'[t][i]) => i \in Calls(t) /\ Printing(frames[t][i])
    BY <1>2, <1>4
  <2>2. \A i \in m + 1 .. Len(frames[t]) : Printing(frames[t][i]) => i <= n /\ Printing(frames'[t][i])
    BY <1>2, <1>4
  <2> QED
    BY <1>1, <1>2, <1>4, <2>1, <2>2, PrintsStay
<1>9. MessagesInv' <=> RestOK' /\ BufferOK' /\ FramesTyped' /\ CallsOK' /\ PrintsOK'
  BY InvParts, PTL
<1> QED
  BY <1>1, <1>6, <1>7, <1>9

LEMMA CellsSmall ==
  ASSUME NEW start \in Nat, NEW n \in Nat, start < MAX_DELAY
  PROVE  /\ Room(start, n) \in Nat /\ Room(start, n) <= n
         /\ \A c \in Cells(start, Room(start, n)) :
              c \in Int /\ c >= start /\ c < start + n /\ c < MAX_DELAY
BY MessagesAssumption DEF Room, Cells

LEMMA BufClaimInv ==
  ASSUME MessagesInv, NEW t \in Talkers, BufClaim(t)
  PROVE  MessagesInv'
<1>0. PICK f, h : f = Top(t) /\ h = Head(f.parts)
  OBVIOUS
<1>1. /\ At(t, "claim") /\ out_len' = out_len + h
      /\ IF out_len >= MAX_DELAY THEN NextPart(t) ELSE Goto(t, [f EXCEPT !.pc = "copy", !.start = out_len])
      /\ UNCHANGED <<preloading, loaded, opt, counts, shown, out_default, said>>
      /\ UNCHANGED <<out_buf, pieces, recurse>>
  BY <1>0 DEF BufClaim, optionVars
<1>2. /\ frames[t] # << >> /\ f \in Frame /\ f.pc = "claim" /\ Printing(f) /\ FramePlace(f) /\ LoadOK(f)
  BY <1>0, <1>1, TopOK DEF Printing
<1>3. RestOK' /\ Onward
  BY <1>1, RestNow, RestSame
<1>4. f.parts \in Seq(Nat) /\ f.parts # << >>
  BY <1>2, FrameFields DEF FramePlace, Parts
<1>5. h \in Nat
  BY <1>0, <1>4
<1>6. out_len \in Nat /\ out_len' \in Nat /\ out_len' >= out_len
  BY <1>1, <1>5, RestNow
<1>7. CASE out_len >= MAX_DELAY
  <2>1. NextPart(t)
    BY <1>1, <1>7
  <2> QED
    BY <1>0, <1>1, <1>2, <1>3, <1>4, <1>6, <2>1, NextPartInv
<1>8. CASE ~(out_len >= MAX_DELAY)
  <2>1. PICK g : g = [f EXCEPT !.pc = "copy", !.start = out_len]
    OBVIOUS
  <2>2. Goto(t, g)
    BY <1>1, <1>8, <2>1
  <2>3. out_len < MAX_DELAY /\ out_len \in Starts
    BY <1>6, <1>8, MessagesAssumption DEF Starts
  <2>4. /\ g \in Frame /\ g.pc = "copy" /\ g.start = out_len /\ g.parts = f.parts
        /\ g.kind = f.kind /\ g.option = f.option
    BY <1>2, <2>1, <2>3 DEF Frame, Stages
  <2>5. Owns(g) = Cells(out_len, Room(out_len, h))
    BY <1>0, <2>4 DEF Owns
  <2>6. \A c \in Owns(g) : c \in Int /\ c >= out_len /\ c < out_len'
    BY <1>1, <1>5, <1>6, <2>3, <2>5, CellsSmall
  <2>7. PICK n \in Nat, m \in Nat :
          /\ n = m + 1 /\ n = Len(frames[t]) /\ n \in Calls(t) /\ Top(t) = frames[t][n]
          /\ Stays(t, n, m) /\ frames'[t][n] = g
    BY <1>2, <2>2, <2>4, GotoStays
  <2>8. BufferOK'
    <3>1. FramesTyped /\ BufferOK
      BY InvParts
    <3>2. /\ out_buf' \in [0 .. MAX_DELAY -> Int] /\ out_buf'[MAX_DELAY] \in {NUL, NEWLINE}
          /\ \A c \in 0 .. MAX_DELAY - 1 : c < out_len => out_buf'[c] = out_buf[c]
      BY <1>1, <3>1 DEF BufferOK, LastIsNoText
    <3>3. \A c \in Owns(frames'[t][n]) : c \in Int /\ c >= out_len /\ c < out_len'
      BY <2>6, <2>7
    <3> QED
      BY <1>1, <1>6, <2>7, <3>1, <3>2, <3>3, BufferClaims
  <2>9. Printing(g) <=> Printing(Top(t))
    BY <1>0, <1>2, <2>4 DEF Printing
  <2>10. FramePlace(g)
    BY <1>2, <1>4, <2>3, <2>4 DEF FramePlace
  <2>11. LoadOK(g)'
    <3>1. SUFFICES ASSUME g.kind = "load" PROVE ~preloading' /\ (g.option = "verbose" => Read("show_errors")')
      BY <2>4 DEF LoadOK
    <3> QED
      BY <1>1, <1>2, <2>4, <3>1 DEF LoadOK, Read
  <2> QED
    BY <1>1, <1>2, <1>3, <2>2, <2>4, <2>8, <2>9, <2>10, <2>11, GotoKeeps
<1> QED
  BY <1>7, <1>8

LEMMA BufCopyInv ==
  ASSUME MessagesInv, NEW t \in Talkers, BufCopy(t)
  PROVE  MessagesInv'
<1>0. PICK f, h, room, own, g :
        /\ f = Top(t) /\ h = Head(f.parts) /\ room = Room(f.start, h) /\ own = Cells(f.start, room)
        /\ g = [f EXCEPT !.pc = "put", !.parts = Tail(f.parts), !.start = 0]
  OBVIOUS
<1>1. /\ At(t, "copy")
      /\ out_buf' = [i \in 0 .. MAX_DELAY |-> IF i \in own THEN f.msg ELSE out_buf[i]]
      /\ pieces' = pieces \cup {<<f.start, room, f.msg>>}
      /\ Goto(t, g)
      /\ UNCHANGED <<preloading, loaded, opt, counts, shown, out_default, said>>
      /\ UNCHANGED <<out_len, recurse>>
  BY <1>0 DEF BufCopy, optionVars
<1>2. /\ frames[t] # << >> /\ f \in Frame /\ f.pc = "copy" /\ FramePlace(f) /\ LoadOK(f) /\ Printing(f)
  BY <1>0, <1>1, TopOK DEF Printing
<1>3. RestOK' /\ Onward
  BY <1>1, RestNow, RestSame
<1>4. /\ f.parts \in Seq(Nat) /\ f.parts # << >> /\ f.start \in Starts /\ f.start < MAX_DELAY
      /\ f.msg \in Nat
  BY <1>2, FrameFields DEF FramePlace, Parts
<1>5. h \in Nat /\ f.start \in Nat
  BY <1>0, <1>4 DEF Starts
<1>6. room \in Nat /\ \A c \in own : c \in Int /\ c >= f.start /\ c < MAX_DELAY
  BY <1>0, <1>4, <1>5, CellsSmall
<1>7. own = Owns(f)
  BY <1>0, <1>2 DEF Owns
<1>8. g \in Frame /\ g.pc = "put" /\ g.kind = f.kind /\ g.option = f.option
  <2>1. Tail(f.parts) \in Parts /\ "put" \in Stages /\ 0 \in Starts
    BY <1>4, MessagesAssumption DEF Parts, Stages, Starts
  <2> QED
    BY <1>0, <1>2, <2>1 DEF Frame
<1>9. Owns(g) = {}
  BY <1>8 DEF Owns
<1>10. PICK n \in Nat, m \in Nat :
          /\ n = m + 1 /\ n = Len(frames[t]) /\ n \in Calls(t) /\ Top(t) = frames[t][n]
          /\ Stays(t, n, m) /\ frames'[t][n] = g
  BY <1>1, <1>2, <1>8, GotoStays
<1>11. BufferOK'
  <2>1. FramesTyped /\ BufferOK
    BY InvParts
  <2>2. out_buf \in [0 .. MAX_DELAY -> Int] /\ out_buf[MAX_DELAY] \in {NUL, NEWLINE} /\ MAX_DELAY \in Nat
    BY <2>1, MessagesAssumption DEF BufferOK, LastIsNoText
  <2>3. out_buf' \in [0 .. MAX_DELAY -> Int]
    BY <1>1, <1>4, <2>2
  <2>4. \A c \in 0 .. MAX_DELAY : out_buf'[c] = IF c \in own THEN f.msg ELSE out_buf[c]
    BY <1>1
  <2>5. out_buf'[MAX_DELAY] \in {NUL, NEWLINE}
    BY <1>6, <2>2, <2>4
  <2>6. \A c \in 0 .. MAX_DELAY - 1 : c \notin own => out_buf'[c] = out_buf[c]
    BY <2>2, <2>4
  <2>7. PICK new : new = {<<f.start, room, f.msg>>}
    OBVIOUS
  <2>8. new \subseteq (Nat \X Nat \X Nat) /\ pieces' = pieces \cup new /\ \A p, q \in new : p = q
    BY <1>1, <1>4, <1>5, <1>6, <2>7
  <2>9. ASSUME NEW p \in new
        PROVE  Cells(p[1], p[2]) = own /\ \A c \in own : c < MAX_DELAY /\ out_buf'[c] = p[3]
    <3>1. p[1] = f.start /\ p[2] = room /\ p[3] = f.msg
      BY <2>7
    <3>2. \A c \in own : c \in 0 .. MAX_DELAY
      BY <1>5, <1>6, <2>2
    <3> QED
      BY <1>0, <1>6, <2>4, <3>1, <3>2
  <2>10. own = Owns(frames[t][n]) /\ Owns(frames'[t][n]) = {}
    BY <1>0, <1>7, <1>9, <1>10
  <2>11. \A p \in new : Cells(p[1], p[2]) = own /\ \A c \in own : c < MAX_DELAY /\ out_buf'[c] = p[3]
    BY <2>9
  <2>12. Writes(own, new)
    BY <1>1, <2>3, <2>5, <2>6, <2>8, <2>11 DEF Writes
  <2> QED
    BY <1>10, <2>1, <2>10, <2>12, BufferWrites
<1>12. Printing(g) <=> Printing(Top(t))
  BY <1>0, <1>2, <1>8 DEF Printing
<1>13. FramePlace(g)
  BY <1>2, <1>8 DEF FramePlace
<1>14. LoadOK(g)'
  <2>1. SUFFICES ASSUME g.kind = "load" PROVE ~preloading' /\ (g.option = "verbose" => Read("show_errors")')
    BY <1>8 DEF LoadOK
  <2> QED
    BY <1>1, <1>2, <1>8, <2>1 DEF LoadOK, Read
<1> QED
  BY <1>1, <1>2, <1>3, <1>8, <1>11, <1>12, <1>13, <1>14, GotoKeeps

LEMMA FlushInv ==
  ASSUME MessagesInv, NEW t \in Talkers, Flush(t)
  PROVE  MessagesInv'
<1>0. PICK f, count, more, g :
        /\ f = Top(t) /\ count = (IF out_len > MAX_DELAY THEN MAX_DELAY ELSE out_len)
        /\ more = (IF f.kind = "register" THEN MAX_DELAY ELSE 1)
        /\ g = [f EXCEPT !.pc = "flushed", !.start = count]
  OBVIOUS
<1>1. /\ At(t, "flush") /\ out_len' = out_len + more
      /\ out_buf' = [out_buf EXCEPT ![count] = NUL]
      /\ Goto(t, g)
      /\ UNCHANGED <<preloading, loaded, opt, counts, shown, out_default, said>>
      /\ UNCHANGED <<pieces, recurse>>
  BY <1>0 DEF Flush, optionVars
<1>2. /\ frames[t] # << >> /\ f \in Frame /\ f.pc = "flush" /\ FramePlace(f) /\ LoadOK(f) /\ ~Printing(f)
  BY <1>0, <1>1, TopOK DEF Printing
<1>3. RestOK' /\ Onward
  BY <1>1, RestNow, RestSame
<1>4. MAX_DELAY \in Nat /\ MAX_DELAY > 0 /\ out_len \in Nat
  BY MessagesAssumption, RestNow
<1>5. /\ count \in Starts /\ (count < MAX_DELAY => count = out_len) /\ count <= out_len
      /\ more \in Nat /\ more >= 1
  BY <1>0, <1>4 DEF Starts
<1>6. out_len' \in Nat /\ out_len' >= out_len /\ out_len < out_len'
  BY <1>1, <1>4, <1>5
<1>7. g \in Frame /\ g.pc = "flushed" /\ g.kind = f.kind /\ g.option = f.option /\ g.start = count
  BY <1>0, <1>2, <1>5 DEF Frame, Stages
<1>8. \A c \in Owns(g) : c \in Int /\ c >= out_len /\ c < out_len'
  <2>1. Owns(g) = {i \in {count} : i < MAX_DELAY}
    BY <1>7 DEF Owns
  <2> QED
    BY <1>4, <1>5, <1>6, <2>1
<1>9. PICK n \in Nat, m \in Nat :
          /\ n = m + 1 /\ n = Len(frames[t]) /\ n \in Calls(t) /\ Top(t) = frames[t][n]
          /\ Stays(t, n, m) /\ frames'[t][n] = g
  BY <1>1, <1>2, <1>7, GotoStays
<1>10. BufferOK'
  <2>1. FramesTyped /\ BufferOK
    BY InvParts
  <2>2. out_buf \in [0 .. MAX_DELAY -> Int] /\ out_buf[MAX_DELAY] \in {NUL, NEWLINE}
    BY <2>1 DEF BufferOK, LastIsNoText
  <2>3. out_buf' \in [0 .. MAX_DELAY -> Int]
    <3>1. NUL \in Int
      BY DEF NUL
    <3> QED
      BY <1>1, <2>2, <3>1
  <2>4. \A c \in 0 .. MAX_DELAY : out_buf'[c] = IF c = count THEN NUL ELSE out_buf[c]
    BY <1>1, <2>2
  <2>5. out_buf'[MAX_DELAY] \in {NUL, NEWLINE}
    BY <1>4, <2>2, <2>4
  <2>6. \A c \in 0 .. MAX_DELAY - 1 : c < out_len => out_buf'[c] = out_buf[c]
    BY <1>4, <1>5, <2>4 DEF Starts
  <2>7. \A c \in Owns(frames'[t][n]) : c \in Int /\ c >= out_len /\ c < out_len'
    BY <1>8, <1>9
  <2> QED
    BY <1>1, <1>6, <1>9, <2>1, <2>3, <2>5, <2>6, <2>7, BufferClaims
<1>11. Printing(g) <=> Printing(Top(t))
  BY <1>0, <1>2, <1>7 DEF Printing
<1>12. FramePlace(g)
  BY <1>2, <1>7 DEF FramePlace
<1>13. LoadOK(g)'
  <2>1. SUFFICES ASSUME g.kind = "load" PROVE ~preloading' /\ (g.option = "verbose" => Read("show_errors")')
    BY <1>7 DEF LoadOK
  <2> QED
    BY <1>1, <1>2, <1>7, <2>1 DEF LoadOK, Read
<1> QED
  BY <1>1, <1>2, <1>3, <1>7, <1>10, <1>11, <1>12, <1>13, GotoKeeps

LEMMA FlushedInv ==
  ASSUME MessagesInv, NEW t \in Talkers, Flushed(t)
  PROVE  MessagesInv'
<1>0. PICK f, g : f = Top(t) /\ g = [f EXCEPT !.pc = "gate", !.start = 0]
  OBVIOUS
<1>1. /\ At(t, "flushed")
      /\ IF f.kind = "register"
           THEN Return(t) /\ UNCHANGED <<out_buf, out_default>>
           ELSE /\ out_buf' = [out_buf EXCEPT ![f.start] = NEWLINE]
                /\ out_default' = "buf_stderr"
                /\ Goto(t, g)
      /\ UNCHANGED <<preloading, loaded, opt, counts, shown, said>>
      /\ UNCHANGED <<out_len, pieces, recurse>>
  BY <1>0 DEF Flushed, optionVars
<1>2. /\ frames[t] # << >> /\ f \in Frame /\ f.pc = "flushed" /\ FramePlace(f) /\ LoadOK(f) /\ ~Printing(f)
  BY <1>0, <1>1, TopOK DEF Printing
<1>3. RestOK' /\ Onward
  <2>1. out_default' \in Outputs
    BY <1>1, RestNow DEF Outputs
  <2>2. said' \in Nat
    BY <1>1, RestNow
  <2> QED
    BY <1>1, <2>1, <2>2, RestSame
<1>4. CASE f.kind = "register"
  <2>1. Return(t) /\ UNCHANGED <<out_buf, pieces, recurse>> /\ out_len' \in Nat /\ out_len' >= out_len
    BY <1>1, <1>4, RestNow
  <2> QED
    BY <1>0, <1>2, <1>3, <2>1, ReturnInv
<1>5. CASE f.kind # "register"
  <2>1. Goto(t, g) /\ out_buf' = [out_buf EXCEPT ![f.start] = NEWLINE]
    BY <1>1, <1>5
  <2>2. f.kind = "load"
    BY <1>2, <1>5 DEF FramePlace
  <2>3. g \in Frame /\ g.pc = "gate" /\ g.kind = f.kind /\ g.option = f.option
    <3>1. 0 \in Starts /\ "gate" \in Stages
      BY MessagesAssumption DEF Starts, Stages
    <3> QED
      BY <1>0, <1>2, <3>1 DEF Frame
  <2>4. Owns(g) = {} /\ ~Printing(g)
    BY <2>3 DEF Owns, Printing
  <2>5. PICK n \in Nat, m \in Nat :
          /\ n = m + 1 /\ n = Len(frames[t]) /\ n \in Calls(t) /\ Top(t) = frames[t][n]
          /\ Stays(t, n, m) /\ frames'[t][n] = g
    BY <1>2, <2>1, <2>3, GotoStays
  <2>6. BufferOK'
    <3>1. FramesTyped /\ BufferOK
      BY InvParts
    <3>2. out_buf \in [0 .. MAX_DELAY -> Int] /\ out_buf[MAX_DELAY] \in {NUL, NEWLINE} /\ MAX_DELAY \in Nat
      BY <3>1, MessagesAssumption DEF BufferOK, LastIsNoText
    <3>3. out_buf' \in [0 .. MAX_DELAY -> Int]
      <4>1. NEWLINE \in Int
        BY DEF NEWLINE
      <4> QED
        BY <2>1, <3>2, <4>1
    <3>4. \A c \in 0 .. MAX_DELAY : out_buf'[c] = IF c = f.start THEN NEWLINE ELSE out_buf[c]
      BY <2>1, <3>2
    <3>5. out_buf'[MAX_DELAY] \in {NUL, NEWLINE}
      BY <3>2, <3>4
    <3>6. PICK own : own = {i \in {f.start} : i < MAX_DELAY}
      OBVIOUS
    <3>7. own = Owns(f)
      BY <1>2, <3>6 DEF Owns
    <3>8. \A c \in 0 .. MAX_DELAY - 1 : c \notin own => out_buf'[c] = out_buf[c]
      BY <3>2, <3>4, <3>6
    <3>9. PICK new : new = {}
      OBVIOUS
    <3>10. /\ new \subseteq (Nat \X Nat \X Nat) /\ pieces' = pieces \cup new /\ (\A p, q \in new : p = q)
           /\ \A p \in new : Cells(p[1], p[2]) = own /\ \A c \in own : c < MAX_DELAY /\ out_buf'[c] = p[3]
      BY <1>1, <3>9
    <3>11. own = Owns(frames[t][n]) /\ Owns(frames'[t][n]) = {}
      BY <1>0, <2>4, <2>5, <3>7
    <3>12. Writes(own, new)
      BY <1>1, <3>3, <3>5, <3>8, <3>10 DEF Writes
    <3> QED
      BY <2>5, <3>1, <3>11, <3>12, BufferWrites
  <2>7. Printing(g) <=> Printing(Top(t))
    BY <1>0, <1>2, <2>4
  <2>8. FramePlace(g)
    BY <1>2, <2>2, <2>3 DEF FramePlace
  <2>9. LoadOK(g)'
    <3>1. ~preloading' /\ (g.option = "verbose" => Read("show_errors")')
      BY <1>1, <1>2, <2>2, <2>3 DEF LoadOK, Read
    <3> QED
      BY <2>3, <3>1 DEF LoadOK
  <2> QED
    BY <1>1, <1>2, <1>3, <2>1, <2>3, <2>6, <2>7, <2>8, <2>9, GotoKeeps
<1> QED
  BY <1>4, <1>5

-----------------------------------------------------------------------------
(* One step per operation: loading and registering an output function.      *)

LEMMA FlushFrame ==
  ASSUME NEW kind \in {"load", "register"}, NEW o \in Options,
         NEW f, f = [pc |-> "flush", kind |-> kind, len |-> 0, msg |-> 0, option |-> o, out |-> "none",
                     parts |-> << >>, start |-> 0]
  PROVE  /\ f \in Frame /\ f.pc = "flush" /\ f.kind = kind /\ f.option = o
         /\ Owns(f) = {} /\ ~Printing(f) /\ FramePlace(f)
<1>1. 0 \in Starts /\ << >> \in Parts
  BY MessagesAssumption DEF Starts, Parts
<1>2. kind \in Kinds /\ "flush" \in Stages /\ "none" \in Outputs
  BY DEF Stages, Kinds, Outputs
<1>3. f \in Frame
  BY <1>1, <1>2 DEF Frame
<1>4. f.pc = "flush" /\ f.kind = kind /\ f.option = o
  OBVIOUS
<1>5. Owns(f) = {} /\ ~Printing(f)
  BY <1>4 DEF Owns, Printing
<1>6. FramePlace(f)
  BY <1>4 DEF FramePlace
<1> QED
  BY <1>3, <1>4, <1>5, <1>6

LEMMA FlushBegins ==
  ASSUME FramesTyped, NEW t \in Talkers, frames[t] = << >>, NEW f \in Frame, frames' = [frames EXCEPT ![t] = <<f>>]
  PROVE  frames' = [frames EXCEPT ![t] = Append(frames[t], f)]
<1>1. Append(frames[t], f) = <<f>>
  OBVIOUS
<1> QED
  BY <1>1

LEMMA LoadOptionInv ==
  ASSUME MessagesInv, NEW t \in Talkers, LoadOption(t)
  PROVE  MessagesInv'
<1>0. PICK f, g, h : /\ f = Top(t) /\ g = [f EXCEPT !.pc = "gate", !.option = "verbose"]
                     /\ h = Message("message", 1, 0)
  OBVIOUS
<1>1. /\ At(t, "value") /\ f.kind = "load"
      /\ IF f.option = "show_errors" THEN Goto(t, g)
         ELSE IF opt["verbose"].value # 0 THEN Goto(t, h)
         ELSE Return(t)
      /\ loaded' = (f.option = "verbose")
      /\ UNCHANGED <<preloading, opt, counts, shown, out_default, said>>
      /\ UNCHANGED <<out_len, out_buf, pieces, recurse>>
  BY <1>0 DEF LoadOption, bufferVars
<1>2. /\ frames[t] # << >> /\ f \in Frame /\ f.pc = "value" /\ FramePlace(f) /\ LoadOK(f) /\ ~Printing(f)
      /\ f.option \in Options
  BY <1>0, <1>1, TopOK, FrameFields DEF Printing
<1>3. Onward
  BY <1>1 DEF Onward, Read
<1>4. RestOK'
  <2>1. RestOK
    BY InvParts
  <2>2. f.option = "verbose" => \A o \in Options : Read(o)
    BY <1>1, <1>2 DEF LoadOK, Options
  <2>3. LoadedOK'
    BY <1>1, <2>2 DEF LoadedOK, Read
  <2> QED
    BY <1>1, <2>1, <2>3 DEF RestOK, Limited
<1>5. out_len' \in Nat /\ out_len' >= out_len
  BY <1>1, RestNow
<1>6. CASE Goto(t, g) /\ f.option = "show_errors"
  <2>1. g \in Frame /\ g.pc = "gate" /\ g.kind = "load" /\ g.option = "verbose"
    BY <1>0, <1>1, <1>2 DEF Frame, Stages, Options
  <2>2. Owns(g) = {} /\ ~Printing(g)
    BY <2>1 DEF Owns, Printing
  <2>3. FramePlace(g)
    BY <2>1 DEF FramePlace
  <2>4. ~preloading /\ Read("show_errors")
    BY <1>1, <1>2, <1>6 DEF LoadOK
  <2>5. LoadOK(g)'
    BY <1>1, <2>1, <2>4 DEF LoadOK, Read
  <2>6. Printing(g) <=> Printing(Top(t))
    BY <1>0, <1>2, <2>2
  <2> QED
    BY <1>1, <1>2, <1>3, <1>4, <1>5, <1>6, <2>1, <2>2, <2>3, <2>5, <2>6, GotoInv
<1>7. CASE Goto(t, h)
  <2>1. h \in Frame /\ Owns(h) = {} /\ ~Printing(h) /\ FramePlace(h) /\ h.kind # "load"
    BY <1>0, MessageIs
  <2>2. LoadOK(h)'
    BY <2>1 DEF LoadOK
  <2>3. Printing(h) <=> Printing(Top(t))
    BY <1>0, <1>2, <2>1
  <2> QED
    BY <1>1, <1>2, <1>3, <1>4, <1>5, <1>7, <2>1, <2>2, <2>3, GotoInv
<1>8. CASE Return(t)
  BY <1>0, <1>1, <1>2, <1>3, <1>4, <1>5, <1>8, ReturnInv
<1> QED
  BY <1>1, <1>6, <1>7, <1>8

LEMMA LoadOptionsInv ==
  ASSUME MessagesInv, LoadOptions
  PROVE  MessagesInv'
<1>1. PICK f : f = [Message("load", 0, 0) EXCEPT !.pc = "flush", !.option = "show_errors"]
  OBVIOUS
<1>2. /\ frames[Main] = << >> /\ preloading' = FALSE /\ frames' = [frames EXCEPT ![Main] = <<f>>]
      /\ UNCHANGED <<loaded, opt, counts, shown, out_default, said>>
      /\ UNCHANGED <<out_buf, pieces, out_len, recurse>>
  BY <1>1 DEF LoadOptions, bufferVars
<1>3. /\ f \in Frame /\ f.pc = "flush" /\ f.kind = "load" /\ f.option = "show_errors"
      /\ Owns(f) = {} /\ ~Printing(f) /\ FramePlace(f)
  <2>1. f = [pc |-> "flush", kind |-> "load", len |-> 0, msg |-> 0, option |-> "show_errors",
             out |-> "none", parts |-> << >>, start |-> 0]
    BY <1>1 DEF Message
  <2> QED
    BY <2>1, FlushFrame DEF Options
<1>4. Main \in Talkers /\ FramesTyped
  BY MessagesAssumption, InvParts
<1>5. frames' = [frames EXCEPT ![Main] = Append(frames[Main], f)]
  BY <1>2, <1>3, <1>4, FlushBegins
<1>6. LoadOK(f)'
  BY <1>2, <1>3 DEF LoadOK
<1>7. Onward
  BY <1>2 DEF Onward, Read
<1>8. RestOK'
  <2>1. RestOK
    BY InvParts
  <2> QED
    BY <1>2, <2>1 DEF RestOK, Limited, LoadedOK, Read
<1> QED
  BY <1>2, <1>3, <1>4, <1>5, <1>6, <1>7, <1>8, PushInv

LEMMA RegisterInv ==
  ASSUME MessagesInv, NEW user \in BOOLEAN, Register(user)
  PROVE  MessagesInv'
<1>1. PICK f : f = [Message("register", 0, 0) EXCEPT !.pc = "flush"]
  OBVIOUS
<1>2. /\ frames[Main] = << >> /\ out_default' = (IF user THEN "user" ELSE "stderr")
      /\ IF user THEN frames' = [frames EXCEPT ![Main] = <<f>>] ELSE UNCHANGED frames
      /\ UNCHANGED <<preloading, loaded, opt, counts, shown, said>>
      /\ UNCHANGED <<out_buf, pieces, out_len, recurse>>
  BY <1>1 DEF Register, bufferVars
<1>3. RestOK' /\ Onward
  <2>1. out_default' \in Outputs /\ said' \in Nat
    BY <1>2, RestNow DEF Outputs
  <2> QED
    BY <1>2, <2>1, RestSame
<1>4. CASE user
  <2>1. /\ f \in Frame /\ f.kind = "register" /\ Owns(f) = {} /\ ~Printing(f) /\ FramePlace(f)
    <3>1. f = [pc |-> "flush", kind |-> "register", len |-> 0, msg |-> 0, option |-> "verbose",
               out |-> "none", parts |-> << >>, start |-> 0]
      BY <1>1 DEF Message
    <3> QED
      BY <3>1, FlushFrame DEF Options
  <2>2. Main \in Talkers /\ FramesTyped
    BY MessagesAssumption, InvParts
  <2>3. frames' = [frames EXCEPT ![Main] = Append(frames[Main], f)]
    BY <1>2, <1>4, <2>1, <2>2, FlushBegins
  <2>4. LoadOK(f)'
    BY <2>1 DEF LoadOK
  <2> QED
    BY <1>2, <1>3, <2>1, <2>2, <2>3, <2>4, PushInv
<1>5. CASE ~user
  BY <1>2, <1>3, <1>5, OutsideInv
<1> QED
  BY <1>4, <1>5

-----------------------------------------------------------------------------
(* The theorems.                                                            *)

LEMMA MessagesInitInv == MessagesInit => MessagesInv
<1> SUFFICES ASSUME MessagesInit PROVE MessagesInv
  OBVIOUS
<1> USE DEF MessagesInit
<1>1. MAX_DELAY \in Nat /\ MaxErrors \in Nat /\ NUL \in Int
  BY MessagesAssumption DEF NUL
<1>2. \A t \in Talkers : Calls(t) = {} /\ frames[t] = << >>
  BY DEF Calls
<1>3. RestOK
  <2>1. opt \in [Options -> OptionState]
    BY DEF OptionState
  <2>2. Limited
    BY <1>1 DEF Limited
  <2>3. LoadedOK
    BY DEF LoadedOK
  <2> QED
    BY <2>1, <2>2, <2>3 DEF RestOK, Outputs
<1>4. BufferOK
  <2>1. out_buf \in [0 .. MAX_DELAY -> Int] /\ out_buf[MAX_DELAY] = NUL
    BY <1>1
  <2>2. Apart /\ PiecesOK /\ PiecesApart
    BY <1>2 DEF Apart, PiecesOK, PiecesApart
  <2> QED
    BY <1>2, <2>1, <2>2 DEF BufferOK, LastIsNoText
<1>5. FramesTyped
  <2>1. << >> \in Seq(Frame)
    OBVIOUS
  <2> QED
    BY <2>1 DEF FramesTyped
<1>6. CallsOK /\ PrintsOK
  BY <1>2 DEF CallsOK, PrintsOK, PrintsOnce
<1> QED
  BY <1>3, <1>4, <1>5, <1>6, InvParts

LEMMA MessagesStepInv == MessagesInv /\ [MessagesNext]_messageVars => MessagesInv'
<1> SUFFICES ASSUME MessagesInv, [MessagesNext]_messageVars PROVE MessagesInv'
  OBVIOUS
<1>1. CASE UNCHANGED messageVars
  <2>1. /\ UNCHANGED <<frames, out_len, out_buf, pieces, recurse>>
        /\ UNCHANGED <<preloading, loaded, opt, counts, shown, out_default, said>>
    BY <1>1 DEF messageVars, optionVars, bufferVars
  <2>2. RestOK' /\ Onward
    BY <2>1, RestNow, RestSame
  <2> QED
    BY <2>1, <2>2, OutsideInv
<1>2. ASSUME NEW t \in Talkers, NEW kind \in Says[t], NEW len \in Lens, Begin(t, kind, len) PROVE MessagesInv'
  BY <1>2, BeginInv
<1>3. ASSUME NEW t \in Talkers, OptionGet(t) \/ OptionRestore(t) PROVE MessagesInv'
  BY <1>3, OptionGetInv, OptionRestoreInv
<1>4. ASSUME NEW t \in Talkers, Gate(t) \/ Count(t) PROVE MessagesInv'
  BY <1>4, GateInv, CountInv
<1>5. ASSUME NEW t \in Talkers, Emit(t) \/ Emitted(t) \/ PutElsewhere(t) PROVE MessagesInv'
  BY <1>5, EmitInv, EmittedInv, PutElsewhereInv
<1>6. ASSUME NEW t \in Talkers, BufCheck(t) \/ BufClaim(t) \/ BufCopy(t) PROVE MessagesInv'
  BY <1>6, BufCheckInv, BufClaimInv, BufCopyInv
<1>7. ASSUME NEW t \in Talkers, Flush(t) \/ Flushed(t) \/ LoadOption(t) PROVE MessagesInv'
  BY <1>7, FlushInv, FlushedInv, LoadOptionInv
<1>8. CASE LoadOptions
  BY <1>8, LoadOptionsInv
<1>9. CASE Quiet
  BY <1>1, <1>9 DEF Quiet
<1>10. ASSUME NEW o \in Options, NEW value \in 0 .. 1, OptionSet(o, value) \/ OptionSetDefault(o, value)
       PROVE  MessagesInv'
  BY <1>10, OptionSetInv
<1>11. ASSUME NEW user \in BOOLEAN, Register(user) PROVE MessagesInv'
  BY <1>11, RegisterInv
<1> QED
  BY <1>1, <1>2, <1>3, <1>4, <1>5, <1>6, <1>7, <1>8, <1>9, <1>10, <1>11 DEF MessagesNext

\* The calls of all threads and the cells they may write fit together, at any
\* depth of nested messages and whatever threads claim, copy and flush: nobody
\* writes to a cell of another, a thread prints one message and knows so, and
\* what was loaded has been read (pa_out_buf, pa_out_buf_flush, pa_vfprintf,
\* pa_option_init).
THEOREM MessagesInvariance == MessagesSpec => []MessagesInv
  BY MessagesInitInv, MessagesStepInv, PTL DEF MessagesSpec

\* Only one call of a thread prints, which is what recurse says.
LEMMA OnePrints ==
  ASSUME MessagesInv
  PROVE  OneMessagePrints
<1> SUFFICES ASSUME NEW t \in Talkers
             PROVE  LET printing == {i \in 1 .. Len(frames[t]) : frames[t][i].pc \in {"put", "claim", "copy"}}
                    IN Cardinality(printing) = IF recurse[t] THEN 1 ELSE 0
  BY DEF OneMessagePrints
<1>1. PICK printing : printing = {i \in 1 .. Len(frames[t]) : frames[t][i].pc \in {"put", "claim", "copy"}}
  OBVIOUS
<1>2. /\ \A i \in Calls(t) : Printing(frames[t][i]) => recurse[t]
      /\ \A i, j \in Calls(t) : Printing(frames[t][i]) /\ Printing(frames[t][j]) => i = j
      /\ recurse[t] => \E i \in Calls(t) : Printing(frames[t][i])
  BY DEF MessagesInv, PrintsOnce
<1>3. \A i : i \in printing <=> i \in Calls(t) /\ Printing(frames[t][i])
  BY <1>1 DEF Calls, Printing
<1>4. CASE recurse[t]
  <2>1. PICK i : i \in Calls(t) /\ Printing(frames[t][i])
    BY <1>2, <1>4
  <2>2. printing = {i}
    BY <1>2, <1>3, <2>1
  <2>3. Cardinality(printing) = 1
    BY <2>2, FS_Singleton
  <2> QED
    BY <1>1, <1>4, <2>3
<1>5. CASE ~recurse[t]
  <2>1. printing = {}
    BY <1>2, <1>3, <1>5
  <2>2. Cardinality(printing) = 0
    BY <2>1, FS_EmptySet
  <2> QED
    BY <1>1, <1>5, <2>2
<1> QED
  BY <1>4, <1>5

\* Every piece of text that was copied to the delayed buffer stays there, the
\* buffer always ends before its last character, a message of the output function
\* does not come back to it, and no more than one error and one warning above
\* max_errors is shown by count: for every number of threads, length of the
\* buffer, limit, and environment.
THEOREM MessagesSafe == MessagesSpec => []MessagesSound
<1>1. MessagesInv => MessagesSound
  <2> SUFFICES ASSUME MessagesInv PROVE MessagesSound
    OBVIOUS
  <2>1. BufferKept
    BY DEF MessagesInv, PiecesOK, PiecesApart, LastIsNoText, BufferKept
  <2>2. \A k \in DOMAIN shown : shown[k] <= MaxErrors + 1
    BY DEF MessagesInv, MessagesTypeOK, Limited
  <2>3. loaded => \A o \in Options : opt[o].init # UNINIT
    BY DEF MessagesInv, LoadedOK, Read
  <2> QED
    BY <2>1, <2>2, <2>3, OnePrints DEF MessagesSound
<1> QED
  BY <1>1, MessagesInvariance, PTL
=============================================================================
