------------------------------- MODULE Process -------------------------------
(***************************************************************************)
(* The process and its threads (init.c): one thread initialises the        *)
(* process while others wait, each thread gets a default heap, a           *)
(* background worker purges memory, and the end of the process stops the   *)
(* worker before it releases memory.                                       *)
(*                                                                         *)
(* Either the loader of the library runs first, in the main thread, or     *)
(* there is none and the first thread that allocates initialises.          *)
(***************************************************************************)
EXTENDS Integers, FiniteSets

CONSTANTS
  Clients,   \* threads of the program
  Worker,    \* the background worker
  NoThread,  \* thread id 0
  MaxCount,  \* bound: a thread that finds no memory for its heap is counted again
  Loader     \* the thread that loads the library, if there is a loader

ASSUME ProcessAssumption ==
  /\ IsFiniteSet(Clients) /\ Loader \in Clients /\ MaxCount \in Nat
  /\ Worker \notin Clients /\ NoThread \notin Clients \cup {Worker}

Procs == Clients \cup {Worker}

VARIABLES
  loading,          \* the loader has still to run: nothing else has started
  background,       \* the option purge_background
  destroy,          \* the option destroy_on_exit
  process_init_state, process_init_thread,
  is_initialized,   \* _pa_process_is_initialized
  tls_initialized,
  main_thread,      \* _pa_heap_main.thread_id
  default,          \* _pa_heap_default of each thread: "empty", "main" or "own"
  thread_count,
  worker_running,   \* pa_background_thread_running
  process_done, done_started,
  destroyed,        \* the memory of all heaps and arenas has been released
  main_done,        \* the main thread has called pa_thread_done
  at                \* where each thread is

initVars == <<process_init_state, process_init_thread, is_initialized, tls_initialized>>
doneVars == <<worker_running, process_done, done_started, destroyed>>
heapVars == <<main_thread, default, thread_count, main_done>>
processVars == <<loading, background, destroy, initVars, doneVars, heapVars, at>>

ProcessInit ==
  /\ loading \in BOOLEAN /\ background \in BOOLEAN /\ destroy \in BOOLEAN
  /\ process_init_state = 0 /\ process_init_thread = NoThread
  /\ is_initialized = FALSE /\ tls_initialized = FALSE
  /\ main_thread = NoThread
  /\ default = [t \in Procs |-> "empty"]
  /\ thread_count = 1 /\ main_done = FALSE
  /\ worker_running = FALSE /\ process_done = FALSE /\ done_started = FALSE /\ destroyed = FALSE
  /\ at = [t \in Procs |-> IF t = Worker THEN "none" ELSE "idle"]

Move(t, from, to) == at[t] = from /\ at' = [at EXCEPT ![t] = to]
IsMainThread(t) == main_thread \in {NoThread, t}        \* _pa_is_main_thread
-----------------------------------------------------------------------------
(* Initialisation of the process.                                           *)

\* pa_process_setup_auto_thread_done and pa_heap_main_init: the thread that gets
\* here first has the main heap.
SetupMain(t) ==
  /\ tls_initialized' = TRUE
  /\ default' = IF tls_initialized THEN default ELSE [default EXCEPT ![t] = "main"]
  /\ main_thread' = IF main_thread = NoThread THEN t ELSE main_thread

\* _pa_auto_process_init, up to its call of pa_process_init; options are read.
Load ==
  /\ loading /\ Move(Loader, "idle", "init")
  /\ loading' = FALSE
  /\ SetupMain(Loader)
  /\ UNCHANGED <<background, destroy, process_init_state, process_init_thread, is_initialized, doneVars,
                 thread_count, main_done>>

\* pa_thread_init by a thread that allocates first (the empty heap sends it to
\* pa_malloc_generic).
ThreadInit(t) ==
  /\ ~loading /\ default[t] = "empty" /\ Move(t, "idle", "init")
  /\ thread_count <= MaxCount
  /\ UNCHANGED <<loading, background, destroy, initVars, doneVars, heapVars>>

\* pa_process_init: done, or by this very thread, or the state is swapped from
\* 0 to 1 by the thread that then initialises, while others wait.
InitCheck(t) ==
  /\ Move(t, "init", IF process_init_state = 2 \/ process_init_thread = t THEN "heap" ELSE "swap")
  /\ UNCHANGED <<loading, background, destroy, initVars, doneVars, heapVars>>

InitSwap(t) ==
  /\ Move(t, "swap", IF process_init_state = 0 THEN "own" ELSE "wait")
  /\ process_init_state' = IF process_init_state = 0 THEN 1 ELSE process_init_state
  /\ UNCHANGED <<loading, background, destroy, process_init_thread, is_initialized, tls_initialized, doneVars, heapVars>>

InitWait(t) ==
  /\ process_init_state = 2 /\ Move(t, "wait", "heap")
  /\ UNCHANGED <<loading, background, destroy, initVars, doneVars, heapVars>>

InitOwn(t) ==
  /\ Move(t, "own", "setup")
  /\ process_init_thread' = t
  /\ UNCHANGED <<loading, background, destroy, process_init_state, is_initialized, tls_initialized, doneVars, heapVars>>

\* Its pa_thread_init then gives the thread a heap, if the loader has taken the
\* main heap before; the reservation of memory by options is in Arena.
InitSetup(t) ==
  /\ Move(t, "setup", "heap")
  /\ is_initialized' = TRUE
  /\ SetupMain(t)
  /\ UNCHANGED <<loading, background, destroy, process_init_state, process_init_thread, doneVars, thread_count, main_done>>

\* Mutant of CreateWorker: the process counts as initialised before the worker
\* is known to run.
CreateWorkerPublished(t) ==
  /\ at[t] = "create"
  /\ at' = [at EXCEPT ![t] = "flag", ![Worker] = "check"]
  /\ process_init_state' = 2
  /\ UNCHANGED <<loading, background, destroy, process_init_thread, is_initialized, tls_initialized, doneVars, heapVars>>

\* pthread_create, which may fail
CreateWorker(t) ==
  /\ at[t] = "create"
  /\ at' \in {[at EXCEPT ![t] = "flag", ![Worker] = "check"], [at EXCEPT ![t] = "publish"]}
  /\ UNCHANGED <<loading, background, destroy, initVars, doneVars, heapVars>>

FlagWorker(t) ==
  /\ Move(t, "flag", "publish")
  /\ worker_running' = TRUE
  /\ UNCHANGED <<loading, background, destroy, initVars, process_done, done_started, destroyed, heapVars>>

Publish(t) ==
  /\ Move(t, "publish", "heap")
  /\ process_init_state' = 2
  /\ UNCHANGED <<loading, background, destroy, process_init_thread, is_initialized, tls_initialized, doneVars, heapVars>>
-----------------------------------------------------------------------------
(* Threads.                                                                 *)

\* Where a thread goes on when it has a heap: in the setup of the process, or as
\* it was.
Ready(t) ==
  IF process_init_state = 1 /\ process_init_thread = t THEN IF background THEN "create" ELSE "publish"
  ELSE IF t = Worker THEN "purge" ELSE "idle"

\* _pa_thread_heap_init: the thread has a heap, or gets the main heap, or one of
\* its own, for which there may be no memory; the thread is counted all the same.
ThreadHeapInit(t) ==
  /\ at[t] = "heap"
  /\ IF default[t] # "empty"
       THEN /\ at' = [at EXCEPT ![t] = Ready(t)]
            /\ UNCHANGED <<main_thread, default>>
       ELSE /\ at' = [at EXCEPT ![t] = "count"]
            /\ IF IsMainThread(t)
                 THEN /\ main_thread' = t
                      /\ default' = [default EXCEPT ![t] = "main"]
                 ELSE /\ \/ default' = [default EXCEPT ![t] = "own"]
                         \/ t # Worker /\ default' = default
                      /\ UNCHANGED main_thread
  /\ UNCHANGED <<loading, background, destroy, initVars, doneVars, thread_count, main_done>>

CountThread(t) ==
  /\ Move(t, "count", Ready(t))
  /\ thread_count' = thread_count + 1
  /\ UNCHANGED <<loading, background, destroy, initVars, doneVars, main_thread, default, main_done>>

\* _pa_thread_done, called by the program or at the end of a thread
ThreadDone(t) ==
  /\ default[t] # "empty" /\ Move(t, "idle", "uncounted")
  /\ default[t] = "main" => ~main_done
  /\ thread_count' = thread_count - 1
  /\ main_done' = (main_done \/ default[t] = "main")
  /\ UNCHANGED <<loading, background, destroy, initVars, doneVars, main_thread, default>>

\* _pa_thread_heap_done: the heap is abandoned and its memory freed, but for the
\* main heap, which stays.
ThreadHeapDone(t) ==
  /\ Move(t, "uncounted", IF t = Worker THEN "exited" ELSE "idle")
  /\ default' = [default EXCEPT ![t] = IF IsMainThread(t) THEN "main" ELSE "empty"]
  /\ UNCHANGED <<loading, background, destroy, initVars, doneVars, main_thread, thread_count, main_done>>

\* pa_background_purge_worker: until the process ends, get a heap and purge.
WorkerCheck ==
  /\ IF done_started /\ default[Worker] # "empty"
       THEN /\ Move(Worker, "check", "uncounted")        \* its key's destructor
            /\ thread_count' = thread_count - 1
       ELSE /\ Move(Worker, "check", IF done_started THEN "exited" ELSE "init")
            /\ UNCHANGED thread_count
  /\ UNCHANGED <<loading, background, destroy, initVars, doneVars, main_thread, default, main_done>>

WorkerPurge ==
  /\ Move(Worker, "purge", "check")
  /\ UNCHANGED <<loading, background, destroy, initVars, doneVars, heapVars>>
-----------------------------------------------------------------------------
(* The end of the process, by a thread that has used the allocator or its   *)
(* loader.                                                                  *)

ProcessDone(t) ==
  /\ is_initialized /\ ~process_done /\ default[t] # "empty"
  /\ Move(t, "idle", "join")
  /\ process_done' = TRUE /\ done_started' = TRUE
  /\ UNCHANGED <<loading, background, destroy, initVars, worker_running, destroyed, heapVars>>

\* pthread_join, if the worker is known to run
JoinWorker(t) ==
  /\ Move(t, "join", "release")
  /\ worker_running => at[Worker] = "exited"
  /\ worker_running' = FALSE
  /\ UNCHANGED <<loading, background, destroy, initVars, process_done, done_started, destroyed, heapVars>>

\* The last collection, and the forced release of all memory
ReleaseAll(t) ==
  /\ Move(t, "release", "over")
  /\ destroyed' = destroy
  /\ UNCHANGED <<loading, background, destroy, initVars, worker_running, process_done, done_started, heapVars>>

\* The process has ended; threads that still run are not waited for.
Ended ==
  /\ \E t \in Clients : at[t] = "over"
  /\ UNCHANGED processVars

ProcessNext ==
  \/ Load \/ Ended \/ WorkerCheck \/ WorkerPurge
  \/ \E t \in Clients : ThreadInit(t) \/ ThreadDone(t) \/ ProcessDone(t) \/ JoinWorker(t) \/ ReleaseAll(t)
  \/ \E t \in Procs :
       \/ InitCheck(t) \/ InitSwap(t) \/ InitWait(t) \/ InitOwn(t) \/ InitSetup(t)
       \/ CreateWorker(t) \/ FlagWorker(t) \/ Publish(t)
       \/ ThreadHeapInit(t) \/ CountThread(t) \/ ThreadHeapDone(t)
-----------------------------------------------------------------------------
(* Properties.                                                              *)

\* No thread has a heap before the process is initialised, except the one that
\* initialises (or loads) it.
NobodyEarly ==
  \A t \in Procs : at[t] \in {"heap", "count", "purge"} \/ default[t] # "empty" =>
    process_init_state = 2 \/ t = process_init_thread \/ t = main_thread

\* The main heap, which is not thread safe, is the default heap of one thread.
OneMainHeap == \A t \in Procs : default[t] = "main" => t = main_thread

\* The process is set up once and taken down safely: threads get a heap only
\* after initialisation, the main heap belongs to one thread, whichever
\* initialised, the worker has ended when all memory is released (and nobody
\* releases it while the worker may still start), and the count of threads
\* covers the heaps of threads, so that no thread is taken for the only one.
LifecycleSafe ==
  /\ NobodyEarly
  /\ OneMainHeap
  /\ destroyed => at[Worker] \in {"none", "exited"}
  /\ Cardinality({t \in Procs : default[t] = "own" /\ at[t] \notin {"count", "uncounted"}}) <= thread_count
=============================================================================
