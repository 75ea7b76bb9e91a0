------------------------------ MODULE UThreads ------------------------------
(***************************************************************************)
(* The user-level threads library of Ex02 (uthreads.cpp, thread.cpp).      *)
(*                                                                         *)
(* All threads run inside one kernel thread.  SIGVTALRM is blocked from    *)
(* the first to the last line of every API call and, by the kernel, while  *)
(* time_handler runs, so a call and a tick never overlap: each is one      *)
(* action.  A tick may fall between any two calls.  The one exception is   *)
(* uthread_terminate(0), which opens the mask again before exit(0): that   *)
(* call is two actions, and a tick may fall between them.                  *)
(*                                                                         *)
(* Threads are heap objects, because the lists hold thread* pointers, an   *)
(* id is reused as soon as its owner is gone, and an object outlives its   *)
(* removal from the lists.  A call that returns -1 changes nothing: it is  *)
(* a stuttering step and needs no action.                                  *)
(***************************************************************************)
EXTENDS Integers, Sequences, SequencesExt, FiniteSets

CONSTANTS
  Obj,             \* heap addresses a thread object can be allocated at
  NULL,            \* nullptr
  MAX_THREAD_NUM,  \* uthreads.h:9
  MaxInt,          \* an int holds 0..MaxInt and wraps; 2^32 - 1 in the source
  SleepArgs        \* arguments given to uthread_sleep

ASSUME UThreadsAssumption ==
  /\ NULL \notin Obj
  /\ MAX_THREAD_NUM \in Nat \ {0}
  /\ MaxInt \in Nat \ {0}
  /\ SleepArgs \subseteq 0..MaxInt

Ids == 0 .. MAX_THREAD_NUM - 1
States == {"READY", "RUNNING", "BLOCKED"}

VARIABLES
  ready_queue,      \* list of thread objects; the running thread stays at its head
  all_threads,      \* list of the live thread objects, in creation order
  available_id,     \* the ids flagged true, i.e. those taken by a live thread
  running_thread,
  thread_to_delete, \* a thread that terminated itself and is not freed yet
  d,                \* whether thread_to_delete has to be freed
  total_quantum,
  heap,             \* addresses at which an object is allocated
  id,               \* thread::_id
  state,            \* thread::_state
  asleep,           \* the objects whose _sleep flag is set
  time_to_sleep,    \* thread::_time_to_sleep
  quantum_counter,  \* thread::_quantum_counter
  saved,            \* objects whose _env comes from a sigsetjmp in a handler
  proc              \* the process: "running", "exiting", "exited" or "aborted"

lists   == <<ready_queue, all_threads, available_id>>
pending == <<thread_to_delete, d>>
fields  == <<id, state, asleep, time_to_sleep, quantum_counter, saved>>
vars    == <<lists, running_thread, pending, total_quantum, heap, fields, proc>>

Live == Range(all_threads)

Inc(n) == IF n = MaxInt THEN 0 ELSE n + 1
Dec(n) == IF n = 0 THEN MaxInt ELSE n - 1

(***************************************************************************)
(* Id table and list lookups.                                              *)
(***************************************************************************)
check_if_thread_exist(tid) == tid \in available_id

\* The first object of the list with that id; ids are unique (IdTable).
search_thread(tid) == CHOOSE t \in Live : id[t] = tid

\* Mutant of available_index: after the loop index is returned, not -1.
IndexAfterLoop ==
  {i \in 0..MAX_THREAD_NUM : i \notin available_id /\ 0 .. i-1 \subseteq available_id}

\* The first index flagged false; none (-1) if a live thread has each of them.
available_index == {i \in Ids \ available_id : 0 .. i-1 \subseteq available_id}

-----------------------------------------------------------------------------
(***************************************************************************)
(* The state uthread_init leaves behind: only the main thread, running.    *)
(***************************************************************************)
Init ==
  \E main \in Obj :
    /\ ready_queue = <<main>>
    /\ all_threads = <<main>>
    /\ available_id = {0}
    /\ running_thread = main
    /\ thread_to_delete = NULL
    /\ d = FALSE
    /\ total_quantum = 1
    /\ heap = {main}
    /\ id = [t \in Obj |-> 0]
    /\ state = [t \in Obj |-> IF t = main THEN "RUNNING" ELSE "READY"]
    /\ asleep = {}
    /\ time_to_sleep = [t \in Obj |-> 0]
    /\ quantum_counter = [t \in Obj |-> IF t = main THEN 1 ELSE 0]
    /\ saved = {}
    /\ proc = "running"

\* Mutant of Dispatch: d is left set after the pending thread is freed.
DispatchKeepingFlag(next, todel, del) ==
  /\ running_thread' = next
  /\ total_quantum' = Inc(total_quantum)
  /\ quantum_counter' = [quantum_counter EXCEPT ![next] = Inc(@)]
  /\ heap' = IF next \in saved' /\ del THEN heap \ {todel} ELSE heap
  /\ thread_to_delete' = IF next \in saved' /\ del THEN NULL ELSE todel
  /\ d' = del

\* Mutant of Dispatch: the counter is increased before running_thread changes.
DispatchCountingOld(next, todel, del) ==
  /\ running_thread' = next
  /\ total_quantum' = Inc(total_quantum)
  /\ quantum_counter' = [quantum_counter EXCEPT ![running_thread] = Inc(@)]
  /\ heap' = IF next \in saved' /\ del THEN heap \ {todel} ELSE heap
  /\ thread_to_delete' = IF next \in saved' /\ del THEN NULL ELSE todel
  /\ d' = (del /\ next \notin saved')

(***************************************************************************)
(* siglongjmp to next, which starts a quantum.  A context saved inside a   *)
(* handler resumes in the else branch after sigsetjmp, which frees the     *)
(* thread that terminated itself.  A thread that has never run jumps to    *)
(* its entry point instead and frees nothing.                              *)
(***************************************************************************)
Dispatch(next, todel, del) ==
  /\ running_thread' = next
  /\ total_quantum' = Inc(total_quantum)
  /\ quantum_counter' = [quantum_counter EXCEPT ![next] = Inc(@)]
  /\ IF next \in saved' /\ del
       THEN /\ heap' = heap \ {todel}
            /\ thread_to_delete' = NULL
            /\ d' = FALSE
       ELSE /\ thread_to_delete' = todel
            /\ d' = del
            /\ UNCHANGED heap

(***************************************************************************)
(* block_handler: the running thread leaves the queue, keeps newState, and *)
(* the next one in the queue runs.                                         *)
(***************************************************************************)
block_handler(newState) ==
  LET next == Head(Tail(ready_queue))
  IN  /\ ready_queue' = Tail(ready_queue)
      /\ state' = [state EXCEPT ![running_thread] = newState, ![next] = "RUNNING"]
      /\ saved' = saved \cup {running_thread}
      /\ Dispatch(next, thread_to_delete, d)
      /\ UNCHANGED <<all_threads, available_id, id, proc>>

(***************************************************************************)
(* sleep_check: one quantum less for every sleeping thread; those that     *)
(* reach zero wake up and, unless blocked, are queued in list order.       *)
(***************************************************************************)
Sleepers == asleep \cap Live
Expiring == {t \in Sleepers : Dec(time_to_sleep[t]) = 0}
Woken    == {t \in Expiring : state[t] = "READY"}

ListedBefore(t, u) ==
  \E i, j \in DOMAIN all_threads : i < j /\ all_threads[i] = t /\ all_threads[j] = u

WakeOrders ==
  {w \in Bijection(1..Cardinality(Woken), Woken) :
     \A i, j \in DOMAIN w : i < j => ListedBefore(w[i], w[j])}

\* Mutant of sleep_check: set_sleep(false) is missing.
SleepCheckKeepingFlag ==
  /\ UNCHANGED asleep
  /\ time_to_sleep' =
       [t \in Obj |-> IF t \in Sleepers THEN Dec(time_to_sleep[t]) ELSE time_to_sleep[t]]

sleep_check ==
  /\ asleep' = asleep \ Expiring
  /\ time_to_sleep' =
       [t \in Obj |-> IF t \in Sleepers THEN Dec(time_to_sleep[t]) ELSE time_to_sleep[t]]

\* Mutant of time_handler: the running thread is requeued second, not last.
TickRequeuingSecond ==
  /\ proc = "running"
  /\ sleep_check
  /\ \E w \in WakeOrders :
       LET rest  == Tail(ready_queue \o w)
           queue == IF rest = <<>> THEN <<running_thread>>
                    ELSE <<Head(rest), running_thread>> \o Tail(rest)
           next  == Head(queue)
       IN  /\ ready_queue' = queue
           /\ state' = [state EXCEPT ![running_thread] = "READY", ![next] = "RUNNING"]
           /\ saved' = saved \cup {running_thread}
           /\ Dispatch(next, thread_to_delete, d)
  /\ UNCHANGED <<all_threads, available_id, id, proc>>

(***************************************************************************)
(* time_handler: the end of a quantum.  The running thread goes to the     *)
(* back of the queue, behind the threads that just woke up.                *)
(***************************************************************************)
time_handler ==
  /\ proc = "running"
  /\ sleep_check
  /\ \E w \in WakeOrders :
       LET queue == Append(Tail(ready_queue \o w), running_thread)
           next  == Head(queue)
       IN  /\ ready_queue' = queue
           /\ state' = [state EXCEPT ![running_thread] = "READY", ![next] = "RUNNING"]
           /\ saved' = saved \cup {running_thread}
           /\ Dispatch(next, thread_to_delete, d)
  /\ UNCHANGED <<all_threads, available_id, id, proc>>

-----------------------------------------------------------------------------
(***************************************************************************)
(* The API, called by the running thread.                                  *)
(***************************************************************************)
uthread_spawn ==
  /\ proc = "running"
  /\ \E index \in available_index, t \in Obj \ heap :
       /\ heap' = heap \cup {t}
       /\ id' = [id EXCEPT ![t] = index]
       /\ state' = [state EXCEPT ![t] = "READY"]
       /\ asleep' = asleep \ {t}
       /\ time_to_sleep' = [time_to_sleep EXCEPT ![t] = 0]
       /\ quantum_counter' = [quantum_counter EXCEPT ![t] = 0]
       /\ saved' = saved \ {t}
       /\ ready_queue' = Append(ready_queue, t)
       /\ all_threads' = Append(all_threads, t)
       /\ available_id' = available_id \cup {index}
  /\ UNCHANGED <<running_thread, pending, total_quantum, proc>>

\* Mutant of TerminateSelf: set_id_value(tid, false) is missing.
TerminateSelfKeepingId ==
  LET next == Head(Tail(ready_queue))
  IN  /\ ready_queue' = Tail(ready_queue)
      /\ all_threads' = RemoveFirst(all_threads, running_thread)
      /\ state' = [state EXCEPT ![next] = "RUNNING"]
      /\ UNCHANGED <<available_id, id, asleep, time_to_sleep, saved, proc>>
      /\ Dispatch(next, running_thread, TRUE)

\* terminate_handler: the context is abandoned, not saved, and freeing the
\* object (and the stack this code still runs on) is left to whoever is next.
TerminateSelf ==
  LET next == Head(Tail(ready_queue))
  IN  /\ available_id' = available_id \ {id[running_thread]}
      /\ ready_queue' = Tail(ready_queue)
      /\ all_threads' = RemoveFirst(all_threads, running_thread)
      /\ state' = [state EXCEPT ![next] = "RUNNING"]
      /\ UNCHANGED <<id, asleep, time_to_sleep, saved, proc>>
      /\ Dispatch(next, running_thread, TRUE)

\* The erased list node is read once more for the pointer to delete.  The
\* allocator of the build leaves a freed node's third word in place, so the
\* pointer read is the one erased.
TerminateOther(tid) ==
  LET t == search_thread(tid)
  IN  /\ available_id' = available_id \ {tid}
      /\ ready_queue' = RemoveFirst(ready_queue, t)
      /\ all_threads' = RemoveFirst(all_threads, t)
      /\ heap' = heap \ {t}
      /\ UNCHANGED <<running_thread, pending, total_quantum, fields, proc>>

\* thread_cleanup, then the signals are unblocked; exit(0) is still to come.
TerminateMain ==
  /\ heap' = heap \ Live
  /\ all_threads' = <<>>
  /\ ready_queue' = <<>>
  /\ proc' = "exiting"
  /\ UNCHANGED <<available_id, running_thread, pending, total_quantum, fields>>

uthread_terminate(tid) ==
  /\ proc = "running"
  /\ check_if_thread_exist(tid)
  /\ \/ tid = 0 /\ TerminateMain
     \/ tid # 0 /\ id[running_thread] = tid /\ TerminateSelf
     \/ tid # 0 /\ id[running_thread] # tid /\ TerminateOther(tid)

\* exit(0)
Exit ==
  /\ proc = "exiting"
  /\ proc' = "exited"
  /\ UNCHANGED <<lists, running_thread, pending, total_quantum, heap, fields>>

\* A tick between unblock_signals(true) and exit(0): time_handler pops the
\* front of an empty std::list, which hands the list's static header to free().
TickWhileExiting ==
  /\ proc = "exiting"
  /\ proc' = "aborted"
  /\ UNCHANGED <<lists, running_thread, pending, total_quantum, heap, fields>>

BlockSelf ==
  /\ block_handler("BLOCKED")
  /\ UNCHANGED <<asleep, time_to_sleep>>

BlockOther(t) ==
  /\ state[t] = "READY"
  /\ ready_queue' = RemoveFirst(ready_queue, t)
  /\ state' = [state EXCEPT ![t] = "BLOCKED"]
  /\ UNCHANGED <<all_threads, available_id, running_thread, pending, total_quantum,
                 heap, id, asleep, time_to_sleep, quantum_counter, saved, proc>>

\* Mutant of uthread_block: nothing keeps the main thread from being blocked.
BlockAny(tid) ==
  /\ proc = "running"
  /\ check_if_thread_exist(tid)
  /\ LET t == search_thread(tid)
     IN  \/ t = running_thread /\ Len(ready_queue) > 1 /\ BlockSelf
         \/ t # running_thread /\ BlockOther(t)

uthread_block(tid) ==
  /\ proc = "running"
  /\ tid # 0 /\ check_if_thread_exist(tid)
  /\ LET t == search_thread(tid)
     IN  \/ t = running_thread /\ BlockSelf
         \/ t # running_thread /\ BlockOther(t)

\* Mutant of uthread_resume: get_sleep() is not asked before queueing.
ResumeAlwaysQueueing(tid) ==
  /\ proc = "running"
  /\ check_if_thread_exist(tid)
  /\ LET t == search_thread(tid)
     IN  /\ state[t] = "BLOCKED"
         /\ state' = [state EXCEPT ![t] = "READY"]
         /\ ready_queue' = Append(ready_queue, t)
  /\ UNCHANGED <<all_threads, available_id, running_thread, pending, total_quantum,
                 heap, id, asleep, time_to_sleep, quantum_counter, saved, proc>>

\* Mutant of uthread_resume: the thread is queued next instead of last.
ResumeAtFront(tid) ==
  /\ proc = "running"
  /\ check_if_thread_exist(tid)
  /\ LET t == search_thread(tid)
     IN  /\ state[t] = "BLOCKED"
         /\ state' = [state EXCEPT ![t] = "READY"]
         /\ ready_queue' = IF t \in asleep THEN ready_queue ELSE InsertAt(ready_queue, 2, t)
  /\ UNCHANGED <<all_threads, available_id, running_thread, pending, total_quantum,
                 heap, id, asleep, time_to_sleep, quantum_counter, saved, proc>>

uthread_resume(tid) ==
  /\ proc = "running"
  /\ check_if_thread_exist(tid)
  /\ LET t == search_thread(tid)
     IN  /\ state[t] = "BLOCKED"
         /\ state' = [state EXCEPT ![t] = "READY"]
         /\ ready_queue' = IF t \in asleep THEN ready_queue ELSE Append(ready_queue, t)
  /\ UNCHANGED <<all_threads, available_id, running_thread, pending, total_quantum,
                 heap, id, asleep, time_to_sleep, quantum_counter, saved, proc>>

uthread_sleep(num_quantums) ==
  /\ proc = "running"
  /\ id[running_thread] # 0
  /\ asleep' = asleep \cup {running_thread}
  /\ time_to_sleep' = [time_to_sleep EXCEPT ![running_thread] = num_quantums]
  /\ block_handler("READY")

-----------------------------------------------------------------------------
Terminated == proc \in {"exited", "aborted"} /\ UNCHANGED vars

Next ==
  \/ time_handler
  \/ uthread_spawn
  \/ \E tid \in Ids : uthread_terminate(tid) \/ uthread_block(tid) \/ uthread_resume(tid)
  \/ \E n \in SleepArgs : uthread_sleep(n)
  \/ Exit
  \/ TickWhileExiting
  \/ Terminated

(***************************************************************************)
(* ITIMER_VIRTUAL is periodic and counts the CPU time of the process, so a *)
(* tick comes if the running thread keeps running.  block_handler and      *)
(* terminate_handler restart the timer, but a quantum of the main thread   *)
(* ends only with a tick: it can neither block, sleep nor terminate        *)
(* without ending the process, and it is always queued.                    *)
(***************************************************************************)
Spec == Init /\ [][Next]_vars
FairSpec == Spec /\ WF_vars(time_handler) /\ WF_vars(Exit)

-----------------------------------------------------------------------------
(* Properties. *)

\* Types of the library's globals and of the thread fields (uthreads.cpp:14-21,
\* thread.h:15-29).  In particular every id is an index of the id table, also when
\* a spawn finds the table full (available_index, uthreads.cpp:86-97).
TypeOK ==
  /\ ready_queue \in Seq(Obj)
  /\ all_threads \in Seq(Obj)
  /\ available_id \subseteq Ids
  /\ running_thread \in Obj
  /\ thread_to_delete \in Obj \cup {NULL}
  /\ d \in BOOLEAN
  /\ total_quantum \in 0..MaxInt
  /\ heap \subseteq Obj
  /\ id \in [Obj -> Ids]
  /\ state \in [Obj -> States]
  /\ asleep \subseteq Obj
  /\ time_to_sleep \in [Obj -> 0..MaxInt]
  /\ quantum_counter \in [Obj -> 0..MaxInt]
  /\ saved \subseteq Obj
  /\ proc \in {"running", "exiting", "exited", "aborted"}

Waiting == {t \in Live : state[t] = "READY" /\ t \notin asleep}

\* The queue every switch pops blindly: its head is the running thread and its
\* tail lists, once each, exactly the threads that are READY and not asleep, so
\* no runnable thread is forgotten and no blocked or sleeping one can run
\* (block_handler, terminate_handler, time_handler, sleep_check, resume).
QueueDiscipline ==
  proc = "running" =>
    /\ ready_queue # <<>> /\ Head(ready_queue) = running_thread
    /\ IsInjective(ready_queue)
    /\ state[running_thread] = "RUNNING" /\ running_thread \notin asleep
    /\ Range(ready_queue) = Waiting \cup {running_thread}

\* Live threads have distinct ids, and an id is flagged taken exactly while a
\* live thread has it: search_thread cannot return nullptr once
\* check_if_thread_exist has said yes (uthreads.cpp:403-422, 445-452).
IdTable ==
  proc = "running" =>
    /\ IsInjective(all_threads)
    /\ \A t, u \in Live : id[t] = id[u] => t = u
    /\ available_id = {id[t] : t \in Live}

\* No list, global or stack in use refers to a freed object: in particular a
\* thread that terminates itself is not freed while its stack is running, and
\* the thread waiting to be freed is in no list (terminate_handler).
NoDanglingThread ==
  proc = "running" =>
    /\ Range(ready_queue) \subseteq Live
    /\ Live \subseteq heap
    /\ d => thread_to_delete \in heap \ Live
    /\ ~d => thread_to_delete = NULL

\* The main thread is always in the queue and, unless it runs, has a saved
\* context: so popping the running thread never empties the queue, and nothing
\* jumps to the null entry point main was constructed with (uthreads.cpp:279).
MainStaysQueued ==
  proc = "running" =>
    \E t \in Range(ready_queue) :
      /\ id[t] = 0
      /\ t # running_thread => t \in saved

\* Who keeps waiting keeps its place or moves forward, and a new quantum moves it.
QueueStep ==
  \A i \in 2..Len(ready_queue), j \in 1..Len(ready_queue') :
    ready_queue'[j] = ready_queue[i] =>
      /\ j <= i
      /\ total_quantum' # total_quantum => j < i

\* Round robin: a waiting thread never moves back in the queue, and every new
\* quantum, whatever started it, moves it at least one place forward.
NoOvertaking == [][QueueStep]_vars

\* Every new quantum is counted once in total_quantum and once in the counter
\* of the thread it belongs to, and no thread runs without a quantum being
\* counted (uthreads.h:106-126).
QuantumStep ==
  LET next == running_thread'
  IN  IF total_quantum' # total_quantum
        THEN quantum_counter' = [quantum_counter EXCEPT ![next] = Inc(@)]
        ELSE /\ next = running_thread
             /\ \A t \in heap : quantum_counter'[t] = quantum_counter[t]

QuantumAccounting == [][QuantumStep]_vars

\* A thread waiting in the queue is eventually run, or leaves the queue because
\* it is blocked or terminated or the process ends.
WaitingEventuallyRuns ==
  \A t \in Obj : t \in Range(ready_queue) ~> (t = running_thread \/ t \notin Range(ready_queue))

\* A sleeping thread eventually wakes up, is terminated, or the process ends.
SleeperEventuallyWakes ==
  \A t \in Obj : t \in Live \cap asleep ~> t \notin Live \cap asleep

\* uthreads.h:89: the number of quantums slept refers to the number of times a
\* new quantum starts, regardless of the reason.
SleepCountsEveryQuantum ==
  [][total_quantum' # total_quantum =>
       \A t \in Sleepers \cap Live' : time_to_sleep'[t] = Dec(time_to_sleep[t])]_vars

\* uthreads.h:83: uthread_sleep blocks the thread for num_quantums quantums, so
\* what is left to sleep never exceeds what can be asked for.
SleepIsBounded ==
  \A t \in Live \cap asleep : \E n \in SleepArgs : time_to_sleep[t] <= n

\* uthreads.h:49: all the resources the library allocated for a terminated
\* thread are released; at most the last one waits for the next switch.
NothingLeaks ==
  proc = "running" => heap = Live \cup (IF d THEN {thread_to_delete} ELSE {})

\* uthreads.h:50-51: terminating the main thread ends the process using exit(0).
MainTerminationExits == proc # "aborted"
=============================================================================
