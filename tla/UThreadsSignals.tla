--------------------------- MODULE UThreadsSignals ---------------------------
(***************************************************************************)
(* The threads library step by step, with the signal mask that makes its   *)
(* calls atomic (uthreads.cpp, thread.cpp).  A step is a statement that    *)
(* changes a structure, or a few neighbouring ones under a closed mask.    *)
(*                                                                         *)
(* UThreads takes every call and every tick as one action.  Here a call    *)
(* blocks SIGVTALRM, changes one structure after the other and unblocks    *)
(* the signal; the timer may raise it between any two of these steps; it   *)
(* stays pending while it is blocked, and is delivered before the running  *)
(* thread's next instruction once it is not.  A switch restores the mask   *)
(* that was saved with the context, so the mask is part of what a thread   *)
(* resumes.  The steps are shown to add up to the actions of UThreads.     *)
(***************************************************************************)
EXTENDS UThreads

VARIABLES
  blocked,   \* whether SIGVTALRM is in the signal mask of the process
  pending_tick, \* a SIGVTALRM was raised and is not delivered yet
  masked,    \* the objects whose _env has SIGVTALRM in its saved mask
  at,        \* the next statement of the running thread
  call,      \* the API call it is in, or NoCall
  before     \* auxiliary: the library's state when the call or tick began

signals == <<blocked, pending_tick, masked>>
control == <<at, call, before>>
allVars == <<vars, signals, control>>

NoCall == [op |-> "none"]
Calls ==
  [op : {"spawn", "get"}] \cup [op : {"sleep"}, n : SleepArgs]
  \cup [op : {"terminate", "block", "resume"}, tid : Ids]

Library ==
  [ready_queue |-> ready_queue, all_threads |-> all_threads, available_id |-> available_id,
   running_thread |-> running_thread, thread_to_delete |-> thread_to_delete, d |-> d,
   total_quantum |-> total_quantum, heap |-> heap, id |-> id, state |-> state,
   asleep |-> asleep, time_to_sleep |-> time_to_sleep, quantum_counter |-> quantum_counter,
   saved |-> saved]

\* The library's structures are at rest: no call or tick is half done.
Rest == {"user", "leave", "resumed", "exit", "ended"}

SignalInit ==
  /\ Init
  /\ blocked = FALSE /\ pending_tick = FALSE
  /\ masked = {}
  /\ at = "user" /\ call = NoCall /\ before = <<>>

Goto(label) == at' = label /\ before' = IF label \in Rest THEN <<>> ELSE before

\* A step inside a call: the mask and the call stay as they are.
Step(from, to) ==
  /\ at = from
  /\ Goto(to)
  /\ UNCHANGED <<blocked, pending_tick, call, proc>>

-----------------------------------------------------------------------------
(***************************************************************************)
(* The signal and the mask.                                                *)
(***************************************************************************)
\* The timer expires.
Raise ==
  /\ ~pending_tick /\ at # "ended"
  /\ pending_tick' = TRUE
  /\ UNCHANGED <<vars, blocked, masked, control>>

Deliverable == pending_tick /\ ~blocked

\* The kernel enters time_handler, with SIGVTALRM blocked.  It would do so between
\* any two statements; what it interrupts is not kept, because by MaskMatchesCode
\* it is always user code.
Deliver ==
  /\ Deliverable /\ at \notin {"exit", "ended"}
  /\ pending_tick' = FALSE /\ blocked' = TRUE
  /\ at' = "tick" /\ before' = Library
  /\ call' = NoCall
  /\ UNCHANGED <<vars, masked>>

\* Mutant of Enter: the call forgets to block the signal.
EnterUnmasked(c) ==
  /\ at = "user" /\ ~Deliverable
  /\ c.op = "spawn" => heap # Obj
  /\ call' = c /\ at' = "call" /\ before' = Library
  /\ UNCHANGED <<vars, signals>>

\* unblock_signals(false), the first statement of every call.  The heap is bounded:
\* nothing is spawned when it is full.
Enter(c) ==
  /\ at = "user" /\ ~Deliverable
  /\ c.op = "spawn" => heap # Obj
  /\ blocked' = TRUE
  /\ call' = c /\ at' = "call" /\ before' = Library
  /\ UNCHANGED <<vars, pending_tick, masked>>

\* unblock_signals(true), the last statement of every call and of a handler that
\* is resumed.  block_handler unblocks twice; nothing happens in between.
Leave ==
  /\ at = "leave"
  /\ blocked' = FALSE
  /\ call' = NoCall
  /\ Goto("user")
  /\ UNCHANGED <<vars, pending_tick, masked>>

-----------------------------------------------------------------------------
(***************************************************************************)
(* Calls that fail, have no effect or only read.                           *)
(***************************************************************************)
NoFreeId     == call.op = "spawn" /\ available_id = Ids
NoSuchThread == /\ call.op \in {"terminate", "block", "resume"}
                /\ ~check_if_thread_exist(call.tid)
NotForMain   == \/ call.op = "block" /\ call.tid = 0
                \/ call.op = "sleep" /\ id[running_thread] = 0

\* A thread that is blocked already, or not blocked when it is resumed.
NothingToDo ==
  /\ call.op \in {"block", "resume"} /\ check_if_thread_exist(call.tid)
  /\ LET t == search_thread(call.tid)
     IN  IF call.op = "block" THEN t # running_thread /\ state[t] # "READY"
         ELSE state[t] # "BLOCKED"

Refused == call.op = "get" \/ NoFreeId \/ NoSuchThread \/ NotForMain \/ NothingToDo

\* Mutant of Refuse: an early return without unblock_signals(true).
RefuseMasked ==
  /\ at = "call" /\ Refused
  /\ call' = NoCall
  /\ Goto("user")
  /\ UNCHANGED <<vars, signals>>

Refuse ==
  /\ at = "call" /\ Refused
  /\ Step("call", "leave")
  /\ UNCHANGED <<lists, running_thread, pending, total_quantum, heap, fields, masked>>

Begins(op) == at = "call" /\ call.op = op /\ ~Refused

(***************************************************************************)
(* uthread_spawn.                                                          *)
(***************************************************************************)
NewThread == Last(ready_queue)

\* Mutant of construct: the saved mask is not emptied.
ConstructKeepingMask(t, index) ==
  /\ id' = [id EXCEPT ![t] = index]
  /\ state' = [state EXCEPT ![t] = "READY"]
  /\ asleep' = asleep \ {t}
  /\ time_to_sleep' = [time_to_sleep EXCEPT ![t] = 0]
  /\ quantum_counter' = [quantum_counter EXCEPT ![t] = 0]
  /\ saved' = saved \ {t}
  /\ masked' = IF blocked THEN masked \cup {t} ELSE masked \ {t}

\* thread::thread.  sigsetjmp saves the mask of the call that spawns, in which
\* SIGVTALRM is blocked; sigemptyset makes it the empty mask.
construct(t, index) ==
  /\ id' = [id EXCEPT ![t] = index]
  /\ state' = [state EXCEPT ![t] = "READY"]
  /\ asleep' = asleep \ {t}
  /\ time_to_sleep' = [time_to_sleep EXCEPT ![t] = 0]
  /\ quantum_counter' = [quantum_counter EXCEPT ![t] = 0]
  /\ saved' = saved \ {t}
  /\ masked' = masked \ {t}

SpawnQueue ==
  /\ Begins("spawn") /\ Step("call", "spawn_list")
  /\ \E index \in available_index, t \in Obj \ heap :
       /\ heap' = heap \cup {t}
       /\ construct(t, index)
       /\ ready_queue' = Append(ready_queue, t)
  /\ UNCHANGED <<all_threads, available_id, running_thread, pending, total_quantum>>

SpawnList ==
  /\ Step("spawn_list", "spawn_id")
  /\ all_threads' = Append(all_threads, NewThread)
  /\ UNCHANGED <<ready_queue, available_id, running_thread, pending, total_quantum, heap,
                 fields, masked>>

SpawnId ==
  /\ Step("spawn_id", "leave")
  /\ available_id' = available_id \cup {id[NewThread]}
  /\ UNCHANGED <<ready_queue, all_threads, running_thread, pending, total_quantum, heap,
                 fields, masked>>

(***************************************************************************)
(* uthread_terminate.                                                      *)
(***************************************************************************)
Target == search_thread(call.tid)

\* set_id_value(tid, false), for any thread but the main one.
ClearId ==
  /\ Begins("terminate") /\ call.tid # 0
  /\ Step("call", IF id[running_thread] = call.tid THEN "quit" ELSE "kill")
  /\ available_id' = available_id \ {call.tid}
  /\ UNCHANGED <<ready_queue, all_threads, running_thread, pending, total_quantum, heap,
                 fields, masked>>

KillUnqueue ==
  /\ Step("kill", "kill_erase")
  /\ ready_queue' = RemoveFirst(ready_queue, Target)
  /\ UNCHANGED <<all_threads, available_id, running_thread, pending, total_quantum, heap,
                 fields, masked>>

KillErase ==
  /\ Step("kill_erase", "leave")
  /\ all_threads' = RemoveFirst(all_threads, Target)
  /\ heap' = heap \ {Target}
  /\ UNCHANGED <<ready_queue, available_id, running_thread, pending, total_quantum, fields,
                 masked>>

\* terminate_handler pops the queue before it erases the thread from the list.
QuitUnqueue ==
  /\ Step("quit", "quit_erase")
  /\ thread_to_delete' = running_thread
  /\ ready_queue' = Tail(ready_queue)
  /\ UNCHANGED <<all_threads, available_id, running_thread, d, total_quantum, heap, fields,
                 masked>>

QuitErase ==
  /\ Step("quit_erase", "quit_next")
  /\ all_threads' = RemoveFirst(all_threads, Target)
  /\ d' = TRUE
  /\ UNCHANGED <<ready_queue, available_id, running_thread, thread_to_delete, total_quantum,
                 heap, fields, masked>>

\* The context of the thread that ends is not saved.
QuitNext ==
  /\ Step("quit_next", "switch")
  /\ state' = [state EXCEPT ![Head(ready_queue)] = "RUNNING"]
  /\ UNCHANGED <<lists, running_thread, pending, total_quantum, heap, id, asleep,
                 time_to_sleep, quantum_counter, saved, masked>>

\* thread_cleanup, in two steps.
CleanupObjects ==
  /\ Begins("terminate") /\ call.tid = 0
  /\ Step("call", "clear")
  /\ heap' = heap \ Live
  /\ UNCHANGED <<lists, running_thread, pending, total_quantum, fields, masked>>

CleanupLists ==
  /\ Step("clear", "unblock")
  /\ all_threads' = <<>> /\ ready_queue' = <<>>
  /\ UNCHANGED <<available_id, running_thread, pending, total_quantum, heap, fields, masked>>

\* unblock_signals(true) comes before exit(0).
UnblockToExit ==
  /\ at = "unblock"
  /\ blocked' = FALSE
  /\ proc' = "exiting"
  /\ Goto("exit")
  /\ UNCHANGED <<lists, running_thread, pending, total_quantum, heap, fields, pending_tick,
                 masked, call>>

ExitCall ==
  /\ at = "exit" /\ ~Deliverable
  /\ Exit
  /\ Goto("ended")
  /\ UNCHANGED <<signals, call>>

DeliverAtExit ==
  /\ at = "exit" /\ Deliverable
  /\ TickWhileExiting
  /\ Goto("ended")
  /\ UNCHANGED <<signals, call>>

-----------------------------------------------------------------------------
(***************************************************************************)
(* uthread_block, uthread_resume and uthread_sleep.                        *)
(***************************************************************************)
BlockPop ==
  /\ Begins("block") /\ Target = running_thread
  /\ Step("call", "next")
  /\ ready_queue' = Tail(ready_queue)
  /\ state' = [state EXCEPT ![running_thread] = "BLOCKED"]
  /\ UNCHANGED <<all_threads, available_id, running_thread, pending, total_quantum, heap,
                 id, asleep, time_to_sleep, quantum_counter, saved, masked>>

BlockUnqueue ==
  /\ Begins("block") /\ Target # running_thread
  /\ Step("call", "block_state")
  /\ ready_queue' = RemoveFirst(ready_queue, Target)
  /\ UNCHANGED <<all_threads, available_id, running_thread, pending, total_quantum, heap,
                 fields, masked>>

SetState(t, newState) ==
  /\ state' = [state EXCEPT ![t] = newState]
  /\ UNCHANGED <<lists, running_thread, pending, total_quantum, heap, id, asleep,
                 time_to_sleep, quantum_counter, saved, masked>>

BlockState == Step("block_state", "leave") /\ SetState(Target, "BLOCKED")

ResumeState ==
  /\ Begins("resume")
  /\ Step("call", IF Target \in asleep THEN "leave" ELSE "resume_queue")
  /\ SetState(Target, "READY")

ResumeQueue ==
  /\ Step("resume_queue", "leave")
  /\ ready_queue' = Append(ready_queue, Target)
  /\ UNCHANGED <<all_threads, available_id, running_thread, pending, total_quantum, heap,
                 fields, masked>>

SleepFlags ==
  /\ Begins("sleep") /\ Step("call", "sleep_pop")
  /\ asleep' = asleep \cup {running_thread}
  /\ time_to_sleep' = [time_to_sleep EXCEPT ![running_thread] = call.n]
  /\ state' = [state EXCEPT ![running_thread] = "READY"]
  /\ UNCHANGED <<lists, running_thread, pending, total_quantum, heap, id, quantum_counter,
                 saved, masked>>

SleepPop ==
  /\ Step("sleep_pop", "next")
  /\ ready_queue' = Tail(ready_queue)
  /\ UNCHANGED <<all_threads, available_id, running_thread, pending, total_quantum, heap,
                 fields, masked>>

-----------------------------------------------------------------------------
(***************************************************************************)
(* time_handler, and the switch it shares with block_handler.              *)
(***************************************************************************)
TickWake ==
  /\ Step("tick", "tick_rotate")
  /\ sleep_check
  /\ \E w \in WakeOrders : ready_queue' = ready_queue \o w
  /\ UNCHANGED <<all_threads, available_id, running_thread, pending, total_quantum, heap,
                 id, state, quantum_counter, saved, masked>>

TickRotate ==
  /\ Step("tick_rotate", "next")
  /\ ready_queue' = Append(Tail(ready_queue), running_thread)
  /\ state' = [state EXCEPT ![running_thread] = "READY"]
  /\ UNCHANGED <<all_threads, available_id, running_thread, pending, total_quantum, heap,
                 id, asleep, time_to_sleep, quantum_counter, saved, masked>>

\* next->set_state(RUNNING), and sigsetjmp with the mask that is in force.
SaveContext ==
  /\ Step("next", "switch")
  /\ state' = [state EXCEPT ![Head(ready_queue)] = "RUNNING"]
  /\ saved' = saved \cup {running_thread}
  /\ masked' = IF blocked THEN masked \cup {running_thread} ELSE masked \ {running_thread}
  /\ UNCHANGED <<lists, running_thread, pending, total_quantum, heap, id, asleep,
                 time_to_sleep, quantum_counter>>

\* siglongjmp: the mask is the one saved with the context.  A context saved by a
\* handler goes on in its else branch, a new one at the entry point.
Switch ==
  LET next == Head(ready_queue)
  IN  /\ at = "switch"
      /\ running_thread' = next
      /\ total_quantum' = Inc(total_quantum)
      /\ quantum_counter' = [quantum_counter EXCEPT ![next] = Inc(@)]
      /\ blocked' = (next \in masked)
      /\ call' = NoCall
      /\ Goto(IF next \in saved THEN "resumed" ELSE "user")
      /\ UNCHANGED <<lists, pending, heap, id, state, asleep, time_to_sleep, saved,
                     pending_tick, masked, proc>>

\* Mutant of FreePending: the signal is unblocked before the object is freed.
FreeUnmasked ==
  /\ at = "resumed"
  /\ blocked' = FALSE
  /\ heap' = IF d THEN heap \ {thread_to_delete} ELSE heap
  /\ thread_to_delete' = IF d THEN NULL ELSE thread_to_delete
  /\ d' = FALSE
  /\ Goto("leave")
  /\ UNCHANGED <<lists, running_thread, total_quantum, fields, proc, pending_tick, masked, call>>

\* The else branch: a thread that terminated itself is freed.
FreePending ==
  /\ Step("resumed", "leave")
  /\ heap' = IF d THEN heap \ {thread_to_delete} ELSE heap
  /\ thread_to_delete' = IF d THEN NULL ELSE thread_to_delete
  /\ d' = FALSE
  /\ UNCHANGED <<lists, running_thread, total_quantum, fields, masked>>

-----------------------------------------------------------------------------
LibraryStep ==
  \/ Refuse
  \/ SpawnQueue \/ SpawnList \/ SpawnId
  \/ ClearId \/ KillUnqueue \/ KillErase
  \/ QuitUnqueue \/ QuitErase \/ QuitNext
  \/ CleanupObjects \/ CleanupLists \/ UnblockToExit \/ ExitCall
  \/ BlockPop \/ BlockUnqueue \/ BlockState \/ ResumeState \/ ResumeQueue
  \/ SleepFlags \/ SleepPop
  \/ TickWake \/ TickRotate \/ SaveContext \/ Switch \/ FreePending
  \/ Leave

Ended == at = "ended" /\ UNCHANGED allVars

SignalNext ==
  \/ Raise \/ Deliver \/ DeliverAtExit
  \/ \E c \in Calls : Enter(c)
  \/ LibraryStep
  \/ Ended

SignalSpec == SignalInit /\ [][SignalNext]_allVars

(***************************************************************************)
(* The processor always executes the running thread's next statement, and  *)
(* the timer is periodic.  That user code calls the library is not assumed.*)
(***************************************************************************)
Fairness ==
  /\ WF_allVars(LibraryStep \/ Deliver \/ DeliverAtExit)
  /\ WF_allVars(Raise)

FairSignalSpec == SignalSpec /\ Fairness

-----------------------------------------------------------------------------
(* Properties. *)

\* Types of the mask, of the saved masks and of the position; a context has the
\* signal blocked only if it was saved inside a handler (uthreads.cpp:25,
\* thread.cpp:63-66).
SignalTypeOK ==
  /\ blocked \in BOOLEAN /\ pending_tick \in BOOLEAN
  /\ masked \subseteq saved
  /\ call \in Calls \cup {NoCall}
  /\ at \in Rest => before = <<>>
  /\ at \notin Rest => DOMAIN before = DOMAIN Library

\* SIGVTALRM is blocked while the library's structures are half changed, and
\* open in user code, whichever thread runs and however it was left: a new thread
\* does not inherit the mask of the call that spawned it, and a thread that is
\* resumed in the middle of a call goes on with the signal blocked
\* (uthreads.cpp:43-60, 160-182; thread.cpp:63-66).
MaskMatchesCode == blocked <=> at \notin {"user", "exit", "ended"}

\* What the library looks like from outside: a call takes effect when it is over,
\* and the thread pending deletion goes at the switch.
Seen ==
  IF at \notin Rest THEN before
  ELSE IF at = "resumed" /\ d
    THEN [Library EXCEPT !.heap = @ \ {thread_to_delete}, !.thread_to_delete = NULL,
                         !.d = FALSE]
  ELSE Library

Atomic ==
  INSTANCE UThreads WITH
    ready_queue <- Seen.ready_queue, all_threads <- Seen.all_threads,
    available_id <- Seen.available_id, running_thread <- Seen.running_thread,
    thread_to_delete <- Seen.thread_to_delete, d <- Seen.d,
    total_quantum <- Seen.total_quantum, heap <- Seen.heap, id <- Seen.id,
    state <- Seen.state, asleep <- Seen.asleep, time_to_sleep <- Seen.time_to_sleep,
    quantum_counter <- Seen.quantum_counter, saved <- Seen.saved

\* Blocking the signal makes calls and ticks atomic: step by step, with
\* the timer expiring anywhere, the library does what UThreads says, for which
\* the invariants of the scheduler are proved (uthreads.cpp:43-60).
CallsAreAtomic == Atomic!Spec

\* However the running thread calls the library, a tick that is raised while the
\* signal is blocked is only postponed: until the process ends, quanta go on
\* ending.  This is what lets UThreads assume that time_handler is fair
\* (uthreads.cpp:43-60, 156, 193).
TicksKeepComing == []<>(at = "tick_rotate" \/ proc # "running")
=============================================================================
