------------------------ MODULE UThreadsSignals_proofs ------------------------
(***************************************************************************)
(* Proofs about UThreadsSignals, for every set of addresses, every         *)
(* MAX_THREAD_NUM and every int width: the signal is blocked where it must *)
(* be, and the statements of a call add up to one action of UThreads.      *)
(***************************************************************************)
EXTENDS UThreadsSignals, SequenceTheorems, TLAPS

-----------------------------------------------------------------------------
(* The signal mask. *)

\* A jump restores the mask that was saved with the context, so the mask of the
\* next thread is known only if it is known of every context: those saved in a
\* handler have the signal blocked, those made by the constructor have it open.
MaskInv == masked = saved /\ MaskMatchesCode

\* uthread_init leaves the signal open and no saved context.
LEMMA MaskInit == SignalInit => MaskInv
  BY DEF SignalInit, Init, MaskInv, MaskMatchesCode

\* Every statement that does not touch the mask or a context: those that only
\* move on inside a call (Step).
LEMMA MaskQuietStep ==
  ASSUME MaskInv, NEW from, NEW to, Step(from, to), UNCHANGED <<masked, saved>>,
         (from \in {"user", "exit", "ended"}) = (to \in {"user", "exit", "ended"})
  PROVE  MaskInv'
  BY DEF MaskInv, MaskMatchesCode, Step, Goto

\* The statements of the calls and of time_handler up to the switch.
LEMMA MaskLibraryStep ==
  ASSUME MaskInv, LibraryStep
  PROVE  MaskInv'
<1> USE DEF fields, SetState
<1>1. CASE Refuse
  BY <1>1, MaskQuietStep DEF Refuse
<1>2. CASE SpawnQueue
  <2>1. masked' = saved'
    BY <1>2 DEF SpawnQueue, construct, MaskInv
  <2>2. MaskMatchesCode'
    BY <1>2 DEF SpawnQueue, MaskInv, MaskMatchesCode, Step, Goto, Begins
  <2> QED
    BY <2>1, <2>2 DEF MaskInv
<1>3. CASE SpawnList
  BY <1>3, MaskQuietStep DEF SpawnList
<1>4. CASE SpawnId
  BY <1>4, MaskQuietStep DEF SpawnId
<1>5. CASE ClearId
  BY <1>5, MaskQuietStep DEF ClearId
<1>6. CASE KillUnqueue
  BY <1>6, MaskQuietStep DEF KillUnqueue
<1>7. CASE KillErase
  BY <1>7, MaskQuietStep DEF KillErase
<1>8. CASE QuitUnqueue
  BY <1>8, MaskQuietStep DEF QuitUnqueue
<1>9. CASE QuitErase
  BY <1>9, MaskQuietStep DEF QuitErase
<1>10. CASE QuitNext
  BY <1>10, MaskQuietStep DEF QuitNext
<1>11. CASE CleanupObjects
  BY <1>11, MaskQuietStep DEF CleanupObjects
<1>12. CASE CleanupLists
  BY <1>12, MaskQuietStep DEF CleanupLists
<1>13. CASE UnblockToExit
  BY <1>13 DEF UnblockToExit, MaskInv, MaskMatchesCode, Goto
<1>14. CASE ExitCall
  BY <1>14 DEF ExitCall, Exit, MaskInv, MaskMatchesCode, Goto, signals
<1>15. CASE BlockPop
  BY <1>15, MaskQuietStep DEF BlockPop
<1>16. CASE BlockUnqueue
  BY <1>16, MaskQuietStep DEF BlockUnqueue
<1>17. CASE BlockState
  BY <1>17, MaskQuietStep DEF BlockState
<1>18. CASE ResumeState
  BY <1>18, MaskQuietStep DEF ResumeState
<1>19. CASE ResumeQueue
  BY <1>19, MaskQuietStep DEF ResumeQueue
<1>20. CASE SleepFlags
  BY <1>20, MaskQuietStep DEF SleepFlags
<1>21. CASE SleepPop
  BY <1>21, MaskQuietStep DEF SleepPop
<1>22. CASE TickWake
  BY <1>22, MaskQuietStep DEF TickWake
<1>23. CASE TickRotate
  BY <1>23, MaskQuietStep DEF TickRotate
<1>24. CASE SaveContext
  BY <1>24 DEF SaveContext, Step, Goto, MaskInv, MaskMatchesCode
<1>25. CASE Switch
  BY <1>25 DEF Switch, Goto, MaskInv, MaskMatchesCode
<1>26. CASE FreePending
  BY <1>26, MaskQuietStep DEF FreePending
<1>27. CASE Leave
  BY <1>27 DEF Leave, Goto, MaskInv, MaskMatchesCode, vars
<1> QED
  BY <1>1, <1>2, <1>3, <1>4, <1>5, <1>6, <1>7, <1>8, <1>9, <1>10, <1>11, <1>12, <1>13,
     <1>14, <1>15, <1>16, <1>17, <1>18, <1>19, <1>20, <1>21, <1>22, <1>23, <1>24, <1>25,
     <1>26, <1>27 DEF LibraryStep

\* Every step, the timer and the entries included, keeps the mask invariant.
LEMMA MaskNext == MaskInv /\ [SignalNext]_allVars => MaskInv'
<1> SUFFICES ASSUME MaskInv, [SignalNext]_allVars
             PROVE  MaskInv'
  OBVIOUS
<1> USE DEF MaskInv, MaskMatchesCode, vars, fields
<1>1. CASE Raise
  BY <1>1 DEF Raise, control
<1>2. CASE Deliver
  BY <1>2 DEF Deliver, Deliverable
<1>3. CASE DeliverAtExit
  BY <1>3 DEF DeliverAtExit, TickWhileExiting, Goto, signals
<1>4. ASSUME NEW c \in Calls, Enter(c)
      PROVE  MaskInv'
  BY <1>4 DEF Enter
<1>5. CASE LibraryStep
  BY <1>5, MaskLibraryStep
<1>6. CASE UNCHANGED allVars
  BY <1>6 DEF allVars, signals, control
<1> QED
  BY <1>1, <1>2, <1>3, <1>4, <1>5, <1>6 DEF SignalNext, Ended

\* The signal is blocked exactly while the library's structures are half changed,
\* in every thread and through every jump.
THEOREM MaskFollowsCode == SignalSpec => []MaskMatchesCode
<1>1. MaskInv => MaskMatchesCode
  BY DEF MaskInv
<1> QED
  BY MaskInit, MaskNext, <1>1, PTL DEF SignalSpec

(***************************************************************************)
(* The position, the call and the state it began in.                       *)
(***************************************************************************)
PositionInv ==
  /\ blocked \in BOOLEAN /\ pending_tick \in BOOLEAN
  /\ call \in Calls \cup {NoCall}
  /\ at \in Rest => before = <<>>
  /\ at \notin Rest => DOMAIN before = DOMAIN Library

\* DOMAIN Library is a set of names, whatever the values.
LEMMA LibraryDomain == (DOMAIN Library)' = DOMAIN Library
  BY DEF Library

LEMMA PositionInit == SignalInit => PositionInv
  BY DEF SignalInit, PositionInv, Rest

\* A statement moves on inside a call, or to a place where nothing is half done.
LEMMA PositionMove ==
  ASSUME PositionInv, NEW to, Goto(to), at \in Rest => to \in Rest,
         call' \in {call, NoCall}, blocked' \in BOOLEAN, pending_tick' = pending_tick
  PROVE  PositionInv'
<1>1. at' \in Rest => before' = <<>>
  BY DEF Goto
<1>2. at' \notin Rest => DOMAIN before' = (DOMAIN Library)'
  BY LibraryDomain DEF Goto, PositionInv
<1> QED
  BY <1>1, <1>2 DEF PositionInv, Rest

LEMMA PositionStep ==
  ASSUME PositionInv, NEW from, NEW to, Step(from, to), from \in Rest => to \in Rest
  PROVE  PositionInv'
  BY PositionMove DEF Step, PositionInv

LEMMA PositionLibraryStep ==
  ASSUME PositionInv, LibraryStep
  PROVE  PositionInv'
<1> USE DEF Rest
<1>1. CASE Refuse \/ SpawnQueue \/ SpawnList \/ SpawnId
  BY <1>1, PositionStep DEF Refuse, SpawnQueue, SpawnList, SpawnId
<1>2. CASE ClearId \/ KillUnqueue \/ KillErase
  BY <1>2, PositionStep DEF ClearId, KillUnqueue, KillErase
<1>3. CASE QuitUnqueue \/ QuitErase \/ QuitNext
  BY <1>3, PositionStep DEF QuitUnqueue, QuitErase, QuitNext
<1>4. CASE CleanupObjects \/ CleanupLists
  BY <1>4, PositionStep DEF CleanupObjects, CleanupLists
<1>5. CASE UnblockToExit
  BY <1>5, PositionMove DEF UnblockToExit
<1>6. CASE ExitCall
  BY <1>6, PositionMove DEF ExitCall, signals, PositionInv
<1>7. CASE BlockPop \/ BlockUnqueue \/ BlockState \/ ResumeState \/ ResumeQueue
  BY <1>7, PositionStep DEF BlockPop, BlockUnqueue, BlockState, ResumeState, ResumeQueue
<1>8. CASE SleepFlags \/ SleepPop
  BY <1>8, PositionStep DEF SleepFlags, SleepPop
<1>9. CASE TickWake \/ TickRotate \/ SaveContext
  BY <1>9, PositionStep DEF TickWake, TickRotate, SaveContext
<1>10. CASE Switch
  BY <1>10, PositionMove DEF Switch
<1>11. CASE FreePending
  BY <1>11, PositionStep DEF FreePending
<1>12. CASE Leave
  BY <1>12, PositionMove DEF Leave
<1> QED
  BY <1>1, <1>2, <1>3, <1>4, <1>5, <1>6, <1>7, <1>8, <1>9, <1>10, <1>11, <1>12
     DEF LibraryStep

LEMMA PositionNext == PositionInv /\ [SignalNext]_allVars => PositionInv'
<1> SUFFICES ASSUME PositionInv, [SignalNext]_allVars
             PROVE  PositionInv'
  OBVIOUS
<1>1. CASE Raise
  BY <1>1, LibraryDomain DEF Raise, control, PositionInv, Rest
<1>2. CASE Deliver
  <2>1. at' \notin Rest /\ before' = Library
    BY <1>2 DEF Deliver, Rest
  <2> QED
    BY <1>2, <2>1, LibraryDomain DEF Deliver, PositionInv, Rest
<1>3. CASE DeliverAtExit
  BY <1>3, PositionMove DEF DeliverAtExit, signals, Rest, PositionInv
<1>4. ASSUME NEW c \in Calls, Enter(c)
      PROVE  PositionInv'
  <2>1. at' \notin Rest /\ before' = Library
    BY <1>4 DEF Enter, Rest
  <2> QED
    BY <1>4, <2>1, LibraryDomain DEF Enter, PositionInv, Rest
<1>5. CASE LibraryStep
  BY <1>5, PositionLibraryStep
<1>6. CASE UNCHANGED allVars
  BY <1>6, LibraryDomain DEF allVars, signals, control, PositionInv, Rest
<1> QED
  BY <1>1, <1>2, <1>3, <1>4, <1>5, <1>6 DEF SignalNext, Ended

\* The mask, the call and the position keep their types, and no context has the
\* signal blocked but those saved in a handler (uthreads.cpp:25, thread.cpp:63-66).
THEOREM SignalTypeCorrect == SignalSpec => []SignalTypeOK
<1>1. MaskInv /\ PositionInv => SignalTypeOK
  BY DEF MaskInv, PositionInv, SignalTypeOK
<1> QED
  BY MaskInit, MaskNext, PositionInit, PositionNext, <1>1, PTL DEF SignalSpec

-----------------------------------------------------------------------------
(***************************************************************************)
(* Half-done calls: at each statement, what has been done so far in terms  *)
(* of Seen, the state in which the call or the tick began.  First the      *)
(* groups of variables that most statements leave alone.                   *)
(***************************************************************************)
SameQuantum == /\ running_thread = Seen.running_thread
               /\ total_quantum = Seen.total_quantum
               /\ quantum_counter = Seen.quantum_counter
SamePending == thread_to_delete = Seen.thread_to_delete /\ d = Seen.d
SameIds     == available_id = Seen.available_id /\ id = Seen.id
SameSleep   == asleep = Seen.asleep /\ time_to_sleep = Seen.time_to_sleep
SameSaved   == saved = Seen.saved
SameQueue   == ready_queue = Seen.ready_queue
SameList    == all_threads = Seen.all_threads
SameState   == state = Seen.state
SameHeap    == heap = Seen.heap

Caller    == Seen.running_thread
Found     == Atomic!search_thread(call.tid)
OnThread(op) == /\ call.op = op
                /\ call.tid \in Ids /\ Atomic!check_if_thread_exist(call.tid)

Untouched == /\ SameQuantum /\ SamePending /\ SameIds /\ SameSleep /\ SameSaved
             /\ SameQueue /\ SameList /\ SameState /\ SameHeap

\* uthread_spawn with the object t, which is in the queue and maybe in the list.
SpawningAs(index, t) ==
  /\ index \in Atomic!available_index
  /\ heap = Seen.heap \cup {t}
  /\ id = [Seen.id EXCEPT ![t] = index]
  /\ state = [Seen.state EXCEPT ![t] = "READY"]
  /\ asleep = Seen.asleep \ {t}
  /\ time_to_sleep = [Seen.time_to_sleep EXCEPT ![t] = 0]
  /\ quantum_counter = [Seen.quantum_counter EXCEPT ![t] = 0]
  /\ saved = Seen.saved \ {t}
  /\ ready_queue = Append(Seen.ready_queue, t)
  /\ all_threads = IF at = "spawn_id" THEN Append(Seen.all_threads, t) ELSE Seen.all_threads

Spawning ==
  /\ \E index \in Ids, t \in Obj \ Seen.heap : SpawningAs(index, t)
  /\ available_id = Seen.available_id
  /\ running_thread = Seen.running_thread /\ total_quantum = Seen.total_quantum
  /\ SamePending

\* uthread_terminate of another thread.
Killing(queue) ==
  /\ OnThread("terminate") /\ call.tid # 0 /\ Seen.id[Caller] # call.tid
  /\ available_id = Seen.available_id \ {call.tid} /\ id = Seen.id
  /\ ready_queue = queue
  /\ SameQuantum /\ SamePending /\ SameSleep /\ SameSaved /\ SameList /\ SameState /\ SameHeap

\* uthread_terminate of the caller, up to the jump.
Quitting(queue, list, todel, del, st) ==
  /\ OnThread("terminate") /\ call.tid # 0 /\ Seen.id[Caller] = call.tid
  /\ available_id = Seen.available_id \ {call.tid} /\ id = Seen.id
  /\ ready_queue = queue /\ all_threads = list
  /\ thread_to_delete = todel /\ d = del
  /\ state = st
  /\ SameQuantum /\ SameSleep /\ SameSaved /\ SameHeap

\* uthread_terminate of the main thread.
Clearing(queue, list) ==
  /\ OnThread("terminate") /\ call.tid = 0
  /\ heap = Seen.heap \ Atomic!Live
  /\ ready_queue = queue /\ all_threads = list
  /\ SameQuantum /\ SamePending /\ SameIds /\ SameSleep /\ SameSaved /\ SameState

BlockingOther ==
  /\ OnThread("block") /\ call.tid # 0
  /\ Found # Caller /\ Seen.state[Found] = "READY"
  /\ ready_queue = RemoveFirst(Seen.ready_queue, Found)
  /\ SameQuantum /\ SamePending /\ SameIds /\ SameSleep /\ SameSaved
  /\ SameList /\ SameState /\ SameHeap

Resuming ==
  /\ OnThread("resume") /\ Seen.state[Found] = "BLOCKED" /\ Found \notin Seen.asleep
  /\ state = [Seen.state EXCEPT ![Found] = "READY"]
  /\ SameQuantum /\ SamePending /\ SameIds /\ SameSleep /\ SameSaved
  /\ SameQueue /\ SameList /\ SameHeap

(***************************************************************************)
(* The three ways in which the caller gives up the processor and will be   *)
(* resumed: it blocks, it sleeps, its quantum ends.  At "switch" the next  *)
(* thread is marked running and the caller's context is saved.             *)
(***************************************************************************)
Marked(st) == IF at = "switch" THEN [st EXCEPT ![Head(ready_queue)] = "RUNNING"] ELSE st

BlockingSelf ==
  /\ OnThread("block") /\ call.tid # 0 /\ Found = Caller
  /\ ready_queue = Tail(Seen.ready_queue)
  /\ state = Marked([Seen.state EXCEPT ![Caller] = "BLOCKED"])
  /\ SameSleep

Sleeping(queue) ==
  /\ call.op = "sleep" /\ call.n \in SleepArgs /\ Seen.id[Caller] # 0
  /\ ready_queue = queue
  /\ state = Marked([Seen.state EXCEPT ![Caller] = "READY"])
  /\ asleep = Seen.asleep \cup {Caller}
  /\ time_to_sleep = [Seen.time_to_sleep EXCEPT ![Caller] = call.n]

SleepersCounted ==
  /\ asleep = Seen.asleep \ Atomic!Expiring
  /\ time_to_sleep =
       [t \in Obj |-> IF t \in Atomic!Sleepers THEN Dec(Seen.time_to_sleep[t])
                      ELSE Seen.time_to_sleep[t]]

Waking ==
  /\ \E w \in Atomic!WakeOrders : ready_queue = Seen.ready_queue \o w
  /\ SleepersCounted
  /\ SameState

Rotating ==
  /\ \E w \in Atomic!WakeOrders :
       ready_queue = Append(Tail(Seen.ready_queue \o w), Caller)
  /\ state = Marked([Seen.state EXCEPT ![Caller] = "READY"])
  /\ SleepersCounted

InTransit == SameQuantum /\ SamePending /\ SameIds /\ SameList /\ SameHeap
Departing == InTransit /\ (BlockingSelf \/ Sleeping(Tail(Seen.ready_queue)) \/ Rotating)

Quit ==
  LET queue == Tail(Seen.ready_queue)
  IN  Quitting(queue, RemoveFirst(Seen.all_threads, Caller), Caller, TRUE,
               [Seen.state EXCEPT ![Head(queue)] = "RUNNING"])

Halfway ==
  /\ at \in Rest \ {"exit", "ended"} => proc = "running"
  /\ at = "exit" => proc = "exiting"
  /\ at \notin Rest => proc = "running"
  /\ at = "call" => Untouched /\ call \in Calls
  /\ at = "tick" => Untouched
  /\ at \in {"spawn_list", "spawn_id"} => Spawning
  /\ at = "kill" => Killing(Seen.ready_queue)
  /\ at = "kill_erase" => Killing(RemoveFirst(Seen.ready_queue, Found))
  /\ at = "quit" =>
       Quitting(Seen.ready_queue, Seen.all_threads, Seen.thread_to_delete, Seen.d, Seen.state)
  /\ at = "quit_erase" =>
       Quitting(Tail(Seen.ready_queue), Seen.all_threads, Caller, Seen.d, Seen.state)
  /\ at = "quit_next" =>
       Quitting(Tail(Seen.ready_queue), RemoveFirst(Seen.all_threads, Caller), Caller, TRUE,
                Seen.state)
  /\ at = "clear" => Clearing(Seen.ready_queue, Seen.all_threads)
  /\ at = "unblock" => Clearing(<<>>, <<>>)
  /\ at = "block_state" => BlockingOther
  /\ at = "resume_queue" => Resuming
  /\ at = "sleep_pop" => InTransit /\ SameSaved /\ Sleeping(Seen.ready_queue)
  /\ at = "tick_rotate" => InTransit /\ SameSaved /\ Waking
  /\ at = "next" => Departing /\ SameSaved
  /\ at = "switch" => \/ Departing /\ saved = Seen.saved \cup {Caller}
                      \/ Quit

\* The proofs about UThreads, of what is seen: its invariant tells which thread a
\* list holds where.
Proved ==
  INSTANCE UThreads_proofs WITH
    ready_queue <- Seen.ready_queue, all_threads <- Seen.all_threads,
    available_id <- Seen.available_id, running_thread <- Seen.running_thread,
    thread_to_delete <- Seen.thread_to_delete, d <- Seen.d,
    total_quantum <- Seen.total_quantum, heap <- Seen.heap, id <- Seen.id,
    state <- Seen.state, asleep <- Seen.asleep, time_to_sleep <- Seen.time_to_sleep,
    quantum_counter <- Seen.quantum_counter, saved <- Seen.saved

-----------------------------------------------------------------------------
(***************************************************************************)
(* The two instances.  Atomic and Proved instantiate the same definitions  *)
(* with the same expressions, so they say the same of every step; and the  *)
(* operators they take from the library keep their meaning.                *)
(***************************************************************************)
\* RemoveFirst, Range and Bijection, as an instance names them.
LEMMA SameOperators ==
  /\ \A s, e : Atomic!RemoveFirst(s, e) = RemoveFirst(s, e)
  /\ \A s : Atomic!Range(s) = Range(s)
  /\ \A S, T : Atomic!Bijection(S, T) = Bijection(S, T)
<1>1. \A s, e : Atomic!RemoveFirst(s, e) = RemoveFirst(s, e)
  BY DEF RemoveFirst, RemoveAt, SelectInSeq, Min,
         Atomic!RemoveFirst, Atomic!RemoveAt, Atomic!SelectInSeq, Atomic!Min
<1>2. \A s : Atomic!Range(s) = Range(s)
  BY DEF Range, Atomic!Range
<1>3. \A S, T : Atomic!Bijection(S, T) = Bijection(S, T)
  BY DEF Bijection, Injection, Surjection, IsInjective,
         Atomic!Bijection, Atomic!Injection, Atomic!Surjection, Atomic!IsInjective
<1> QED
  BY <1>1, <1>2, <1>3

\* A step of the one is a step of the other; time_handler needs it part by part.
LEMMA SameNext == [Atomic!Next]_(Atomic!vars) => [Proved!Next]_(Proved!vars)
<1> USE DEF Atomic!Live, Proved!Live, Atomic!Range, Proved!Range,
            Atomic!lists, Proved!lists, Atomic!pending, Proved!pending,
            Atomic!fields, Proved!fields, Atomic!vars, Proved!vars,
            Atomic!RemoveFirst, Proved!RemoveFirst, Atomic!RemoveAt, Proved!RemoveAt,
            Atomic!SelectInSeq, Proved!SelectInSeq, Atomic!Min, Proved!Min,
            Atomic!Inc, Proved!Inc, Atomic!Dec, Proved!Dec,
            Atomic!Dispatch, Proved!Dispatch,
            Atomic!block_handler, Proved!block_handler,
            Atomic!search_thread, Proved!search_thread,
            Atomic!check_if_thread_exist, Proved!check_if_thread_exist
<1>1. UNCHANGED Atomic!vars => UNCHANGED Proved!vars
  OBVIOUS
<1>2. Atomic!time_handler => Proved!time_handler
  <2>1. Atomic!WakeOrders = Proved!WakeOrders
    <3>1. Atomic!Woken = Proved!Woken
      BY DEF Atomic!Woken, Proved!Woken, Atomic!Expiring, Proved!Expiring,
             Atomic!Sleepers, Proved!Sleepers
    <3>2. \A S, T : Atomic!Bijection(S, T) = Proved!Bijection(S, T)
      BY DEF Atomic!Bijection, Proved!Bijection, Atomic!Injection, Proved!Injection,
             Atomic!Surjection, Proved!Surjection, Atomic!IsInjective, Proved!IsInjective
    <3>3. \A t, u : Atomic!ListedBefore(t, u) <=> Proved!ListedBefore(t, u)
      BY DEF Atomic!ListedBefore, Proved!ListedBefore
    <3>4. \A S : Atomic!Cardinality(S) = Proved!Cardinality(S)
      BY DEF Atomic!Cardinality, Proved!Cardinality
    <3> QED
      BY <3>1, <3>2, <3>3, <3>4 DEF Atomic!WakeOrders, Proved!WakeOrders
  <2>2. Atomic!sleep_check => Proved!sleep_check
    BY DEF Atomic!sleep_check, Proved!sleep_check, Atomic!Expiring, Proved!Expiring,
           Atomic!Sleepers, Proved!Sleepers
  <2> QED
    BY <2>1, <2>2 DEF Atomic!time_handler, Proved!time_handler
<1>3. Atomic!uthread_spawn => Proved!uthread_spawn
  BY DEF Atomic!uthread_spawn, Proved!uthread_spawn, Atomic!available_index, Proved!available_index,
         Atomic!Ids, Proved!Ids
<1>4. \A tid : Atomic!uthread_terminate(tid) => Proved!uthread_terminate(tid)
  BY DEF Atomic!uthread_terminate, Proved!uthread_terminate,
         Atomic!TerminateMain, Proved!TerminateMain, Atomic!TerminateSelf, Proved!TerminateSelf,
         Atomic!TerminateOther, Proved!TerminateOther
<1>5. \A tid : Atomic!uthread_block(tid) => Proved!uthread_block(tid)
  BY DEF Atomic!uthread_block, Proved!uthread_block, Atomic!BlockSelf, Proved!BlockSelf,
         Atomic!BlockOther, Proved!BlockOther
<1>6. \A tid : Atomic!uthread_resume(tid) => Proved!uthread_resume(tid)
  BY DEF Atomic!uthread_resume, Proved!uthread_resume
<1>7. \A n : Atomic!uthread_sleep(n) => Proved!uthread_sleep(n)
  BY DEF Atomic!uthread_sleep, Proved!uthread_sleep
<1>8. Atomic!Exit => Proved!Exit
  BY DEF Atomic!Exit, Proved!Exit
<1>9. Atomic!TickWhileExiting => Proved!TickWhileExiting
  BY DEF Atomic!TickWhileExiting, Proved!TickWhileExiting
<1>10. Atomic!Terminated => Proved!Terminated
  BY DEF Atomic!Terminated, Proved!Terminated
<1>11. Atomic!Ids = Proved!Ids
  BY DEF Atomic!Ids, Proved!Ids
<1> HIDE DEF Atomic!vars, Proved!vars
<1> QED
  BY <1>1, <1>2, <1>3, <1>4, <1>5, <1>6, <1>7, <1>8, <1>9, <1>10, <1>11
     DEF Atomic!Next, Proved!Next

\* The initial states are the same, too.
LEMMA SameInit == Atomic!Init => Proved!Init
  BY DEF Atomic!Init, Proved!Init

-----------------------------------------------------------------------------
(***************************************************************************)
(* What Seen is at rest and in between.                                    *)
(***************************************************************************)
\* Between two calls, what is seen is what there is.
LEMMA SeenLibrary ==
  ASSUME at \in Rest, at = "resumed" => ~d
  PROVE  Seen = Library /\ Untouched
BY DEF Seen, Library, Untouched, SameQuantum, SamePending, SameIds, SameSleep, SameSaved,
       SameQueue, SameList, SameState, SameHeap

\* The same of the state in which a call has ended.
LEMMA SeenLibraryAfter ==
  ASSUME at' \in Rest, at' = "resumed" => ~d'
  PROVE  Seen' = Library' /\ Untouched'
BY DEF Seen, Library, Untouched, SameQuantum, SamePending, SameIds, SameSleep, SameSaved,
       SameQueue, SameList, SameState, SameHeap

\* What the invariant says in terms of Seen changes only if Seen does.
LEMMA SameSeen ==
  ASSUME Seen' = Seen
  PROVE  /\ call' = call => Found' = Found
         /\ Caller' = Caller
         /\ Atomic!Live' = Atomic!Live
         /\ Atomic!available_index' = Atomic!available_index
         /\ Atomic!Sleepers' = Atomic!Sleepers /\ Atomic!Expiring' = Atomic!Expiring
         /\ Atomic!WakeOrders' = Atomic!WakeOrders
         /\ \A op : call' = call => (OnThread(op)' <=> OnThread(op))
         /\ proc' = proc => UNCHANGED Atomic!vars
<1>1. Atomic!Live' = Atomic!Live /\ Caller' = Caller
  BY DEF Atomic!Live, Caller
<1>2. call' = call => Found' = Found
  BY <1>1 DEF Found, Atomic!search_thread
<1>3. Atomic!available_index' = Atomic!available_index
  BY DEF Atomic!available_index
<1>4. Atomic!Sleepers' = Atomic!Sleepers
  BY <1>1 DEF Atomic!Sleepers
<1>5. Atomic!Expiring' = Atomic!Expiring
  BY <1>4 DEF Atomic!Expiring
<1>6. Atomic!Woken' = Atomic!Woken
  BY <1>5 DEF Atomic!Woken
<1>7. \A t, u : Atomic!ListedBefore(t, u)' <=> Atomic!ListedBefore(t, u)
  BY DEF Atomic!ListedBefore
<1>8. Atomic!WakeOrders' = Atomic!WakeOrders
  BY <1>6, <1>7 DEF Atomic!WakeOrders
<1>9. \A op : call' = call => (OnThread(op)' <=> OnThread(op))
  BY DEF OnThread, Atomic!check_if_thread_exist
<1>10. proc' = proc => UNCHANGED Atomic!vars
  BY DEF Atomic!vars, Atomic!lists, Atomic!pending, Atomic!fields
<1> QED
  BY <1>1, <1>2, <1>3, <1>4, <1>5, <1>8, <1>9, <1>10

\* A statement between two of a call is invisible.
LEMMA StepIsInvisible ==
  ASSUME NEW from, NEW to, Step(from, to), from \notin Rest, to \notin Rest
  PROVE  /\ Seen' = Seen /\ call' = call /\ proc' = proc /\ at' = to
         /\ UNCHANGED Atomic!vars
<1>1. Seen' = Seen
  BY DEF Seen, Step, Goto
<1>2. call' = call /\ proc' = proc /\ at' = to
  BY DEF Step, Goto
<1> QED
  BY <1>1, <1>2, SameSeen

\* The lists and the ids a call looks its thread up in are those it began with.
LEMMA TargetIsFound == SameList /\ id = Seen.id => Target = Found
  BY DEF SameList, Target, search_thread, Live, Found, Atomic!search_thread, Atomic!Live,
         Range, Atomic!Range

-----------------------------------------------------------------------------
(***************************************************************************)
(* One lemma per call: each statement keeps Halfway; all but the last are  *)
(* invisible, and the last is the action of UThreads.                      *)
(***************************************************************************)

\* uthread_terminate of another thread.
LEMMA KillSteps ==
  ASSUME Halfway,
         \/ ClearId /\ id[running_thread] # call.tid
         \/ KillUnqueue
         \/ KillErase
  PROVE  [Atomic!Next]_(Atomic!vars) /\ Halfway'
<1> USE DEF SameQuantum, SamePending, SameIds, SameSleep, SameSaved, SameQueue, SameList,
            SameState, SameHeap, fields, pending
<1>1. CASE ClearId /\ id[running_thread] # call.tid
  <2>1. Step("call", "kill") /\ Untouched /\ call \in Calls /\ call.tid # 0 /\ OnThread("terminate")
    BY <1>1 DEF ClearId, Halfway, Begins, Step, Goto, OnThread, Refused, NoSuchThread,
       check_if_thread_exist, Calls, Atomic!check_if_thread_exist, Untouched
  <2>2. /\ Seen' = Seen /\ call' = call /\ proc' = proc /\ at' = "kill" /\ UNCHANGED Atomic!vars
        /\ OnThread("terminate")' /\ Caller' = Caller
    BY <2>1, StepIsInvisible, SameSeen DEF Rest
  <2>3. Killing(Seen.ready_queue)'
    BY <1>1, <2>1, <2>2 DEF Killing, ClearId, Untouched, Caller
  <2> QED
    BY <1>1, <2>1, <2>2, <2>3 DEF Halfway, Rest, Step
<1>2. CASE KillUnqueue
  <2>1. Step("kill", "kill_erase") /\ Killing(Seen.ready_queue) /\ proc = "running"
    BY <1>2 DEF KillUnqueue, Halfway, Step, Goto, Rest
  <2>2. /\ Seen' = Seen /\ call' = call /\ proc' = proc /\ at' = "kill_erase"
        /\ UNCHANGED Atomic!vars /\ Found' = Found /\ Caller' = Caller
        /\ OnThread("terminate")'
    BY <2>1, StepIsInvisible, SameSeen DEF Rest, Killing
  <2>3. Target = Found
    BY <2>1, TargetIsFound DEF Killing
  <2>4. Killing(RemoveFirst(Seen.ready_queue, Found))'
    BY <1>2, <2>1, <2>2, <2>3 DEF Killing, KillUnqueue
  <2> QED
    BY <2>1, <2>2, <2>4 DEF Halfway, Rest
<1>3. CASE KillErase
  <2>1. /\ Step("kill_erase", "leave") /\ proc = "running"
        /\ Killing(RemoveFirst(Seen.ready_queue, Found))
    BY <1>3 DEF KillErase, Halfway, Step, Goto, Rest
  <2>2. at' = "leave" /\ proc' = proc /\ Untouched'
    BY <2>1, SeenLibraryAfter DEF Step, Goto, Rest
  <2>3. Target = Found
    BY <2>1, TargetIsFound DEF Killing
  <2>4. Atomic!TerminateOther(call.tid)
    BY <1>3, <2>1, <2>2, <2>3, SameOperators
       DEF Killing, KillErase, Untouched, Found, Atomic!TerminateOther, Atomic!pending,
           Atomic!fields
  <2>5. Atomic!uthread_terminate(call.tid) /\ call.tid \in Ids
    BY <2>1, <2>4 DEF Atomic!uthread_terminate, Killing, OnThread, Caller
  <2>6. Atomic!Next
    BY <2>5 DEF Atomic!Next, Ids, Atomic!Ids
  <2>7. Halfway'
    BY <2>1, <2>2 DEF Halfway, Rest
  <2> QED
    BY <2>6, <2>7
<1> QED
  BY <1>1, <1>2, <1>3

\* uthread_terminate of the main thread, up to exit(0).
LEMMA CleanupSteps ==
  ASSUME Halfway, CleanupObjects \/ CleanupLists \/ UnblockToExit
  PROVE  [Atomic!Next]_(Atomic!vars) /\ Halfway'
<1> USE DEF SameQuantum, SamePending, SameIds, SameSleep, SameSaved, SameQueue, SameList,
            SameState, SameHeap, fields, pending, lists
<1>1. CASE CleanupObjects
  <2>1. /\ Step("call", "clear") /\ Untouched /\ call \in Calls
        /\ call.tid = 0 /\ OnThread("terminate")
    BY <1>1 DEF CleanupObjects, Halfway, Begins, Step, Goto, OnThread, Refused, NoSuchThread,
       check_if_thread_exist, Calls, Atomic!check_if_thread_exist, Untouched
  <2>2. /\ Seen' = Seen /\ call' = call /\ proc' = proc /\ at' = "clear" /\ UNCHANGED Atomic!vars
        /\ OnThread("terminate")' /\ Atomic!Live' = Atomic!Live
    BY <2>1, StepIsInvisible, SameSeen DEF Rest
  <2>3. Live = Atomic!Live
    BY <2>1, SameOperators DEF Untouched, Live, Atomic!Live
  <2>4. Clearing(Seen.ready_queue, Seen.all_threads)'
    BY <1>1, <2>1, <2>2, <2>3 DEF Clearing, CleanupObjects, Untouched
  <2> QED
    BY <1>1, <2>1, <2>2, <2>4 DEF Halfway, Rest, Step
<1>2. CASE CleanupLists
  <2>1. Step("clear", "unblock") /\ Clearing(Seen.ready_queue, Seen.all_threads) /\ proc = "running"
    BY <1>2 DEF CleanupLists, Halfway, Step, Goto, Rest
  <2>2. /\ Seen' = Seen /\ call' = call /\ proc' = proc /\ at' = "unblock"
        /\ UNCHANGED Atomic!vars /\ Atomic!Live' = Atomic!Live /\ OnThread("terminate")'
    BY <2>1, StepIsInvisible, SameSeen DEF Rest, Clearing
  <2>3. Clearing(<<>>, <<>>)'
    BY <1>2, <2>1, <2>2 DEF Clearing, CleanupLists
  <2> QED
    BY <2>1, <2>2, <2>3 DEF Halfway, Rest
<1>3. CASE UnblockToExit
  <2>1. Clearing(<<>>, <<>>) /\ proc = "running" /\ proc' = "exiting" /\ at' = "exit"
    BY <1>3 DEF UnblockToExit, Halfway, Goto, Rest
  <2>2. Untouched'
    BY <2>1, SeenLibraryAfter DEF Rest
  <2>3. Atomic!TerminateMain
    BY <1>3, <2>1, <2>2 DEF Clearing, UnblockToExit, Untouched, Atomic!TerminateMain,
       Atomic!pending, Atomic!fields
  <2>4. Atomic!uthread_terminate(0) /\ 0 \in Ids
    BY <2>1, <2>3 DEF Atomic!uthread_terminate, Clearing, OnThread
  <2>5. Atomic!Next
    BY <2>4 DEF Atomic!Next, Ids, Atomic!Ids
  <2>6. Halfway'
    BY <2>1 DEF Halfway, Rest
  <2> QED
    BY <2>5, <2>6
<1> QED
  BY <1>1, <1>2, <1>3

\* exit(0), or the tick that comes before it.
LEMMA ExitSteps ==
  ASSUME Halfway, ExitCall \/ DeliverAtExit
  PROVE  [Atomic!Next]_(Atomic!vars) /\ Halfway'
<1>1. at = "exit" /\ at' = "ended" /\ proc = "exiting"
  BY DEF ExitCall, DeliverAtExit, Goto, Halfway
<1>2. Untouched /\ Untouched'
  BY <1>1, SeenLibrary, SeenLibraryAfter DEF Rest
<1>3. Atomic!Exit \/ Atomic!TickWhileExiting
  BY <1>1, <1>2 DEF ExitCall, DeliverAtExit, Exit, TickWhileExiting, Atomic!Exit,
     Atomic!TickWhileExiting, Untouched, SameQuantum, SamePending, SameIds, SameSleep,
     SameSaved, SameQueue, SameList, SameState, SameHeap, lists, pending, fields,
     Atomic!lists, Atomic!pending, Atomic!fields
<1>4. Halfway'
  BY <1>1 DEF Halfway, Rest
<1> QED
  BY <1>3, <1>4 DEF Atomic!Next

\* uthread_spawn.  The object made first is the last in the queue from then on.
LEMMA SpawnSteps ==
  ASSUME Halfway, Seen.ready_queue \in Seq(Obj), Seen.id \in [Obj -> Ids],
         SpawnQueue \/ SpawnList \/ SpawnId
  PROVE  [Atomic!Next]_(Atomic!vars) /\ Halfway'
<1> USE DEF SameQuantum, SamePending, SameIds, SameSleep, SameSaved, SameQueue, SameList,
            SameState, SameHeap, fields, pending
<1>1. CASE SpawnQueue
  <2>1. Step("call", "spawn_list") /\ Untouched
    BY <1>1 DEF SpawnQueue, Halfway, Step, Goto
  <2>2. /\ Seen' = Seen /\ proc' = proc /\ at' = "spawn_list" /\ UNCHANGED Atomic!vars
        /\ Atomic!available_index' = Atomic!available_index
    BY <2>1, StepIsInvisible, SameSeen DEF Rest
  <2>3. PICK index \in Ids, t \in Obj \ heap :
          /\ index \in available_index /\ heap' = heap \cup {t}
          /\ construct(t, index)
          /\ ready_queue' = Append(ready_queue, t)
    BY <1>1 DEF SpawnQueue, available_index
  <2>4. index \in Atomic!available_index
    BY <2>1, <2>3 DEF Untouched, available_index, Atomic!available_index, Ids, Atomic!Ids
  <2>5. SpawningAs(index, t)'
    BY <1>1, <2>1, <2>2, <2>3, <2>4 DEF SpawningAs, SpawnQueue, construct, Untouched
  <2>6. Spawning'
    BY <1>1, <2>1, <2>2, <2>3, <2>5 DEF Spawning, SpawnQueue, Untouched
  <2> QED
    BY <2>1, <2>2, <2>6 DEF Halfway, Rest, Step
<1>2. ASSUME NEW index \in Ids, NEW t \in Obj \ Seen.heap, SpawningAs(index, t)
      PROVE  NewThread = t /\ id[t] = index
  BY <1>2 DEF SpawningAs, NewThread, Last
<1>3. CASE SpawnList
  <2>1. Step("spawn_list", "spawn_id") /\ Spawning /\ proc = "running"
    BY <1>3 DEF SpawnList, Halfway, Step, Goto, Rest
  <2>2. /\ Seen' = Seen /\ proc' = proc /\ at' = "spawn_id" /\ UNCHANGED Atomic!vars
        /\ Atomic!available_index' = Atomic!available_index
    BY <2>1, StepIsInvisible, SameSeen DEF Rest
  <2>3. PICK index \in Ids, t \in Obj \ Seen.heap : SpawningAs(index, t)
    BY <2>1 DEF Spawning
  <2>4. NewThread = t /\ at = "spawn_list"
    BY <1>2, <2>1, <2>3 DEF Step
  <2>5. SpawningAs(index, t)'
    BY <1>3, <2>2, <2>3, <2>4 DEF SpawningAs, SpawnList
  <2>6. Spawning'
    BY <1>3, <2>1, <2>2, <2>3, <2>5 DEF Spawning, SpawnList
  <2> QED
    BY <2>1, <2>2, <2>6 DEF Halfway, Rest, Step
<1>4. CASE SpawnId
  <2>1. at = "spawn_id" /\ Spawning /\ proc = "running" /\ at' = "leave" /\ proc' = proc
    BY <1>4 DEF SpawnId, Halfway, Step, Goto, Rest
  <2>2. Untouched'
    BY <2>1, SeenLibraryAfter DEF Rest
  <2>3. PICK index \in Ids, t \in Obj \ Seen.heap : SpawningAs(index, t)
    BY <2>1 DEF Spawning
  <2>4. NewThread = t /\ id[t] = index
    BY <1>2, <2>3
  <2>5. /\ available_id' = Seen.available_id \cup {index}
        /\ heap' = heap /\ ready_queue' = ready_queue /\ all_threads' = all_threads
        /\ running_thread' = running_thread /\ total_quantum' = total_quantum
        /\ UNCHANGED <<pending, fields>>
    BY <1>4, <2>1, <2>4 DEF SpawnId, Spawning
  <2>6. Atomic!uthread_spawn
    <3>1. /\ Seen.heap' = Seen.heap \cup {t}
          /\ Seen.id' = [Seen.id EXCEPT ![t] = index]
          /\ Seen.state' = [Seen.state EXCEPT ![t] = "READY"]
          /\ Seen.asleep' = Seen.asleep \ {t}
          /\ Seen.time_to_sleep' = [Seen.time_to_sleep EXCEPT ![t] = 0]
          /\ Seen.quantum_counter' = [Seen.quantum_counter EXCEPT ![t] = 0]
          /\ Seen.saved' = Seen.saved \ {t}
          /\ Seen.ready_queue' = Append(Seen.ready_queue, t)
          /\ Seen.all_threads' = Append(Seen.all_threads, t)
          /\ Seen.available_id' = Seen.available_id \cup {index}
      BY <2>1, <2>2, <2>3, <2>5 DEF SpawningAs, Untouched
    <3>2. /\ Seen.running_thread' = Seen.running_thread
          /\ Seen.total_quantum' = Seen.total_quantum
          /\ Seen.thread_to_delete' = Seen.thread_to_delete /\ Seen.d' = Seen.d
      BY <2>1, <2>2, <2>5 DEF Spawning, Untouched
    <3>3. index \in Atomic!available_index
      BY <2>3 DEF SpawningAs
    <3> QED
      BY <2>1, <3>1, <3>2, <3>3 DEF Atomic!uthread_spawn, Atomic!pending, Ids, Atomic!Ids
  <2>7. Halfway'
    BY <2>1 DEF Halfway, Rest
  <2> QED
    BY <2>6, <2>7 DEF Atomic!Next
<1> QED
  BY <1>1, <1>3, <1>4

\* uthread_block of another thread.
LEMMA BlockOtherSteps ==
  ASSUME Halfway, BlockUnqueue \/ BlockState
  PROVE  [Atomic!Next]_(Atomic!vars) /\ Halfway'
<1> USE DEF SameQuantum, SamePending, SameIds, SameSleep, SameSaved, SameQueue, SameList,
            SameState, SameHeap, fields, pending, lists
<1>1. CASE BlockUnqueue
  <2>1. Step("call", "block_state") /\ Untouched /\ OnThread("block") /\ call.tid # 0
    BY <1>1 DEF BlockUnqueue, Halfway, Begins, Step, Goto, OnThread, Refused, NoSuchThread,
       NotForMain, check_if_thread_exist, Calls, Atomic!check_if_thread_exist, Untouched
  <2>2. /\ Seen' = Seen /\ call' = call /\ proc' = proc /\ at' = "block_state"
        /\ UNCHANGED Atomic!vars /\ Found' = Found /\ Caller' = Caller /\ OnThread("block")'
    BY <2>1, StepIsInvisible, SameSeen DEF Rest
  <2>3. Target = Found
    BY <2>1, TargetIsFound DEF Untouched
  <2>4. Found # Caller /\ Seen.state[Found] = "READY"
    BY <1>1, <2>1, <2>3 DEF BlockUnqueue, Begins, Refused, NoSuchThread, NothingToDo, Target,
       Untouched, OnThread, Caller
  <2>5. BlockingOther'
    BY <1>1, <2>1, <2>2, <2>3, <2>4 DEF BlockingOther, BlockUnqueue, Untouched
  <2> QED
    BY <2>1, <2>2, <2>5 DEF Halfway, Rest, Step
<1>2. CASE BlockState
  <2>1. at = "block_state" /\ BlockingOther /\ proc = "running" /\ at' = "leave" /\ proc' = proc
    BY <1>2 DEF BlockState, Halfway, Step, Goto, Rest
  <2>2. Untouched'
    BY <2>1, SeenLibraryAfter DEF Rest
  <2>3. Target = Found
    BY <2>1, TargetIsFound DEF BlockingOther
  <2>4. Atomic!BlockOther(Found)
    BY <1>2, <2>1, <2>2, <2>3, SameOperators
       DEF BlockState, SetState, BlockingOther, Untouched, Atomic!BlockOther, Atomic!pending
  <2>5. Atomic!uthread_block(call.tid) /\ call.tid \in Ids
    BY <2>1, <2>4 DEF Atomic!uthread_block, BlockingOther, OnThread, Found, Caller
  <2>6. Atomic!Next
    BY <2>5 DEF Atomic!Next, Ids, Atomic!Ids
  <2>7. Halfway'
    BY <2>1 DEF Halfway, Rest
  <2> QED
    BY <2>6, <2>7
<1> QED
  BY <1>1, <1>2

\* uthread_resume.
LEMMA ResumeSteps ==
  ASSUME Halfway, ResumeState \/ ResumeQueue
  PROVE  [Atomic!Next]_(Atomic!vars) /\ Halfway'
<1> USE DEF SameQuantum, SamePending, SameIds, SameSleep, SameSaved, SameQueue, SameList,
            SameState, SameHeap, fields, pending, lists, SetState
<1>1. CASE ResumeState
  <2>1. /\ at = "call" /\ Untouched /\ OnThread("resume") /\ proc = "running" /\ proc' = proc
        /\ call' = call
    BY <1>1 DEF ResumeState, Halfway, Begins, Step, Goto, OnThread, Refused, NoSuchThread,
       check_if_thread_exist, Calls, Atomic!check_if_thread_exist, Untouched, Rest
  <2>2. Target = Found
    BY <2>1, TargetIsFound DEF Untouched
  <2>3. Seen.state[Found] = "BLOCKED"
    BY <1>1, <2>1, <2>2 DEF ResumeState, Begins, Refused, NoSuchThread, NothingToDo, Target,
       Untouched, OnThread
  <2>4. CASE Target \in asleep
    <3>1. at' = "leave" /\ Untouched'
      BY <1>1, <2>4, SeenLibraryAfter DEF ResumeState, Step, Goto, Rest
    <3>2. Atomic!uthread_resume(call.tid) /\ call.tid \in Ids
      BY <1>1, <2>1, <2>2, <2>3, <2>4, <3>1
         DEF ResumeState, Untouched, Atomic!uthread_resume, Atomic!pending, OnThread, Found
    <3>3. Atomic!Next
      BY <3>2 DEF Atomic!Next, Ids, Atomic!Ids
    <3> QED
      BY <2>1, <3>1, <3>3 DEF Halfway, Rest
  <2>5. CASE Target \notin asleep
    <3>1. Step("call", "resume_queue")
      BY <1>1, <2>5 DEF ResumeState
    <3>2. /\ Seen' = Seen /\ at' = "resume_queue"
          /\ UNCHANGED Atomic!vars /\ Found' = Found /\ OnThread("resume")'
      BY <2>1, <3>1, StepIsInvisible, SameSeen DEF Rest
    <3>3. Resuming'
      BY <1>1, <2>1, <2>2, <2>3, <2>5, <3>2 DEF Resuming, ResumeState, Untouched
    <3> QED
      BY <2>1, <3>2, <3>3 DEF Halfway, Rest
  <2> QED
    BY <2>4, <2>5
<1>2. CASE ResumeQueue
  <2>1. at = "resume_queue" /\ Resuming /\ proc = "running" /\ at' = "leave" /\ proc' = proc
    BY <1>2 DEF ResumeQueue, Halfway, Step, Goto, Rest
  <2>2. Untouched'
    BY <2>1, SeenLibraryAfter DEF Rest
  <2>3. Target = Found
    BY <2>1, TargetIsFound DEF Resuming
  <2>4. Atomic!uthread_resume(call.tid) /\ call.tid \in Ids
    BY <1>2, <2>1, <2>2, <2>3
       DEF ResumeQueue, Resuming, Untouched, Atomic!uthread_resume, Atomic!pending, OnThread, Found
  <2>5. Atomic!Next
    BY <2>4 DEF Atomic!Next, Ids, Atomic!Ids
  <2> QED
    BY <2>1, <2>5 DEF Halfway, Rest
<1> QED
  BY <1>1, <1>2

\* uthread_terminate of the caller, up to the jump.  The thread erased from the
\* list is the one with the caller's id, which by IdTable is the caller.
LEMMA QuitSteps ==
  ASSUME Halfway, Proved!IInv,
         \/ ClearId /\ id[running_thread] = call.tid
         \/ QuitUnqueue
         \/ QuitErase
         \/ QuitNext
  PROVE  [Atomic!Next]_(Atomic!vars) /\ Halfway'
<1> USE DEF SameQuantum, SamePending, SameIds, SameSleep, SameSaved, SameQueue, SameList,
            SameState, SameHeap, fields, pending, lists
<1>1. CASE ClearId /\ id[running_thread] = call.tid
  <2>1. Step("call", "quit") /\ Untouched /\ call.tid # 0 /\ OnThread("terminate")
    BY <1>1 DEF ClearId, Halfway, Begins, Step, Goto, OnThread, Refused, NoSuchThread,
       check_if_thread_exist, Calls, Atomic!check_if_thread_exist, Untouched
  <2>2. /\ Seen' = Seen /\ call' = call /\ proc' = proc /\ at' = "quit" /\ UNCHANGED Atomic!vars
        /\ OnThread("terminate")' /\ Caller' = Caller
    BY <2>1, StepIsInvisible, SameSeen DEF Rest
  <2>3. Quitting(Seen.ready_queue, Seen.all_threads, Seen.thread_to_delete, Seen.d, Seen.state)'
    BY <1>1, <2>1, <2>2 DEF Quitting, ClearId, Untouched, Caller
  <2> QED
    BY <2>1, <2>2, <2>3 DEF Halfway, Rest, Step
<1>2. CASE QuitUnqueue
  <2>1. /\ Step("quit", "quit_erase") /\ proc = "running"
        /\ Quitting(Seen.ready_queue, Seen.all_threads, Seen.thread_to_delete, Seen.d, Seen.state)
    BY <1>2 DEF QuitUnqueue, Halfway, Step, Goto, Rest
  <2>2. /\ Seen' = Seen /\ call' = call /\ proc' = proc /\ at' = "quit_erase"
        /\ UNCHANGED Atomic!vars /\ OnThread("terminate")' /\ Caller' = Caller
    BY <2>1, StepIsInvisible, SameSeen DEF Rest, Quitting
  <2>3. Quitting(Tail(Seen.ready_queue), Seen.all_threads, Caller, Seen.d, Seen.state)'
    BY <1>2, <2>1, <2>2 DEF Quitting, QuitUnqueue, Caller
  <2> QED
    BY <2>1, <2>2, <2>3 DEF Halfway, Rest
<1>3. CASE QuitErase
  <2>1. /\ Step("quit_erase", "quit_next") /\ proc = "running"
        /\ Quitting(Tail(Seen.ready_queue), Seen.all_threads, Caller, Seen.d, Seen.state)
    BY <1>3 DEF QuitErase, Halfway, Step, Goto, Rest
  <2>2. /\ Seen' = Seen /\ call' = call /\ proc' = proc /\ at' = "quit_next"
        /\ UNCHANGED Atomic!vars /\ OnThread("terminate")' /\ Caller' = Caller
    BY <2>1, StepIsInvisible, SameSeen DEF Rest, Quitting
  <2>3. Target = Caller
    <3>1. /\ Seen.ready_queue \in Seq(Obj) /\ Seen.ready_queue # <<>>
          /\ Head(Seen.ready_queue) = Caller
          /\ Proved!Range(Seen.ready_queue) \subseteq Proved!Live
          /\ \A t, u \in Proved!Live : Seen.id[t] = Seen.id[u] => t = u
      BY <2>1 DEF Proved!IInv, Proved!TypeOK, Proved!QueueDiscipline, Proved!NoDanglingThread,
         Proved!IdTable, Caller
    <3>2. Caller \in Proved!Live
      BY <3>1 DEF Proved!Range
    <3>3. Proved!Live = Atomic!Live
      BY DEF Proved!Live, Atomic!Live, Proved!Range, Atomic!Range
    <3>4. Found = Caller
      BY <2>1, <3>1, <3>2, <3>3 DEF Found, Atomic!search_thread, Quitting
    <3> QED
      BY <2>1, <3>4, TargetIsFound DEF Quitting
  <2>4. Quitting(Tail(Seen.ready_queue), RemoveFirst(Seen.all_threads, Caller), Caller, TRUE,
                 Seen.state)'
    BY <1>3, <2>1, <2>2, <2>3 DEF Quitting, QuitErase
  <2> QED
    BY <2>1, <2>2, <2>4 DEF Halfway, Rest
<1>4. CASE QuitNext
  <2>1. /\ Step("quit_next", "switch") /\ proc = "running"
        /\ Quitting(Tail(Seen.ready_queue), RemoveFirst(Seen.all_threads, Caller), Caller, TRUE,
                    Seen.state)
    BY <1>4 DEF QuitNext, Halfway, Step, Goto, Rest
  <2>2. /\ Seen' = Seen /\ call' = call /\ proc' = proc /\ at' = "switch"
        /\ UNCHANGED Atomic!vars /\ OnThread("terminate")' /\ Caller' = Caller
    BY <2>1, StepIsInvisible, SameSeen DEF Rest, Quitting
  <2>3. Quit'
    BY <1>4, <2>1, <2>2 DEF Quit, Quitting, QuitNext
  <2> QED
    BY <2>1, <2>2, <2>3 DEF Halfway, Rest
<1> QED
  BY <1>1, <1>2, <1>3, <1>4

\* uthread_block of the caller, uthread_sleep and the tick, up to the statement
\* from which all three go the same way.
LEMMA DepartureSteps ==
  ASSUME Halfway, BlockPop \/ SleepFlags \/ SleepPop \/ TickWake \/ TickRotate
  PROVE  [Atomic!Next]_(Atomic!vars) /\ Halfway'
<1> USE DEF SameQuantum, SamePending, SameIds, SameSleep, SameSaved, SameQueue, SameList,
            SameState, SameHeap, fields, pending, lists
<1>1. CASE BlockPop
  <2>1. Step("call", "next") /\ Untouched /\ OnThread("block") /\ call.tid # 0
    BY <1>1 DEF BlockPop, Halfway, Begins, Step, Goto, OnThread, Refused, NoSuchThread,
       NotForMain, check_if_thread_exist, Calls, Atomic!check_if_thread_exist, Untouched
  <2>2. /\ Seen' = Seen /\ call' = call /\ proc' = proc /\ at' = "next"
        /\ UNCHANGED Atomic!vars /\ Found' = Found /\ Caller' = Caller /\ OnThread("block")'
    BY <2>1, StepIsInvisible, SameSeen DEF Rest
  <2>3. Found = Caller
    BY <1>1, <2>1, TargetIsFound DEF Untouched, BlockPop, Caller
  <2>4. BlockingSelf' /\ InTransit' /\ SameSaved'
    BY <1>1, <2>1, <2>2, <2>3 DEF BlockingSelf, BlockPop, InTransit, Untouched, Marked, Caller
  <2> QED
    BY <2>1, <2>2, <2>4 DEF Halfway, Departing, Rest, Step
<1>2. CASE SleepFlags
  <2>1. /\ Step("call", "sleep_pop") /\ Untouched /\ call.op = "sleep" /\ call.n \in SleepArgs
        /\ id[running_thread] # 0
    BY <1>2 DEF SleepFlags, Halfway, Begins, Step, Goto, Refused, NotForMain, Calls
  <2>2. /\ Seen' = Seen /\ call' = call /\ proc' = proc /\ at' = "sleep_pop"
        /\ UNCHANGED Atomic!vars /\ Caller' = Caller
    BY <2>1, StepIsInvisible, SameSeen DEF Rest
  <2>3. InTransit' /\ SameSaved' /\ Sleeping(Seen.ready_queue)'
    BY <1>2, <2>1, <2>2 DEF Sleeping, SleepFlags, InTransit, Untouched, Marked, Caller
  <2> QED
    BY <2>1, <2>2, <2>3 DEF Halfway, Rest, Step
<1>3. CASE SleepPop
  <2>1. /\ Step("sleep_pop", "next") /\ proc = "running"
        /\ InTransit /\ SameSaved /\ Sleeping(Seen.ready_queue)
    BY <1>3 DEF SleepPop, Halfway, Step, Goto, Rest
  <2>2. /\ Seen' = Seen /\ call' = call /\ proc' = proc /\ at' = "next"
        /\ UNCHANGED Atomic!vars /\ Caller' = Caller
    BY <2>1, StepIsInvisible, SameSeen DEF Rest
  <2>3. InTransit' /\ SameSaved' /\ Sleeping(Tail(Seen.ready_queue))'
    BY <1>3, <2>1, <2>2 DEF Sleeping, SleepPop, InTransit, Marked, Step
  <2> QED
    BY <2>1, <2>2, <2>3 DEF Halfway, Departing, Rest
<1>4. CASE TickWake
  <2>1. Step("tick", "tick_rotate") /\ Untouched /\ proc = "running"
    BY <1>4 DEF TickWake, Halfway, Step, Goto, Rest
  <2>2. /\ Seen' = Seen /\ proc' = proc /\ at' = "tick_rotate" /\ UNCHANGED Atomic!vars
        /\ Atomic!WakeOrders' = Atomic!WakeOrders /\ Atomic!Expiring' = Atomic!Expiring
        /\ Atomic!Sleepers' = Atomic!Sleepers
    BY <2>1, StepIsInvisible, SameSeen DEF Rest
  <2>3. Live = Atomic!Live
    BY <2>1, SameOperators DEF Untouched, Live, Atomic!Live
  <2>4. Sleepers = Atomic!Sleepers
    BY <2>1, <2>3 DEF Untouched, Sleepers, Atomic!Sleepers
  <2>5. Expiring = Atomic!Expiring
    BY <2>1, <2>4 DEF Untouched, Expiring, Atomic!Expiring, Dec, Atomic!Dec
  <2>6. Woken = Atomic!Woken
    BY <2>1, <2>5 DEF Untouched, Woken, Atomic!Woken
  <2>7. WakeOrders = Atomic!WakeOrders
    <3>1. \A t, u : ListedBefore(t, u) <=> Atomic!ListedBefore(t, u)
      BY <2>1 DEF Untouched, ListedBefore, Atomic!ListedBefore
    <3>2. \A S : Cardinality(S) = Atomic!Cardinality(S)
      BY DEF Cardinality, Atomic!Cardinality
    <3> QED
      BY <2>6, <3>1, <3>2, SameOperators DEF WakeOrders, Atomic!WakeOrders
  <2>8. SleepersCounted'
    BY <1>4, <2>1, <2>2, <2>4, <2>5 DEF TickWake, sleep_check, Untouched, SleepersCounted
  <2>9. InTransit' /\ SameSaved' /\ Waking'
    BY <1>4, <2>1, <2>2, <2>7, <2>8 DEF TickWake, InTransit, Waking, Untouched
  <2> QED
    BY <2>1, <2>2, <2>9 DEF Halfway, Rest
<1>5. CASE TickRotate
  <2>1. /\ Step("tick_rotate", "next") /\ proc = "running"
        /\ InTransit /\ SameSaved /\ Waking
    BY <1>5 DEF TickRotate, Halfway, Step, Goto, Rest
  <2>2. /\ Seen' = Seen /\ proc' = proc /\ at' = "next" /\ UNCHANGED Atomic!vars
        /\ Atomic!WakeOrders' = Atomic!WakeOrders /\ Atomic!Expiring' = Atomic!Expiring
        /\ Atomic!Sleepers' = Atomic!Sleepers /\ Caller' = Caller
    BY <2>1, StepIsInvisible, SameSeen DEF Rest
  <2>3. SleepersCounted'
    BY <1>5, <2>1, <2>2 DEF TickRotate, Waking, SleepersCounted
  <2>4. Rotating'
    BY <1>5, <2>1, <2>2, <2>3 DEF TickRotate, InTransit, Waking, Rotating, Marked, Caller
  <2>5. InTransit' /\ SameSaved'
    BY <1>5, <2>1, <2>2 DEF TickRotate, InTransit
  <2> QED
    BY <2>1, <2>2, <2>4, <2>5 DEF Halfway, Departing, Rest
<1> QED
  BY <1>1, <1>2, <1>3, <1>4, <1>5

\* The context is saved and the next thread marked.
LEMMA SaveStep ==
  ASSUME Halfway, SaveContext
  PROVE  [Atomic!Next]_(Atomic!vars) /\ Halfway'
<1> USE DEF SameQuantum, SamePending, SameIds, SameSleep, SameSaved, SameList, SameHeap,
            fields, pending, lists
<1>1. Step("next", "switch") /\ Departing /\ SameSaved /\ proc = "running" /\ at = "next"
  BY DEF SaveContext, Halfway, Step, Goto, Rest
<1>2. /\ Seen' = Seen /\ call' = call /\ proc' = proc /\ at' = "switch"
      /\ UNCHANGED Atomic!vars /\ Found' = Found /\ Caller' = Caller
      /\ OnThread("block")' <=> OnThread("block")
      /\ Atomic!WakeOrders' = Atomic!WakeOrders /\ Atomic!Expiring' = Atomic!Expiring
      /\ Atomic!Sleepers' = Atomic!Sleepers
  BY <1>1, StepIsInvisible, SameSeen DEF Rest
<1>3. InTransit' /\ saved' = Seen'.saved \cup {Caller'}
  BY <1>1, <1>2 DEF SaveContext, Departing, InTransit, Caller
<1>4. /\ state' = [state EXCEPT ![Head(ready_queue)] = "RUNNING"]
      /\ ready_queue' = ready_queue /\ UNCHANGED <<asleep, time_to_sleep>>
  BY DEF SaveContext
<1>5. CASE BlockingSelf
  BY <1>1, <1>2, <1>3, <1>4, <1>5 DEF BlockingSelf, Marked, Halfway, Departing, Rest
<1>6. CASE Sleeping(Tail(Seen.ready_queue))
  BY <1>1, <1>2, <1>3, <1>4, <1>6 DEF Sleeping, Marked, Halfway, Departing, Rest
<1>7. CASE Rotating
  <2>1. SleepersCounted'
    BY <1>2, <1>4, <1>7 DEF Rotating, SleepersCounted
  <2>2. Rotating'
    BY <1>1, <1>2, <1>4, <1>7, <2>1 DEF Rotating, Marked
  <2> QED
    BY <1>1, <1>2, <1>3, <2>2 DEF Halfway, Departing, Rest
<1> QED
  BY <1>1, <1>5, <1>6, <1>7 DEF Departing

\* siglongjmp, seen from outside: it is Dispatch, since Seen anticipates that the
\* thread jumped to frees the one pending deletion.
LEMMA JumpIsDispatch ==
  ASSUME Switch, SameQuantum, SameHeap
  PROVE  /\ Atomic!Dispatch(Head(ready_queue), thread_to_delete, d)
         /\ Seen'.ready_queue = ready_queue /\ Seen'.all_threads = all_threads
         /\ Seen'.available_id = available_id /\ Seen'.id = id /\ Seen'.state = state
         /\ Seen'.asleep = asleep /\ Seen'.time_to_sleep = time_to_sleep
         /\ Seen'.saved = saved /\ proc' = proc
         /\ at' \in {"resumed", "user"}
<1> DEFINE next == Head(ready_queue)
<1> USE DEF SameQuantum, SameHeap, lists, pending, Inc, Atomic!Inc
<1>1. /\ running_thread' = next /\ total_quantum' = Inc(total_quantum)
      /\ quantum_counter' = [quantum_counter EXCEPT ![next] = Inc(@)]
      /\ UNCHANGED <<lists, pending, heap, id, state, asleep, time_to_sleep, saved, proc>>
      /\ at' = IF next \in saved THEN "resumed" ELSE "user"
  BY DEF Switch, Goto
<1>2. Seen' = IF next \in saved /\ d
                THEN [Library' EXCEPT !.heap = @ \ {thread_to_delete},
                                      !.thread_to_delete = NULL, !.d = FALSE]
                ELSE Library'
  BY <1>1 DEF Seen, Rest
<1>3. /\ Seen'.ready_queue = ready_queue /\ Seen'.all_threads = all_threads
      /\ Seen'.available_id = available_id /\ Seen'.id = id /\ Seen'.state = state
      /\ Seen'.asleep = asleep /\ Seen'.time_to_sleep = time_to_sleep
      /\ Seen'.saved = saved /\ Seen'.running_thread = next
      /\ Seen'.total_quantum = Inc(total_quantum)
      /\ Seen'.quantum_counter = [quantum_counter EXCEPT ![next] = Inc(@)]
  BY <1>1, <1>2 DEF Library
<1>4. IF next \in saved /\ d
        THEN Seen'.heap = heap \ {thread_to_delete} /\ Seen'.thread_to_delete = NULL
             /\ Seen'.d = FALSE
        ELSE Seen'.thread_to_delete = thread_to_delete /\ Seen'.d = d /\ Seen'.heap = heap
  BY <1>1, <1>2 DEF Library
<1>5. Atomic!Dispatch(next, thread_to_delete, d)
  BY <1>3, <1>4 DEF Atomic!Dispatch
<1> QED
  BY <1>1, <1>3, <1>5

\* The jump ends whatever led to it.
LEMMA SwitchStep ==
  ASSUME Halfway, Switch
  PROVE  [Atomic!Next]_(Atomic!vars) /\ Halfway'
<1> USE DEF SameQuantum, SamePending, SameIds, SameSleep, SameSaved, SameList, SameHeap
<1>1. /\ at = "switch" /\ proc = "running"
      /\ (Departing /\ saved = Seen.saved \cup {Caller}) \/ Quit
  BY DEF Switch, Halfway, Rest
<1>2. SameQuantum /\ SameHeap
  BY <1>1 DEF Departing, InTransit, Quit, Quitting
<1>3. /\ Atomic!Dispatch(Head(ready_queue), thread_to_delete, d)
      /\ Seen'.ready_queue = ready_queue /\ Seen'.all_threads = all_threads
      /\ Seen'.available_id = available_id /\ Seen'.id = id /\ Seen'.state = state
      /\ Seen'.asleep = asleep /\ Seen'.time_to_sleep = time_to_sleep
      /\ Seen'.saved = saved /\ proc' = proc
      /\ at' \in {"resumed", "user"}
  BY <1>2, JumpIsDispatch
<1>4. Halfway'
  BY <1>1, <1>3 DEF Halfway, Rest
<1>5. ASSUME Departing, saved = Seen.saved \cup {Caller}, BlockingSelf
      PROVE  Atomic!Next
  <2>1. Atomic!block_handler("BLOCKED")
    BY <1>1, <1>3, <1>5 DEF Departing, InTransit, BlockingSelf, Marked, Caller,
       Atomic!block_handler
  <2>2. Atomic!uthread_block(call.tid) /\ call.tid \in Ids
    BY <1>1, <1>3, <1>5, <2>1 DEF BlockingSelf, OnThread, Found, Caller,
       Atomic!uthread_block, Atomic!BlockSelf
  <2> QED
    BY <2>2 DEF Atomic!Next, Ids, Atomic!Ids
<1>6. ASSUME Departing, saved = Seen.saved \cup {Caller}, Sleeping(Tail(Seen.ready_queue))
      PROVE  Atomic!Next
  <2>1. Atomic!block_handler("READY")
    BY <1>1, <1>3, <1>6 DEF Departing, InTransit, Sleeping, Marked, Caller,
       Atomic!block_handler
  <2>2. Atomic!uthread_sleep(call.n) /\ call.n \in SleepArgs
    BY <1>1, <1>3, <1>6, <2>1 DEF Sleeping, Caller, Atomic!uthread_sleep
  <2> QED
    BY <2>2 DEF Atomic!Next
<1>7. ASSUME Departing, saved = Seen.saved \cup {Caller}, Rotating
      PROVE  Atomic!Next
  <2>1. Atomic!sleep_check
    BY <1>3, <1>7 DEF Rotating, SleepersCounted, Atomic!sleep_check, Dec, Atomic!Dec
  <2>2. PICK w \in Atomic!WakeOrders :
          ready_queue = Append(Tail(Seen.ready_queue \o w), Seen.running_thread)
    BY <1>7 DEF Rotating, Caller
  <2>3. Atomic!time_handler
    BY <1>1, <1>3, <1>7, <2>1, <2>2 DEF Departing, InTransit, Rotating, Marked, Caller,
       Atomic!time_handler
  <2> QED
    BY <2>3 DEF Atomic!Next
<1>8. ASSUME Quit
      PROVE  Atomic!Next
  <2>1. Atomic!TerminateSelf
    BY <1>1, <1>3, <1>8, SameOperators DEF Quit, Quitting, Caller, Atomic!TerminateSelf
  <2>2. Atomic!uthread_terminate(call.tid) /\ call.tid \in Ids
    BY <1>1, <1>8, <2>1 DEF Quit, Quitting, OnThread, Caller, Atomic!uthread_terminate
  <2> QED
    BY <2>2 DEF Atomic!Next, Ids, Atomic!Ids
<1> QED
  BY <1>1, <1>4, <1>5, <1>6, <1>7, <1>8 DEF Departing

\* Beginnings, ends and calls without effect.
LEMMA QuietSteps ==
  ASSUME Halfway, MaskInv, Proved!IInv,
         Deliver \/ (\E c \in Calls : Enter(c)) \/ Refuse \/ FreePending \/ Leave
  PROVE  [Atomic!Next]_(Atomic!vars) /\ Halfway'
<1> USE DEF SameQuantum, SamePending, SameIds, SameSleep, SameSaved, SameQueue, SameList,
            SameState, SameHeap, fields, pending, lists, vars
<1>1. ASSUME at = "user", at' \in {"tick", "call"}, before' = Library, UNCHANGED vars,
             at' = "call" => call' \in Calls
      PROVE  Seen' = Seen /\ Halfway'
  <2>1. Seen = Library /\ Seen' = Library
    BY <1>1 DEF Seen, Rest
  <2>2. Untouched'
    BY <1>1, <2>1 DEF Untouched, Library
  <2> QED
    BY <1>1, <2>1, <2>2 DEF Halfway, Rest
<1>2. CASE Deliver
  <2>1. at = "user"
    BY <1>2 DEF Deliver, Deliverable, MaskInv, MaskMatchesCode
  <2> QED
    BY <1>1, <1>2, <2>1, SameSeen DEF Deliver
<1>3. ASSUME NEW c \in Calls, Enter(c)
      PROVE  Seen' = Seen /\ proc' = proc /\ Halfway'
  BY <1>1, <1>3 DEF Enter
<1>4. CASE Refuse
  <2>1. at = "call" /\ at' = "leave" /\ Untouched /\ proc = "running" /\ proc' = proc
    BY <1>4 DEF Refuse, Step, Goto, Halfway, Rest
  <2>2. Untouched'
    BY <2>1, SeenLibraryAfter DEF Rest
  <2>3. UNCHANGED Atomic!vars
    BY <1>4, <2>1, <2>2 DEF Refuse, Untouched, Atomic!vars, Atomic!lists, Atomic!pending,
       Atomic!fields
  <2> QED
    BY <2>1, <2>3 DEF Halfway, Rest
<1>5. CASE FreePending
  <2>1. at = "resumed" /\ at' = "leave" /\ proc = "running" /\ proc' = proc
    BY <1>5 DEF FreePending, Step, Goto, Halfway, Rest
  <2>2. ASSUME d PROVE Seen' = Seen
    <3>1. /\ Seen = [Library EXCEPT !.heap = @ \ {thread_to_delete}, !.thread_to_delete = NULL,
                                    !.d = FALSE]
          /\ Seen' = Library'
      BY <2>1, <2>2 DEF Seen, Rest
    <3>2. /\ heap' = heap \ {thread_to_delete} /\ thread_to_delete' = NULL /\ d' = FALSE
          /\ UNCHANGED <<ready_queue, all_threads, available_id, running_thread, total_quantum>>
          /\ UNCHANGED <<id, state, asleep, time_to_sleep, quantum_counter, saved>>
      BY <1>5, <2>2 DEF FreePending, lists, fields
    <3> QED
      BY <3>1, <3>2 DEF Library
  <2>3. ASSUME ~d PROVE Seen' = Seen
    <3>1. Seen = Library /\ Seen' = Library'
      BY <1>5, <2>1, <2>3 DEF Seen, Rest, FreePending
    <3>2. d = FALSE
      BY <2>3, <3>1 DEF Library, Proved!IInv, Proved!TypeOK
    <3> QED
      BY <1>5, <2>3, <3>1, <3>2 DEF FreePending, Library
  <2>4. Seen' = Seen
    BY <2>2, <2>3
  <2> QED
    BY <2>1, <2>4, SameSeen DEF Halfway, Rest
<1>6. CASE Leave
  <2>1. at = "leave" /\ at' = "user" /\ proc = "running" /\ proc' = proc
    BY <1>6 DEF Leave, Goto, Halfway, Rest
  <2>2. Seen' = Seen
    <3>1. Seen = Library /\ Seen' = Library'
      BY <2>1 DEF Seen, Rest
    <3> QED
      BY <1>6, <3>1 DEF Leave, Library
  <2> QED
    BY <2>1, <2>2, SameSeen DEF Halfway, Rest
<1> QED
  BY <1>2, <1>3, <1>4, <1>5, <1>6, SameSeen

\* The timer changes nothing that Halfway speaks of.
LEMMA TimerSteps ==
  ASSUME Halfway, UNCHANGED <<vars, control>>
  PROVE  UNCHANGED Atomic!vars /\ Halfway'
<1> USE DEF SameQuantum, SamePending, SameIds, SameSleep, SameSaved, SameQueue, SameList,
            SameState, SameHeap
<1>1. /\ UNCHANGED <<ready_queue, all_threads, available_id, running_thread, thread_to_delete, d,
                    total_quantum, heap, id, state, asleep, time_to_sleep, quantum_counter, saved,
                    proc, at, call, before>>
  BY DEF vars, control, lists, pending, fields
<1>2. Seen' = Seen
  BY <1>1 DEF Seen, Library
<1>3. /\ Found' = Found /\ Caller' = Caller
      /\ Atomic!Live' = Atomic!Live
      /\ Atomic!available_index' = Atomic!available_index
      /\ Atomic!Sleepers' = Atomic!Sleepers /\ Atomic!Expiring' = Atomic!Expiring
      /\ Atomic!WakeOrders' = Atomic!WakeOrders
      /\ \A op : OnThread(op)' <=> OnThread(op)
      /\ UNCHANGED Atomic!vars
  BY <1>1, <1>2, SameSeen
<1>4. /\ Untouched' <=> Untouched
      /\ InTransit' <=> InTransit
      /\ SleepersCounted' <=> SleepersCounted
  BY <1>1, <1>2, <1>3 DEF Untouched, InTransit, SleepersCounted
<1>5. Spawning' <=> Spawning
  BY <1>1, <1>2, <1>3 DEF Spawning, SpawningAs
<1>6. /\ Killing(Seen.ready_queue)' <=> Killing(Seen.ready_queue)
      /\ Killing(RemoveFirst(Seen.ready_queue, Found))'
           <=> Killing(RemoveFirst(Seen.ready_queue, Found))
      /\ Clearing(Seen.ready_queue, Seen.all_threads)'
           <=> Clearing(Seen.ready_queue, Seen.all_threads)
      /\ Clearing(<<>>, <<>>)' <=> Clearing(<<>>, <<>>)
  BY <1>1, <1>2, <1>3 DEF Killing, Clearing
<1>7. (BlockingOther' <=> BlockingOther) /\ (Resuming' <=> Resuming)
  BY <1>1, <1>2, <1>3 DEF BlockingOther, Resuming
<1>8. /\ Quitting(Seen.ready_queue, Seen.all_threads, Seen.thread_to_delete, Seen.d, Seen.state)'
           <=> Quitting(Seen.ready_queue, Seen.all_threads, Seen.thread_to_delete, Seen.d,
                        Seen.state)
      /\ Quitting(Tail(Seen.ready_queue), Seen.all_threads, Caller, Seen.d, Seen.state)'
           <=> Quitting(Tail(Seen.ready_queue), Seen.all_threads, Caller, Seen.d, Seen.state)
      /\ Quitting(Tail(Seen.ready_queue), RemoveFirst(Seen.all_threads, Caller), Caller, TRUE,
                  Seen.state)'
           <=> Quitting(Tail(Seen.ready_queue), RemoveFirst(Seen.all_threads, Caller), Caller,
                        TRUE, Seen.state)
      /\ Quit' <=> Quit
  BY <1>1, <1>2, <1>3 DEF Quitting, Quit
<1>9. /\ BlockingSelf' <=> BlockingSelf
      /\ Sleeping(Seen.ready_queue)' <=> Sleeping(Seen.ready_queue)
      /\ Sleeping(Tail(Seen.ready_queue))' <=> Sleeping(Tail(Seen.ready_queue))
      /\ Waking' <=> Waking
      /\ Rotating' <=> Rotating
  BY <1>1, <1>2, <1>3, <1>4 DEF BlockingSelf, Sleeping, Waking, Rotating, Marked
<1>10. Departing' <=> Departing
  BY <1>4, <1>9 DEF Departing
<1>11. Halfway'
  <2>1. /\ at' \in Rest \ {"exit", "ended"} => proc' = "running"
        /\ at' = "exit" => proc' = "exiting"
        /\ at' \notin Rest => proc' = "running"
    BY <1>1 DEF Halfway
  <2>2. /\ at' = "call" => Untouched' /\ call' \in Calls
        /\ at' = "tick" => Untouched'
        /\ at' \in {"spawn_list", "spawn_id"} => Spawning'
    BY <1>1, <1>4, <1>5 DEF Halfway
  <2>3. /\ at' = "kill" => Killing(Seen.ready_queue)'
        /\ at' = "kill_erase" => Killing(RemoveFirst(Seen.ready_queue, Found))'
        /\ at' = "clear" => Clearing(Seen.ready_queue, Seen.all_threads)'
        /\ at' = "unblock" => Clearing(<<>>, <<>>)'
    BY <1>1, <1>6 DEF Halfway
  <2>4. /\ at' = "quit" =>
             Quitting(Seen.ready_queue, Seen.all_threads, Seen.thread_to_delete, Seen.d,
                      Seen.state)'
        /\ at' = "quit_erase" =>
             Quitting(Tail(Seen.ready_queue), Seen.all_threads, Caller, Seen.d, Seen.state)'
        /\ at' = "quit_next" =>
             Quitting(Tail(Seen.ready_queue), RemoveFirst(Seen.all_threads, Caller), Caller,
                      TRUE, Seen.state)'
    BY <1>1, <1>8 DEF Halfway
  <2>5. /\ at' = "block_state" => BlockingOther'
        /\ at' = "resume_queue" => Resuming'
    BY <1>1, <1>7 DEF Halfway
  <2>6. /\ at' = "sleep_pop" => InTransit' /\ SameSaved' /\ Sleeping(Seen.ready_queue)'
        /\ at' = "tick_rotate" => InTransit' /\ SameSaved' /\ Waking'
    BY <1>1, <1>2, <1>4, <1>9 DEF Halfway
  <2>7. /\ at' = "next" => Departing' /\ SameSaved'
        /\ at' = "switch" => \/ Departing' /\ saved' = Seen'.saved \cup {Caller'}
                             \/ Quit'
    BY <1>1, <1>2, <1>3, <1>8, <1>10 DEF Halfway
  <2> QED
    BY <2>1, <2>2, <2>3, <2>4, <2>5, <2>6, <2>7 DEF Halfway
<1> QED
  BY <1>3, <1>11

-----------------------------------------------------------------------------
(* The refinement. *)

RefinementInv == Halfway /\ MaskInv /\ Proved!IInv

\* uthread_init leaves the library at rest, in an initial state of UThreads.
LEMMA RefinementInit == SignalInit => RefinementInv /\ Atomic!Init
<1> SUFFICES ASSUME SignalInit
             PROVE  RefinementInv /\ Atomic!Init
  OBVIOUS
<1>1. at = "user" /\ proc = "running" /\ Seen = Library
  BY DEF SignalInit, Init, Seen, Rest
<1>2. Atomic!Init
  BY <1>1 DEF SignalInit, Init, Library, Atomic!Init
<1>3. Proved!IInv
  BY <1>2, SameInit, Proved!InitInv, UThreadsAssumption
<1>4. Halfway
  BY <1>1 DEF Halfway, Rest
<1> QED
  BY <1>2, <1>3, <1>4, MaskInit DEF RefinementInv

\* Every step of the library and of the timer is a step of UThreads, or invisible.
LEMMA RefinementStep ==
  RefinementInv /\ [SignalNext]_allVars => RefinementInv' /\ [Atomic!Next]_(Atomic!vars)
<1> SUFFICES ASSUME RefinementInv, [SignalNext]_allVars
             PROVE  RefinementInv' /\ [Atomic!Next]_(Atomic!vars)
  OBVIOUS
<1>1. Halfway /\ MaskInv /\ Proved!IInv
  BY DEF RefinementInv
<1>2. Seen.ready_queue \in Seq(Obj) /\ Seen.id \in [Obj -> Ids]
  BY <1>1 DEF Proved!IInv, Proved!TypeOK, Ids, Proved!Ids
<1>3. Halfway' /\ [Atomic!Next]_(Atomic!vars)
  <2>1. CASE Raise \/ Ended \/ UNCHANGED allVars
    BY <1>1, <2>1, TimerSteps DEF Raise, Ended, allVars
  <2>2. CASE DeliverAtExit
    BY <1>1, <2>2, ExitSteps
  <2>3. CASE Deliver \/ \E c \in Calls : Enter(c)
    BY <1>1, <2>3, QuietSteps
  <2>4. CASE LibraryStep
    <3>1. CASE Refuse \/ FreePending \/ Leave
      BY <1>1, <3>1, QuietSteps
    <3>2. CASE SpawnQueue \/ SpawnList \/ SpawnId
      BY <1>1, <1>2, <3>2, SpawnSteps
    <3>3. CASE ClearId
      BY <1>1, <3>3, KillSteps, QuitSteps
    <3>4. CASE KillUnqueue \/ KillErase
      BY <1>1, <3>4, KillSteps
    <3>5. CASE QuitUnqueue \/ QuitErase \/ QuitNext
      BY <1>1, <3>5, QuitSteps
    <3>6. CASE CleanupObjects \/ CleanupLists \/ UnblockToExit
      BY <1>1, <3>6, CleanupSteps
    <3>7. CASE ExitCall
      BY <1>1, <3>7, ExitSteps
    <3>8. CASE BlockUnqueue \/ BlockState
      BY <1>1, <3>8, BlockOtherSteps
    <3>9. CASE ResumeState \/ ResumeQueue
      BY <1>1, <3>9, ResumeSteps
    <3>10. CASE BlockPop \/ SleepFlags \/ SleepPop \/ TickWake \/ TickRotate
      BY <1>1, <3>10, DepartureSteps
    <3>11. CASE SaveContext
      BY <1>1, <3>11, SaveStep
    <3>12. CASE Switch
      BY <1>1, <3>12, SwitchStep
    <3> QED
      BY <2>4, <3>1, <3>2, <3>3, <3>4, <3>5, <3>6, <3>7, <3>8, <3>9, <3>10, <3>11, <3>12
         DEF LibraryStep
  <2> QED
    BY <2>1, <2>2, <2>3, <2>4 DEF SignalNext
<1>4. Proved!IInv'
  BY <1>1, <1>3, SameNext, Proved!NextInv, UThreadsAssumption
<1> QED
  BY <1>1, <1>3, <1>4, MaskNext DEF RefinementInv

\* The library, step by step and with the timer expiring anywhere, is
\* the library in which each call and each tick is one action: what is proved of
\* UThreads holds between the calls of the code.
THEOREM CallsTakeEffectAtOnce == SignalSpec => CallsAreAtomic
<1>1. RefinementInv /\ [][SignalNext]_allVars => [][Atomic!Next]_(Atomic!vars)
  BY RefinementStep, PTL
<1> QED
  BY RefinementInit, <1>1, PTL DEF SignalSpec, CallsAreAtomic, Atomic!Spec

\* User code, whenever it runs, finds the library in the order the scheduler
\* relies on: the queue lists exactly the runnable threads, ids identify, nothing
\* refers to a freed object and the main thread is queued.
THEOREM UserCodeFindsOrder ==
  SignalSpec =>
    [](at = "user" => QueueDiscipline /\ IdTable /\ NoDanglingThread /\ MainStaysQueued)
<1>1. RefinementInv =>
        (at = "user" => QueueDiscipline /\ IdTable /\ NoDanglingThread /\ MainStaysQueued)
  <2> SUFFICES ASSUME RefinementInv, at = "user"
               PROVE  QueueDiscipline /\ IdTable /\ NoDanglingThread /\ MainStaysQueued
    OBVIOUS
  <2>1. Untouched
    BY SeenLibrary DEF Rest
  <2>2. /\ ready_queue = Seen.ready_queue /\ all_threads = Seen.all_threads
        /\ available_id = Seen.available_id /\ running_thread = Seen.running_thread
        /\ thread_to_delete = Seen.thread_to_delete /\ d = Seen.d
        /\ heap = Seen.heap /\ id = Seen.id /\ state = Seen.state
        /\ asleep = Seen.asleep /\ saved = Seen.saved
    BY <2>1 DEF Untouched, SameQuantum, SamePending, SameIds, SameSleep, SameSaved, SameQueue,
       SameList, SameState, SameHeap
  <2>3. \A s : Proved!Range(s) = Range(s) /\ (Proved!IsInjective(s) <=> IsInjective(s))
    BY DEF Proved!Range, Range, Proved!IsInjective, IsInjective
  <2>4. Proved!Live = Live /\ Proved!Waiting = Waiting
    BY <2>2, <2>3 DEF Proved!Live, Live, Proved!Waiting, Waiting
  <2>5. /\ Proved!QueueDiscipline /\ Proved!IdTable /\ Proved!NoDanglingThread
        /\ Proved!MainStaysQueued
    BY DEF RefinementInv, Proved!IInv
  <2>6. QueueDiscipline
    BY <2>2, <2>3, <2>4, <2>5 DEF Proved!QueueDiscipline, QueueDiscipline
  <2>7. IdTable
    BY <2>2, <2>3, <2>4, <2>5 DEF Proved!IdTable, IdTable
  <2>8. NoDanglingThread
    BY <2>2, <2>3, <2>4, <2>5 DEF Proved!NoDanglingThread, NoDanglingThread
  <2>9. MainStaysQueued
    BY <2>2, <2>3, <2>5 DEF Proved!MainStaysQueued, MainStaysQueued
  <2> QED
    BY <2>6, <2>7, <2>8, <2>9
<1> QED
  BY RefinementInit, RefinementStep, <1>1, PTL DEF SignalSpec
=============================================================================
