--------------------------- MODULE UThreads_proofs ---------------------------
(***************************************************************************)
(* Proofs about UThreads: type correctness and the safety invariants, for  *)
(* every set of addresses, every MAX_THREAD_NUM and every int width.       *)
(***************************************************************************)
EXTENDS UThreads, SequenceTheorems, FunctionTheorems, FiniteSetTheorems, TLAPS

-----------------------------------------------------------------------------
(* Lists without duplicates. *)

\* Removing an element of a list without duplicates leaves out exactly its
\* one position (std::list::erase in terminate_handler and
\* delete_thread_from_ready_queue).
LEMMA RemoveFirstPosition ==
  ASSUME NEW S, NEW s \in Seq(S), IsInjective(s), NEW k \in 1..Len(s)
  PROVE  LET r == RemoveFirst(s, s[k])
         IN  /\ r \in Seq(S)
             /\ Len(r) = Len(s) - 1
             /\ \A i \in 1..Len(r) : r[i] = IF i < k THEN s[i] ELSE s[i+1]
<1> DEFINE e == s[k]
           I == {i \in 1..Len(s) : s[i] = e}
           a == SubSeq(s, 1, k-1)
           b == SubSeq(s, k+1, Len(s))
<1>1. I = {k}
  BY DEF IsInjective
<1>2. Min(I) = k
  BY <1>1 DEF Min
<1>3. SelectInSeq(s, LAMBDA v : v = e) = k
  BY <1>1, <1>2 DEF SelectInSeq
<1>4. RemoveFirst(s, e) = a \o b
  BY <1>3 DEF RemoveFirst, RemoveAt
<1>5. /\ a \in Seq(S) /\ Len(a) = k-1 /\ \A i \in 1..k-1 : a[i] = s[i]
      /\ b \in Seq(S) /\ Len(b) = Len(s)-k /\ \A i \in 1..Len(s)-k : b[i] = s[k+i]
  OBVIOUS
<1>6. /\ a \o b \in Seq(S) /\ Len(a \o b) = Len(s) - 1
      /\ \A i \in 1..Len(s)-1 : (a \o b)[i] = IF i < k THEN s[i] ELSE s[i+1]
  <2> HIDE DEF a, b
  <2>1. /\ a \o b \in Seq(S) /\ Len(a \o b) = Len(a) + Len(b)
        /\ \A i \in 1..Len(a)+Len(b) : (a \o b)[i] = IF i <= Len(a) THEN a[i] ELSE b[i-Len(a)]
    BY <1>5, ConcatProperties
  <2> QED
    BY <1>5, <2>1
<1> QED
  BY <1>4, <1>6

\* What RemoveFirst does to a list without duplicates, as a set and at its head.
LEMMA RemoveFirstProperties ==
  ASSUME NEW S, NEW s \in Seq(S), IsInjective(s), NEW e
  PROVE  /\ RemoveFirst(s, e) \in Seq(S)
         /\ IsInjective(RemoveFirst(s, e))
         /\ Range(RemoveFirst(s, e)) = Range(s) \ {e}
         /\ s # <<>> /\ Head(s) # e =>
              RemoveFirst(s, e) # <<>> /\ Head(RemoveFirst(s, e)) = Head(s)
<1>1. CASE e \notin Range(s)
  <2>1. RemoveFirst(s, e) = s
    BY <1>1 DEF RemoveFirst, Range
  <2> QED
    BY <1>1, <2>1
<1>2. CASE e \in Range(s)
  <2>1. PICK k \in 1..Len(s) : s[k] = e
    BY <1>2 DEF Range
  <2> DEFINE r == RemoveFirst(s, e)
  <2>2. /\ r \in Seq(S) /\ Len(r) = Len(s) - 1
        /\ \A i \in 1..Len(r) : r[i] = IF i < k THEN s[i] ELSE s[i+1]
    BY <2>1, RemoveFirstPosition
  <2> HIDE DEF r
  <2>3. IsInjective(r)
    <3>1. ASSUME NEW i \in 1..Len(r), NEW j \in 1..Len(r), r[i] = r[j] PROVE i = j
      <4>1. PICK a \in 1..Len(s) : r[i] = s[a] /\ a = IF i < k THEN i ELSE i+1
        BY <2>2
      <4>2. PICK b \in 1..Len(s) : r[j] = s[b] /\ b = IF j < k THEN j ELSE j+1
        BY <2>2
      <4>3. a = b
        <5>1. DOMAIN s = 1..Len(s)
          OBVIOUS
        <5> QED
          BY <3>1, <4>1, <4>2, <5>1 DEF IsInjective
      <4> QED
        BY <4>1, <4>2, <4>3
    <3>2. DOMAIN r = 1..Len(r)
      BY <2>2
    <3> QED
      BY <3>1, <3>2 DEF IsInjective
  <2>4. ASSUME NEW x \in Range(r) PROVE x \in Range(s) \ {e}
    <3>1. PICK i \in 1..Len(r) : x = r[i]
      BY <2>2 DEF Range
    <3>2. PICK j \in 1..Len(s) : j # k /\ x = s[j]
      BY <2>2, <3>1
    <3> QED
      BY <2>1, <3>2 DEF Range, IsInjective
  <2>5. ASSUME NEW x \in Range(s) \ {e} PROVE x \in Range(r)
    <3>1. PICK j \in 1..Len(s) : x = s[j] /\ j # k
      BY <2>1 DEF Range
    <3>2. CASE j < k
      <4>1. j \in 1..Len(r) /\ r[j] = x
        BY <2>2, <3>1, <3>2
      <4> QED
        BY <4>1, <2>2 DEF Range
    <3>3. CASE j > k
      <4>1. j-1 \in 1..Len(r) /\ r[j-1] = x
        BY <2>2, <3>1, <3>3
      <4> QED
        BY <4>1, <2>2 DEF Range
    <3> QED
      BY <3>1, <3>2, <3>3
  <2>6. ASSUME s # <<>>, Head(s) # e PROVE r # <<>> /\ Head(r) = Head(s)
    <3>1. k # 1
      BY <2>1, <2>6
    <3>2. 1 \in 1..Len(r) /\ r[1] = s[1]
      BY <2>2, <3>1
    <3> QED
      BY <2>2, <2>6, <3>2
  <2> QED
    BY <2>2, <2>3, <2>4, <2>5, <2>6 DEF r
<1> QED
  BY <1>1, <1>2

\* pop_front on a list without duplicates.
LEMMA TailProperties ==
  ASSUME NEW S, NEW s \in Seq(S), IsInjective(s), s # <<>>
  PROVE  /\ Tail(s) \in Seq(S)
         /\ IsInjective(Tail(s))
         /\ Range(Tail(s)) = Range(s) \ {Head(s)}
         /\ Head(s) \in Range(s)
<1>1. /\ Tail(s) \in Seq(S) /\ Len(Tail(s)) = Len(s) - 1
      /\ \A i \in 1..Len(s)-1 : Tail(s)[i] = s[i+1]
      /\ Len(s) \in Nat \ {0} /\ DOMAIN s = 1..Len(s) /\ Head(s) = s[1]
      /\ DOMAIN Tail(s) = 1..Len(s)-1
  OBVIOUS
<1> DEFINE r == Tail(s)
<1> HIDE DEF r
<1>2. IsInjective(r)
  BY <1>1 DEF IsInjective, r
<1>3. ASSUME NEW x \in Range(r) PROVE x \in Range(s) \ {Head(s)}
  <2>1. PICK i \in 1..Len(s)-1 : x = s[i+1]
    BY <1>1 DEF Range, r
  <2> QED
    BY <1>1, <2>1 DEF Range, IsInjective
<1>4. ASSUME NEW x \in Range(s) \ {Head(s)} PROVE x \in Range(r)
  <2>1. PICK i \in 1..Len(s) : x = s[i] /\ i # 1
    BY <1>1 DEF Range
  <2>2. i-1 \in 1..Len(s)-1 /\ r[i-1] = x
    BY <1>1, <2>1 DEF r
  <2> QED
    BY <1>1, <2>2 DEF Range, r
<1>5. Range(r) = Range(s) \ {Head(s)}
  BY <1>3, <1>4
<1>6. Head(s) \in Range(s)
  BY <1>1 DEF Range
<1>7. r \in Seq(S)
  BY <1>1 DEF r
<1> QED
  BY <1>2, <1>5, <1>6, <1>7 DEF r

\* push_back of an element that is not in the list.
LEMMA PushBackProperties ==
  ASSUME NEW S, NEW s \in Seq(S), IsInjective(s), NEW e \in S, e \notin Range(s)
  PROVE  /\ Append(s, e) \in Seq(S)
         /\ Append(s, e) # <<>>
         /\ IsInjective(Append(s, e))
         /\ Range(Append(s, e)) = Range(s) \cup {e}
         /\ s # <<>> => Head(Append(s, e)) = Head(s)
<1> DEFINE r == Append(s, e)
<1>1. /\ r \in Seq(S) /\ Len(r) = Len(s) + 1 /\ r # <<>>
      /\ \A i \in 1..Len(s) : r[i] = s[i]
      /\ r[Len(s)+1] = e
      /\ Len(s) \in Nat /\ DOMAIN s = 1..Len(s) /\ DOMAIN r = 1..Len(s)+1
  OBVIOUS
<1> HIDE DEF r
<1>2. \A i \in 1..Len(s) : s[i] # e
  BY <1>1 DEF Range
<1>3. IsInjective(r)
  BY <1>1, <1>2 DEF IsInjective
<1>4. ASSUME NEW x \in Range(r) PROVE x \in Range(s) \cup {e}
  BY <1>1 DEF Range
<1>5. ASSUME NEW x \in Range(s) \cup {e} PROVE x \in Range(r)
  <2>1. CASE x = e
    BY <1>1, <2>1 DEF Range
  <2>2. CASE x \in Range(s)
    <3>1. PICK i \in 1..Len(s) : s[i] = x
      BY <1>1, <2>2 DEF Range
    <3>2. i \in 1..Len(s)+1 /\ r[i] = x
      BY <1>1, <3>1
    <3> QED
      BY <1>1, <3>2 DEF Range
  <2> QED
    BY <2>1, <2>2
<1>6. s # <<>> => Head(r) = Head(s)
  BY <1>1
<1> QED
  BY <1>1, <1>3, <1>4, <1>5, <1>6 DEF r

\* A list followed by another that shares no element with it (the threads that
\* wake up in sleep_check are pushed behind those already queued).
LEMMA PushAllProperties ==
  ASSUME NEW S, NEW s \in Seq(S), NEW w \in Seq(S), IsInjective(s), IsInjective(w),
         Range(s) \cap Range(w) = {}
  PROVE  /\ s \o w \in Seq(S)
         /\ IsInjective(s \o w)
         /\ Range(s \o w) = Range(s) \cup Range(w)
         /\ s # <<>> => s \o w # <<>> /\ Head(s \o w) = Head(s)
<1> DEFINE r == s \o w
<1>1. /\ r \in Seq(S) /\ Len(r) = Len(s) + Len(w)
      /\ \A i \in 1..Len(s)+Len(w) : r[i] = IF i <= Len(s) THEN s[i] ELSE w[i-Len(s)]
  BY ConcatProperties
<1>2. /\ Len(s) \in Nat /\ DOMAIN s = 1..Len(s)
      /\ Len(w) \in Nat /\ DOMAIN w = 1..Len(w)
      /\ DOMAIN r = 1..Len(s)+Len(w)
  BY <1>1
<1> HIDE DEF r
<1>3. \A i \in 1..Len(s), j \in 1..Len(w) : s[i] # w[j]
  BY <1>2 DEF Range
<1>4. ASSUME NEW i \in 1..Len(s)+Len(w), NEW j \in 1..Len(s)+Len(w), r[i] = r[j]
      PROVE  i = j
  <2>1. CASE i <= Len(s) /\ j <= Len(s)
    <3>1. i \in DOMAIN s /\ j \in DOMAIN s /\ s[i] = s[j]
      BY <1>1, <1>2, <1>4, <2>1
    <3> QED
      BY <3>1 DEF IsInjective
  <2>2. CASE i > Len(s) /\ j > Len(s)
    <3>1. i-Len(s) \in DOMAIN w /\ j-Len(s) \in DOMAIN w /\ w[i-Len(s)] = w[j-Len(s)]
      BY <1>1, <1>2, <1>4, <2>2
    <3>2. i-Len(s) = j-Len(s)
      BY <3>1 DEF IsInjective
    <3> QED
      BY <1>2, <3>2
  <2>3. CASE i <= Len(s) /\ j > Len(s)
    <3>1. i \in 1..Len(s) /\ j-Len(s) \in 1..Len(w) /\ s[i] = w[j-Len(s)]
      BY <1>1, <1>2, <1>4, <2>3
    <3> QED
      BY <3>1, <1>3
  <2>4. CASE i > Len(s) /\ j <= Len(s)
    <3>1. j \in 1..Len(s) /\ i-Len(s) \in 1..Len(w) /\ s[j] = w[i-Len(s)]
      BY <1>1, <1>2, <1>4, <2>4
    <3> QED
      BY <3>1, <1>3
  <2> QED
    BY <1>2, <2>1, <2>2, <2>3, <2>4
<1>5. ASSUME NEW x \in Range(r) PROVE x \in Range(s) \cup Range(w)
  <2>1. PICK i \in 1..Len(s)+Len(w) : x = r[i]
    BY <1>2 DEF Range
  <2>2. CASE i <= Len(s)
    BY <1>1, <1>2, <2>1, <2>2 DEF Range
  <2>3. CASE i > Len(s)
    <3>1. i-Len(s) \in 1..Len(w) /\ w[i-Len(s)] = x
      BY <1>1, <1>2, <2>1, <2>3
    <3> QED
      BY <1>2, <3>1 DEF Range
  <2> QED
    BY <1>2, <2>2, <2>3
<1>6. ASSUME NEW x \in Range(s) PROVE x \in Range(r)
  <2>1. PICK i \in 1..Len(s) : x = s[i]
    BY <1>2, <1>6 DEF Range
  <2>2. i \in 1..Len(s)+Len(w) /\ r[i] = x
    BY <1>1, <1>2, <2>1
  <2> QED
    BY <1>2, <2>2 DEF Range
<1>7. ASSUME NEW x \in Range(w) PROVE x \in Range(r)
  <2>1. PICK j \in 1..Len(w) : x = w[j]
    BY <1>2, <1>7 DEF Range
  <2> DEFINE i == j + Len(s)
  <2>2. i \in 1..Len(s)+Len(w) /\ r[i] = x
    <3>1. i \in 1..Len(s)+Len(w) /\ ~(i <= Len(s)) /\ i - Len(s) = j
      BY <1>2
    <3> QED
      BY <1>1, <2>1, <3>1
  <2> QED
    BY <1>2, <2>2 DEF Range
<1>8. s # <<>> => r # <<>> /\ Head(r) = Head(s)
  <2> HAVE s # <<>>
  <2>1. 1 \in 1..Len(s) /\ 1 \in 1..Len(s)+Len(w)
    BY <1>2
  <2> QED
    BY <1>1, <1>2, <2>1
<1>9. Range(r) = Range(s) \cup Range(w)
  BY <1>5, <1>6, <1>7
<1>10. IsInjective(r)
  BY <1>2, <1>4 DEF IsInjective
<1> QED
  BY <1>1, <1>8, <1>9, <1>10 DEF r
-----------------------------------------------------------------------------
(* The inductive invariant: the five invariants need each other. *)

IInv == TypeOK /\ QueueDiscipline /\ IdTable /\ NoDanglingThread /\ MainStaysQueued

\* What uthread_init leaves behind.
LEMMA InitInv == Init => IInv
<1> SUFFICES ASSUME Init PROVE IInv
  OBVIOUS
<1>1. PICK main \in Obj :
        /\ ready_queue = <<main>> /\ all_threads = <<main>> /\ available_id = {0}
        /\ running_thread = main /\ thread_to_delete = NULL /\ d = FALSE
        /\ total_quantum = 1 /\ heap = {main} /\ id = [t \in Obj |-> 0]
        /\ state = [t \in Obj |-> IF t = main THEN "RUNNING" ELSE "READY"]
        /\ asleep = {} /\ time_to_sleep = [t \in Obj |-> 0]
        /\ quantum_counter = [t \in Obj |-> IF t = main THEN 1 ELSE 0]
        /\ saved = {} /\ proc = "running"
  BY DEF Init
<1>2. Range(<<main>>) = {main} /\ IsInjective(<<main>>)
  BY DEF Range, IsInjective
<1>3. 0 \in Ids /\ 0 \in 0..MaxInt /\ 1 \in 0..MaxInt
  BY UThreadsAssumption DEF Ids
<1>4. TypeOK
  <2>1. ready_queue \in Seq(Obj) /\ all_threads \in Seq(Obj)
    BY <1>1
  <2> QED
    BY <1>1, <1>3, <2>1 DEF TypeOK, States
<1>5. Live = {main}
  BY <1>1, <1>2 DEF Live
<1>6. QueueDiscipline
  BY <1>1, <1>2, <1>5 DEF QueueDiscipline, Waiting
<1>7. IdTable
  BY <1>1, <1>2, <1>5 DEF IdTable
<1>8. NoDanglingThread
  BY <1>1, <1>2, <1>5 DEF NoDanglingThread
<1>9. MainStaysQueued
  BY <1>1, <1>2 DEF MainStaysQueued
<1> QED
  BY <1>4, <1>6, <1>7, <1>8, <1>9 DEF IInv

\* Inc and Dec stay within an int (thread::increace_quantum_counter,
\* thread::decreace_time_to_sleep).
LEMMA IntRange ==
  ASSUME NEW n \in 0..MaxInt
  PROVE  Inc(n) \in 0..MaxInt /\ Dec(n) \in 0..MaxInt /\ Inc(n) # n
BY UThreadsAssumption DEF Inc, Dec

\* A switch to a live thread keeps the counters in range, and frees at most the
\* pending thread, which is not live.
LEMMA DispatchProperties ==
  ASSUME NEW next \in Obj, NEW todel \in Obj \cup {NULL}, NEW del \in BOOLEAN, NEW L,
         TypeOK, Dispatch(next, todel, del), L \subseteq heap,
         del => todel \in heap \ L, ~del => todel = NULL
  PROVE  /\ running_thread' = next
         /\ total_quantum' \in 0..MaxInt
         /\ quantum_counter' \in [Obj -> 0..MaxInt]
         /\ thread_to_delete' \in Obj \cup {NULL}
         /\ d' \in BOOLEAN
         /\ heap' \subseteq Obj
         /\ L \subseteq heap'
         /\ d' => thread_to_delete' \in heap' \ L
         /\ ~d' => thread_to_delete' = NULL
<1>1. running_thread' = next /\ total_quantum' \in 0..MaxInt
  BY IntRange DEF Dispatch, TypeOK
<1>2. quantum_counter' \in [Obj -> 0..MaxInt]
  <2>1. quantum_counter' = [quantum_counter EXCEPT ![next] = Inc(quantum_counter[next])]
    BY DEF Dispatch
  <2> QED
    BY <2>1, IntRange DEF TypeOK
<1>3. CASE next \in saved' /\ del
  <2>1. heap' = heap \ {todel} /\ thread_to_delete' = NULL /\ d' = FALSE
    BY <1>3 DEF Dispatch
  <2> QED
    BY <1>1, <1>2, <1>3, <2>1 DEF TypeOK
<1>4. CASE ~(next \in saved' /\ del)
  <2>1. heap' = heap /\ thread_to_delete' = todel /\ d' = del
    BY <1>4 DEF Dispatch
  <2> QED
    BY <1>1, <1>2, <2>1 DEF TypeOK
<1> QED
  BY <1>3, <1>4

\* The same for a switch that leaves the pending deletion as it was.
LEMMA DispatchPending ==
  ASSUME IInv, proc = "running", NEW next \in Obj, Dispatch(next, thread_to_delete, d)
  PROVE  /\ running_thread' = next
         /\ total_quantum' \in 0..MaxInt
         /\ quantum_counter' \in [Obj -> 0..MaxInt]
         /\ thread_to_delete' \in Obj \cup {NULL}
         /\ d' \in BOOLEAN
         /\ heap' \subseteq Obj
         /\ Live \subseteq heap'
         /\ d' => thread_to_delete' \in heap' \ Live
         /\ ~d' => thread_to_delete' = NULL
<1>1. /\ TypeOK /\ thread_to_delete \in Obj \cup {NULL} /\ Live \subseteq heap
      /\ d \in BOOLEAN
      /\ d => thread_to_delete \in heap \ Live
      /\ ~d => thread_to_delete = NULL
  BY DEF IInv, TypeOK, NoDanglingThread
<1>2. CASE d = TRUE
  <2>1. Dispatch(next, thread_to_delete, TRUE)
    BY <1>2
  <2>2. thread_to_delete \in heap \ Live
    BY <1>1, <1>2
  <2> QED
    BY <1>1, <2>1, <2>2, DispatchProperties
<1>3. CASE d = FALSE
  <2>1. Dispatch(next, thread_to_delete, FALSE)
    BY <1>3
  <2>2. thread_to_delete = NULL
    BY <1>1, <1>3
  <2> QED
    BY <1>1, <2>1, <2>2, DispatchProperties
<1> QED
  BY <1>1, <1>2, <1>3

\* A thread other than main that leaves the processor finds another one behind it
\* in the queue: popping the front twice, as block_handler and terminate_handler
\* do, never meets an empty list.
LEMMA NextInQueue ==
  ASSUME IInv, proc = "running", id[running_thread] # 0
  PROVE  LET rest == Tail(ready_queue)
         IN  /\ rest \in Seq(Obj) /\ rest # <<>> /\ IsInjective(rest)
             /\ Range(rest) = Range(ready_queue) \ {running_thread}
             /\ Range(rest) = Waiting
             /\ Head(rest) \in Waiting /\ Head(rest) # running_thread
             /\ Head(rest) \in Obj
<1> USE DEF IInv
<1> DEFINE rest == Tail(ready_queue)
<1>1. /\ ready_queue \in Seq(Obj) /\ ready_queue # <<>> /\ IsInjective(ready_queue)
      /\ Head(ready_queue) = running_thread
      /\ Range(ready_queue) = Waiting \cup {running_thread}
      /\ running_thread \notin Waiting
  BY DEF TypeOK, QueueDiscipline, Waiting
<1>2. /\ rest \in Seq(Obj) /\ IsInjective(rest)
      /\ Range(rest) = Range(ready_queue) \ {running_thread}
  BY <1>1, TailProperties
<1>3. PICK main \in Range(ready_queue) : id[main] = 0
  BY DEF MainStaysQueued
<1>4. main \in Range(rest)
  BY <1>2, <1>3
<1>5. rest # <<>>
  BY <1>4 DEF Range
<1>6. Head(rest) \in Range(rest)
  BY <1>2, <1>5, TailProperties
<1>7. Range(rest) = Waiting
  BY <1>1, <1>2
<1>8. Waiting \subseteq Obj
  BY <1>1, <1>2, <1>7 DEF Range
<1> QED
  BY <1>1, <1>2, <1>5, <1>6, <1>7, <1>8

\* Live threads are allocated objects.
LEMMA LiveObjects ==
  ASSUME TypeOK
  PROVE  Live \subseteq Obj
BY DEF TypeOK, Live, Range

\* The threads that wake up are queued once each, in some order (sleep_check).
LEMMA WakeOrderProperties ==
  ASSUME TypeOK, NEW w \in WakeOrders
  PROVE  w \in Seq(Obj) /\ IsInjective(w) /\ Range(w) = Woken
<1>1. IsFiniteSet(Live)
  <2>0. /\ Len(all_threads) \in Nat /\ DOMAIN all_threads = 1..Len(all_threads)
        /\ all_threads \in [1..Len(all_threads) -> Obj]
    BY DEF TypeOK
  <2>1. all_threads \in Surjection(1..Len(all_threads), Live) /\ Len(all_threads) \in Nat
    BY <2>0 DEF Live, Range, Surjection
  <2>2. IsFiniteSet(1..Len(all_threads))
    BY <2>1, FS_Interval
  <2> QED
    BY <2>1, <2>2, FS_Surjection
<1>2. Woken \subseteq Live /\ Live \subseteq Obj
  BY LiveObjects DEF Woken, Expiring, Sleepers
<1>3. Cardinality(Woken) \in Nat
  BY <1>1, <1>2, FS_Subset, FS_CardinalityType
<1>4. w \in Bijection(1..Cardinality(Woken), Woken)
  BY DEF WakeOrders
<1>5. /\ w \in [1..Cardinality(Woken) -> Woken] /\ IsInjective(w)
      /\ \A t \in Woken : \E i \in 1..Cardinality(Woken) : w[i] = t
  BY <1>4 DEF Bijection, Injection, Surjection
<1>6. w \in Seq(Woken)
  BY <1>3, <1>5, IsASeq
<1> QED
  BY <1>2, <1>5, <1>6 DEF Range

-----------------------------------------------------------------------------
(* One lemma per operation. *)

\* block_handler, called by uthread_block with BLOCKED and by uthread_sleep with
\* READY and the sleep flag set.
LEMMA BlockHandlerInv ==
  ASSUME IInv, proc = "running", id[running_thread] # 0,
         NEW newState \in {"READY", "BLOCKED"}, block_handler(newState),
         asleep' \in {asleep, asleep \cup {running_thread}},
         newState = "READY" => running_thread \in asleep',
         time_to_sleep' \in [Obj -> 0..MaxInt]
  PROVE  IInv'
<1> DEFINE rest == Tail(ready_queue)
           next == Head(rest)
<1>1. /\ rest \in Seq(Obj) /\ rest # <<>> /\ IsInjective(rest)
      /\ Range(rest) = Range(ready_queue) \ {running_thread}
      /\ Range(rest) = Waiting
      /\ next \in Waiting /\ next # running_thread /\ next \in Obj
  BY NextInQueue
<1>2. /\ ready_queue' = rest
      /\ state' = [state EXCEPT ![running_thread] = newState, ![next] = "RUNNING"]
      /\ saved' = saved \cup {running_thread}
      /\ Dispatch(next, thread_to_delete, d)
      /\ UNCHANGED <<all_threads, available_id, id, proc>>
  BY DEF block_handler
<1> HIDE DEF rest, next
<1>3. TypeOK /\ Live' = Live
  BY <1>2 DEF IInv, Live
<1>4. /\ thread_to_delete \in Obj \cup {NULL} /\ d \in BOOLEAN
      /\ Live \subseteq heap /\ Range(ready_queue) \subseteq Live
      /\ d => thread_to_delete \in heap \ Live
      /\ ~d => thread_to_delete = NULL
  BY DEF IInv, TypeOK, NoDanglingThread
<1>5. /\ running_thread' = next
      /\ total_quantum' \in 0..MaxInt
      /\ quantum_counter' \in [Obj -> 0..MaxInt]
      /\ thread_to_delete' \in Obj \cup {NULL} /\ d' \in BOOLEAN
      /\ heap' \subseteq Obj /\ Live \subseteq heap'
      /\ d' => thread_to_delete' \in heap' \ Live
      /\ ~d' => thread_to_delete' = NULL
  BY <1>1, <1>2, DispatchPending
<1>6. TypeOK'
  BY <1>1, <1>2, <1>3, <1>5 DEF TypeOK, States
<1>7. QueueDiscipline'
  <2>1. /\ state \in [Obj -> States] /\ running_thread \in Obj
        /\ running_thread \in Live /\ running_thread \notin asleep
        /\ Live \subseteq Obj
    BY <1>3, <1>4, LiveObjects DEF IInv, TypeOK, QueueDiscipline
  <2>2. Waiting' = Waiting \ {next}
    BY <1>1, <1>2, <1>3, <2>1 DEF Waiting
  <2>3. /\ state'[next] = "RUNNING" /\ next \notin asleep'
    BY <1>1, <1>2, <2>1 DEF Waiting
  <2> QED
    BY <1>1, <1>2, <1>5, <2>2, <2>3 DEF QueueDiscipline, next
<1>8. IdTable'
  BY <1>2, <1>3 DEF IInv, IdTable
<1>9. NoDanglingThread'
  BY <1>1, <1>2, <1>3, <1>4, <1>5 DEF NoDanglingThread
<1>10. MainStaysQueued'
  <2>1. PICK main \in Range(ready_queue) :
          id[main] = 0 /\ (main # running_thread => main \in saved)
    BY DEF IInv, MainStaysQueued
  <2>2. main \in Range(rest) /\ main \in saved
    BY <1>1, <2>1
  <2> QED
    BY <1>2, <2>1, <2>2 DEF MainStaysQueued
<1> QED
  BY <1>6, <1>7, <1>8, <1>9, <1>10 DEF IInv

\* terminate_handler: the thread that terminates itself stays allocated until the
\* thread that runs next has left it behind.
LEMMA TerminateSelfInv ==
  ASSUME IInv, proc = "running", id[running_thread] # 0, TerminateSelf
  PROVE  IInv'
<1> DEFINE rest == Tail(ready_queue)
           next == Head(rest)
<1>1. /\ rest \in Seq(Obj) /\ rest # <<>> /\ IsInjective(rest)
      /\ Range(rest) = Range(ready_queue) \ {running_thread}
      /\ Range(rest) = Waiting
      /\ next \in Waiting /\ next # running_thread /\ next \in Obj
  BY NextInQueue
<1>2. /\ available_id' = available_id \ {id[running_thread]}
      /\ ready_queue' = rest
      /\ all_threads' = RemoveFirst(all_threads, running_thread)
      /\ state' = [state EXCEPT ![next] = "RUNNING"]
      /\ UNCHANGED <<id, asleep, time_to_sleep, saved, proc>>
      /\ Dispatch(next, running_thread, TRUE)
  BY DEF TerminateSelf
<1> HIDE DEF rest, next
<1>3. /\ TypeOK /\ Live \subseteq Obj /\ running_thread \in Live /\ Live \subseteq heap
      /\ Range(ready_queue) \subseteq Live
  BY LiveObjects DEF IInv, NoDanglingThread, QueueDiscipline
<1>4. /\ all_threads' \in Seq(Obj) /\ IsInjective(all_threads')
      /\ Live' = Live \ {running_thread}
  BY <1>2, RemoveFirstProperties DEF IInv, TypeOK, IdTable, Live
<1>5. /\ running_thread' = next
      /\ total_quantum' \in 0..MaxInt
      /\ quantum_counter' \in [Obj -> 0..MaxInt]
      /\ thread_to_delete' \in Obj \cup {NULL} /\ d' \in BOOLEAN
      /\ heap' \subseteq Obj /\ Live' \subseteq heap'
      /\ d' => thread_to_delete' \in heap' \ Live'
      /\ ~d' => thread_to_delete' = NULL
  <2>1. running_thread \in heap \ Live' /\ Live' \subseteq heap /\ TRUE \in BOOLEAN
    BY <1>3, <1>4
  <2> QED
    BY <1>1, <1>2, <1>3, <2>1, DispatchProperties
<1>6. TypeOK'
  BY <1>1, <1>2, <1>3, <1>4, <1>5 DEF TypeOK, States
<1>7. QueueDiscipline'
  <2>1. /\ state \in [Obj -> States] /\ running_thread \in Obj
        /\ state[running_thread] = "RUNNING" /\ running_thread \notin Waiting
    BY DEF IInv, TypeOK, QueueDiscipline, Waiting
  <2>2. Waiting' = Waiting \ {next}
    BY <1>1, <1>2, <1>3, <1>4, <2>1 DEF Waiting
  <2>3. state'[next] = "RUNNING" /\ next \notin asleep'
    BY <1>1, <1>2, <2>1 DEF Waiting
  <2> QED
    BY <1>1, <1>2, <1>5, <2>2, <2>3 DEF QueueDiscipline, next
<1>8. IdTable'
  BY <1>2, <1>3, <1>4 DEF IInv, IdTable
<1>9. NoDanglingThread'
  BY <1>1, <1>2, <1>3, <1>4, <1>5 DEF NoDanglingThread
<1>10. MainStaysQueued'
  <2>1. PICK main \in Range(ready_queue) :
          id[main] = 0 /\ (main # running_thread => main \in saved)
    BY DEF IInv, MainStaysQueued
  <2>2. main \in Range(rest) /\ main \in saved
    BY <1>1, <2>1
  <2> QED
    BY <1>2, <2>1, <2>2 DEF MainStaysQueued
<1> QED
  BY <1>6, <1>7, <1>8, <1>9, <1>10 DEF IInv

\* time_handler: the sleepers whose time is up join the queue, and the running
\* thread goes behind them.
LEMMA TimeHandlerInv ==
  ASSUME IInv, time_handler
  PROVE  IInv'
<1>1. PICK w \in WakeOrders :
        LET queue == Append(Tail(ready_queue \o w), running_thread)
            next  == Head(queue)
        IN  /\ ready_queue' = queue
            /\ state' = [state EXCEPT ![running_thread] = "READY", ![next] = "RUNNING"]
            /\ saved' = saved \cup {running_thread}
            /\ Dispatch(next, thread_to_delete, d)
  BY DEF time_handler
<1>2. /\ proc = "running" /\ sleep_check
      /\ UNCHANGED <<all_threads, available_id, id, proc>>
  BY DEF time_handler
<1> DEFINE all   == ready_queue \o w
           queue == Append(Tail(all), running_thread)
           next  == Head(queue)
<1>3. /\ TypeOK /\ Live \subseteq Obj /\ running_thread \in Live /\ Live \subseteq heap
      /\ Range(ready_queue) \subseteq Live /\ Live' = Live /\ Waiting \subseteq Live
      /\ running_thread \in Obj /\ running_thread \notin Waiting
      /\ state \in [Obj -> States] /\ running_thread \notin asleep
  BY <1>2, LiveObjects
     DEF IInv, NoDanglingThread, QueueDiscipline, Live, Waiting, TypeOK
<1>4. /\ w \in Seq(Obj) /\ IsInjective(w) /\ Range(w) = Woken
  BY <1>3, WakeOrderProperties
<1>5. /\ ready_queue \in Seq(Obj) /\ ready_queue # <<>> /\ IsInjective(ready_queue)
      /\ Head(ready_queue) = running_thread
      /\ Range(ready_queue) = Waiting \cup {running_thread}
  BY <1>2 DEF IInv, TypeOK, QueueDiscipline
<1>6. Woken \cap Range(ready_queue) = {}
  BY <1>3, <1>5 DEF Woken, Expiring, Sleepers, Waiting
<1>7. /\ all \in Seq(Obj) /\ IsInjective(all) /\ all # <<>>
      /\ Range(all) = Waiting \cup {running_thread} \cup Woken
      /\ Head(all) = running_thread
  BY <1>4, <1>5, <1>6, PushAllProperties
<1>8. running_thread \notin Woken
  BY <1>5, <1>6
<1>9. /\ Tail(all) \in Seq(Obj) /\ IsInjective(Tail(all))
      /\ Range(Tail(all)) = Waiting \cup Woken
  <2> HIDE DEF all
  <2>1. /\ Tail(all) \in Seq(Obj) /\ IsInjective(Tail(all))
        /\ Range(Tail(all)) = Range(all) \ {Head(all)}
    BY <1>7, TailProperties
  <2> QED
    BY <1>3, <1>7, <1>8, <2>1
<1>10. /\ queue \in Seq(Obj) /\ IsInjective(queue) /\ queue # <<>>
       /\ Range(queue) = Waiting \cup Woken \cup {running_thread}
  <2> DEFINE rest == Tail(all)
  <2> HIDE DEF all, rest
  <2>1. rest \in Seq(Obj) /\ IsInjective(rest) /\ running_thread \notin Range(rest)
    BY <1>3, <1>8, <1>9 DEF rest
  <2>2. /\ Append(rest, running_thread) \in Seq(Obj)
        /\ IsInjective(Append(rest, running_thread))
        /\ Append(rest, running_thread) # <<>>
        /\ Range(Append(rest, running_thread)) = Range(rest) \cup {running_thread}
    BY <1>3, <2>1, PushBackProperties
  <2> QED
    BY <1>9, <2>2 DEF rest
<1> HIDE DEF all, queue
<1>11. next \in Range(queue) /\ next \in Obj
  <2>1. next \in Range(queue)
    BY <1>10, TailProperties
  <2> QED
    BY <1>3, <1>10, <2>1 DEF Waiting, Woken, Expiring, Sleepers
<1> HIDE DEF next
<1>12. /\ ready_queue' = queue
       /\ state' = [state EXCEPT ![running_thread] = "READY", ![next] = "RUNNING"]
       /\ saved' = saved \cup {running_thread}
       /\ Dispatch(next, thread_to_delete, d)
  BY <1>1 DEF all, queue, next
<1>13. /\ asleep' = asleep \ Expiring
       /\ time_to_sleep' \in [Obj -> 0..MaxInt]
  BY <1>2, <1>3, IntRange DEF sleep_check, TypeOK
<1>14. /\ thread_to_delete \in Obj \cup {NULL} /\ d \in BOOLEAN
       /\ d => thread_to_delete \in heap \ Live
       /\ ~d => thread_to_delete = NULL
  BY <1>2 DEF IInv, TypeOK, NoDanglingThread
<1>15. /\ running_thread' = next
       /\ total_quantum' \in 0..MaxInt
       /\ quantum_counter' \in [Obj -> 0..MaxInt]
       /\ thread_to_delete' \in Obj \cup {NULL} /\ d' \in BOOLEAN
       /\ heap' \subseteq Obj /\ Live \subseteq heap'
       /\ d' => thread_to_delete' \in heap' \ Live
       /\ ~d' => thread_to_delete' = NULL
  BY <1>2, <1>11, <1>12, DispatchPending
<1>16. TypeOK'
  BY <1>2, <1>3, <1>10, <1>11, <1>12, <1>13, <1>15 DEF TypeOK, States
<1>17. QueueDiscipline'
  <2>1. Waiting' = (Waiting \cup Woken \cup {running_thread}) \ {next}
    <3>1. \A t \in Live : t # running_thread /\ t # next => state'[t] = state[t]
      BY <1>3, <1>11, <1>12
    <3>2. next # running_thread => state'[running_thread] = "READY"
      BY <1>3, <1>11, <1>12
    <3>3. state'[next] = "RUNNING"
      BY <1>3, <1>11, <1>12
    <3>4. ASSUME NEW t \in Live, t # next
          PROVE  t \in Waiting' <=> t \in Waiting \cup Woken \cup {running_thread}
      <4>1. CASE t = running_thread
        BY <1>3, <1>13, <3>2, <3>4, <4>1 DEF Waiting
      <4>2. CASE t # running_thread
        <5>1. state'[t] = state[t]
          BY <3>1, <3>4, <4>2
        <5> QED
          BY <1>3, <1>13, <3>4, <4>2, <5>1 DEF Waiting, Woken, Expiring, Sleepers
      <4> QED
        BY <4>1, <4>2
    <3>5. Woken \subseteq Live
      BY DEF Woken, Expiring, Sleepers
    <3> QED
      BY <1>3, <3>3, <3>4, <3>5 DEF Waiting
  <2>2. next \notin asleep'
    BY <1>3, <1>10, <1>11, <1>13 DEF Waiting, Woken
  <2>3. state'[next] = "RUNNING"
    BY <1>3, <1>11, <1>12
  <2> QED
    BY <1>10, <1>11, <1>12, <1>15, <2>1, <2>2, <2>3 DEF QueueDiscipline, next
<1>18. IdTable'
  BY <1>2, <1>3 DEF IInv, IdTable
<1>19. NoDanglingThread'
  <2>1. Range(queue) \subseteq Live
    BY <1>3, <1>10 DEF Woken, Expiring, Sleepers
  <2> QED
    BY <1>3, <1>12, <1>15, <2>1 DEF NoDanglingThread
<1>20. MainStaysQueued'
  <2>1. PICK main \in Range(ready_queue) :
          id[main] = 0 /\ (main # running_thread => main \in saved)
    BY <1>2 DEF IInv, MainStaysQueued
  <2>2. main \in Range(queue) /\ main \in saved'
    BY <1>5, <1>10, <1>12, <2>1
  <2> QED
    BY <1>2, <1>12, <2>1, <2>2 DEF MainStaysQueued
<1> QED
  BY <1>16, <1>17, <1>18, <1>19, <1>20 DEF IInv

\* uthread_spawn: the new object is at an address nothing refers to, and its id is
\* one no live thread has.
LEMMA SpawnInv ==
  ASSUME IInv, uthread_spawn
  PROVE  IInv'
<1>1. PICK index \in Ids, t \in Obj \ heap :
        /\ index \in available_index
        /\ heap' = heap \cup {t}
        /\ id' = [id EXCEPT ![t] = index]
        /\ state' = [state EXCEPT ![t] = "READY"]
        /\ asleep' = asleep \ {t}
        /\ time_to_sleep' = [time_to_sleep EXCEPT ![t] = 0]
        /\ quantum_counter' = [quantum_counter EXCEPT ![t] = 0]
        /\ saved' = saved \ {t}
        /\ ready_queue' = Append(ready_queue, t)
        /\ all_threads' = Append(all_threads, t)
        /\ available_id' = available_id \cup {index}
  BY DEF uthread_spawn, available_index
<1>2. /\ proc = "running"
      /\ UNCHANGED <<running_thread, thread_to_delete, d, total_quantum, proc>>
  BY DEF uthread_spawn, pending
<1>3. /\ TypeOK /\ Live \subseteq Obj /\ Live \subseteq heap
      /\ Range(ready_queue) \subseteq Live /\ running_thread \in Live
      /\ t \notin Live /\ t # running_thread /\ index \notin available_id
      /\ d => thread_to_delete # t
  BY <1>1, <1>2, LiveObjects DEF IInv, NoDanglingThread, QueueDiscipline, available_index
<1>4. /\ ready_queue' \in Seq(Obj) /\ IsInjective(ready_queue') /\ ready_queue' # <<>>
      /\ Range(ready_queue') = Range(ready_queue) \cup {t}
      /\ Head(ready_queue') = running_thread
  <2>1. /\ ready_queue \in Seq(Obj) /\ IsInjective(ready_queue) /\ ready_queue # <<>>
        /\ Head(ready_queue) = running_thread /\ t \notin Range(ready_queue)
    BY <1>2, <1>3 DEF IInv, TypeOK, QueueDiscipline
  <2> QED
    BY <1>1, <2>1, PushBackProperties
<1>5. all_threads' \in Seq(Obj) /\ IsInjective(all_threads') /\ Live' = Live \cup {t}
  <2>1. all_threads \in Seq(Obj) /\ IsInjective(all_threads) /\ t \notin Range(all_threads)
    BY <1>2, <1>3 DEF IInv, TypeOK, IdTable, Live
  <2> QED
    BY <1>1, <2>1, PushBackProperties DEF Live
<1>6. TypeOK'
  <2>1. 0 \in 0..MaxInt
    BY UThreadsAssumption
  <2> QED
    BY <1>1, <1>2, <1>3, <1>4, <1>5, <2>1 DEF TypeOK, States
<1>7. QueueDiscipline'
  <2>1. state \in [Obj -> States]
    BY <1>3 DEF TypeOK
  <2>2. Waiting' = Waiting \cup {t}
    BY <1>1, <1>3, <1>5, <2>1 DEF Waiting
  <2>3. state'[running_thread] = "RUNNING" /\ running_thread \notin asleep'
    BY <1>1, <1>2, <1>3, <2>1 DEF IInv, QueueDiscipline
  <2>4. Range(ready_queue) = Waiting \cup {running_thread}
    BY <1>2 DEF IInv, QueueDiscipline
  <2> QED
    BY <1>2, <1>4, <2>2, <2>3, <2>4 DEF QueueDiscipline
<1>8. IdTable'
  <2>1. /\ id \in [Obj -> Ids]
        /\ \A u, v \in Live : id[u] = id[v] => u = v
        /\ available_id = {id[u] : u \in Live}
    BY <1>2 DEF IInv, TypeOK, IdTable
  <2>2. id'[t] = index /\ \A u \in Live : id'[u] = id[u]
    BY <1>1, <1>3, <2>1
  <2>3. \A u, v \in Live' : id'[u] = id'[v] => u = v
    BY <1>3, <1>5, <2>1, <2>2
  <2>4. available_id' = {id'[u] : u \in Live'}
    BY <1>1, <1>5, <2>1, <2>2
  <2> QED
    BY <1>5, <2>3, <2>4 DEF IdTable
<1>9. NoDanglingThread'
  <2>1. /\ d => thread_to_delete \in heap \ Live
        /\ ~d => thread_to_delete = NULL
    BY <1>2 DEF IInv, NoDanglingThread
  <2> QED
    BY <1>1, <1>2, <1>3, <1>4, <1>5, <2>1 DEF NoDanglingThread
<1>10. MainStaysQueued'
  <2>1. PICK main \in Range(ready_queue) :
          id[main] = 0 /\ (main # running_thread => main \in saved)
    BY <1>2 DEF IInv, MainStaysQueued
  <2>2. main \in Range(ready_queue') /\ main # t /\ main \in Obj
    BY <1>3, <1>4, <2>1
  <2>3. id'[main] = 0
    BY <1>1, <1>3, <2>1, <2>2 DEF TypeOK
  <2>4. main # running_thread' => main \in saved'
    BY <1>1, <1>2, <2>1, <2>2
  <2> QED
    BY <2>2, <2>3, <2>4 DEF MainStaysQueued
<1> QED
  BY <1>6, <1>7, <1>8, <1>9, <1>10 DEF IInv

\* search_thread finds a live thread once check_if_thread_exist has said yes.
LEMMA SearchThread ==
  ASSUME IInv, proc = "running", NEW tid, check_if_thread_exist(tid)
  PROVE  search_thread(tid) \in Live /\ id[search_thread(tid)] = tid
<1>1. \E t \in Live : id[t] = tid
  BY DEF IInv, IdTable, check_if_thread_exist
<1> QED
  BY <1>1 DEF search_thread

\* uthread_terminate of another thread.
LEMMA TerminateOtherInv ==
  ASSUME IInv, proc = "running", NEW tid \in Ids, check_if_thread_exist(tid),
         tid # 0, id[running_thread] # tid, TerminateOther(tid)
  PROVE  IInv'
<1> DEFINE t == search_thread(tid)
<1>1. /\ available_id' = available_id \ {tid}
      /\ ready_queue' = RemoveFirst(ready_queue, t)
      /\ all_threads' = RemoveFirst(all_threads, t)
      /\ heap' = heap \ {t}
      /\ UNCHANGED <<running_thread, thread_to_delete, d, total_quantum, id, state, asleep,
                     time_to_sleep, quantum_counter, saved, proc>>
  BY DEF TerminateOther, pending, fields
<1>2. t \in Live /\ id[t] = tid
  BY SearchThread
<1> HIDE DEF t
<1>3. /\ TypeOK /\ Live \subseteq Obj /\ Live \subseteq heap
      /\ Range(ready_queue) \subseteq Live /\ t # running_thread
  BY <1>2, LiveObjects DEF IInv, NoDanglingThread
<1>4. /\ ready_queue' \in Seq(Obj) /\ IsInjective(ready_queue') /\ ready_queue' # <<>>
      /\ Range(ready_queue') = Range(ready_queue) \ {t}
      /\ Head(ready_queue') = running_thread
  <2>1. /\ ready_queue \in Seq(Obj) /\ IsInjective(ready_queue) /\ ready_queue # <<>>
        /\ Head(ready_queue) = running_thread
    BY DEF IInv, TypeOK, QueueDiscipline
  <2> QED
    BY <1>1, <1>3, <2>1, RemoveFirstProperties
<1>5. all_threads' \in Seq(Obj) /\ IsInjective(all_threads') /\ Live' = Live \ {t}
  <2>1. all_threads \in Seq(Obj) /\ IsInjective(all_threads)
    BY DEF IInv, TypeOK, IdTable
  <2> QED
    BY <1>1, <2>1, RemoveFirstProperties DEF Live
<1>6. TypeOK'
  BY <1>1, <1>3, <1>4, <1>5 DEF TypeOK
<1>7. QueueDiscipline'
  <2>1. Waiting' = Waiting \ {t}
    BY <1>1, <1>5 DEF Waiting
  <2> QED
    BY <1>1, <1>3, <1>4, <2>1 DEF IInv, QueueDiscipline
<1>8. IdTable'
  BY <1>1, <1>2, <1>5 DEF IInv, IdTable
<1>9. NoDanglingThread'
  <2>1. /\ d => thread_to_delete \in heap \ Live
        /\ ~d => thread_to_delete = NULL
    BY DEF IInv, NoDanglingThread
  <2> QED
    BY <1>1, <1>2, <1>3, <1>4, <1>5, <2>1 DEF NoDanglingThread
<1>10. MainStaysQueued'
  <2>1. PICK main \in Range(ready_queue) :
          id[main] = 0 /\ (main # running_thread => main \in saved)
    BY DEF IInv, MainStaysQueued
  <2> QED
    BY <1>1, <1>2, <1>4, <2>1 DEF MainStaysQueued
<1> QED
  BY <1>6, <1>7, <1>8, <1>9, <1>10 DEF IInv

\* uthread_terminate of the main thread: the process is no longer running threads.
LEMMA TerminateMainInv ==
  ASSUME IInv, TerminateMain
  PROVE  IInv'
<1>1. TypeOK'
  <2>1. ready_queue' \in Seq(Obj) /\ all_threads' \in Seq(Obj)
    BY DEF TerminateMain
  <2> QED
    BY <2>1 DEF IInv, TypeOK, TerminateMain, pending, fields
<1>2. proc' # "running"
  BY DEF TerminateMain
<1> QED
  BY <1>1, <1>2
     DEF IInv, QueueDiscipline, IdTable, NoDanglingThread, MainStaysQueued

\* exit(0), and a tick that comes before it.
LEMMA ExitInv ==
  ASSUME IInv, Exit \/ TickWhileExiting
  PROVE  IInv'
<1>1. /\ proc' \in {"exited", "aborted"}
      /\ UNCHANGED <<lists, running_thread, pending, total_quantum, heap, fields>>
  BY DEF Exit, TickWhileExiting
<1>2. TypeOK'
  BY <1>1 DEF IInv, TypeOK, lists, pending, fields
<1> QED
  BY <1>1, <1>2
     DEF IInv, QueueDiscipline, IdTable, NoDanglingThread, MainStaysQueued

\* uthread_block of another thread: it leaves the queue if it was in it.
LEMMA BlockOtherInv ==
  ASSUME IInv, proc = "running", NEW t \in Live, t # running_thread, id[t] # 0,
         BlockOther(t)
  PROVE  IInv'
<1>1. /\ state[t] = "READY"
      /\ ready_queue' = RemoveFirst(ready_queue, t)
      /\ state' = [state EXCEPT ![t] = "BLOCKED"]
      /\ UNCHANGED <<all_threads, available_id, running_thread, thread_to_delete, d,
                     total_quantum, heap, id, asleep, time_to_sleep, quantum_counter,
                     saved, proc>>
  BY DEF BlockOther, pending
<1>2. /\ TypeOK /\ Live \subseteq Obj /\ Live' = Live /\ running_thread \in Obj
      /\ state \in [Obj -> States]
  BY <1>1, LiveObjects DEF IInv, TypeOK, Live
<1>3. /\ ready_queue' \in Seq(Obj) /\ IsInjective(ready_queue') /\ ready_queue' # <<>>
      /\ Range(ready_queue') = Range(ready_queue) \ {t}
      /\ Head(ready_queue') = running_thread
  <2>1. /\ ready_queue \in Seq(Obj) /\ IsInjective(ready_queue) /\ ready_queue # <<>>
        /\ Head(ready_queue) = running_thread
    BY DEF IInv, TypeOK, QueueDiscipline
  <2> QED
    BY <1>1, <2>1, RemoveFirstProperties
<1>4. TypeOK'
  BY <1>1, <1>2, <1>3 DEF TypeOK, States
<1>5. QueueDiscipline'
  <2>1. Waiting' = Waiting \ {t}
    BY <1>1, <1>2 DEF Waiting
  <2> QED
    BY <1>1, <1>2, <1>3, <2>1 DEF IInv, QueueDiscipline
<1>6. IdTable' /\ NoDanglingThread'
  BY <1>1, <1>2, <1>3 DEF IInv, IdTable, NoDanglingThread
<1>7. MainStaysQueued'
  <2>1. PICK main \in Range(ready_queue) :
          id[main] = 0 /\ (main # running_thread => main \in saved)
    BY DEF IInv, MainStaysQueued
  <2> QED
    BY <1>1, <1>3, <2>1 DEF MainStaysQueued
<1> QED
  BY <1>4, <1>5, <1>6, <1>7 DEF IInv

\* uthread_resume: a blocked thread is queued unless it still sleeps.
LEMMA ResumeInv ==
  ASSUME IInv, NEW tid \in Ids, uthread_resume(tid)
  PROVE  IInv'
<1> DEFINE t == search_thread(tid)
<1>1. /\ proc = "running" /\ check_if_thread_exist(tid)
      /\ state[t] = "BLOCKED"
      /\ state' = [state EXCEPT ![t] = "READY"]
      /\ ready_queue' = IF t \in asleep THEN ready_queue ELSE Append(ready_queue, t)
      /\ UNCHANGED <<all_threads, available_id, running_thread, thread_to_delete, d,
                     total_quantum, heap, id, asleep, time_to_sleep, quantum_counter,
                     saved, proc>>
  BY DEF uthread_resume, pending
<1>2. t \in Live
  BY <1>1, SearchThread
<1> HIDE DEF t
<1>3. /\ TypeOK /\ Live \subseteq Obj /\ Live' = Live /\ t \in Obj
      /\ state \in [Obj -> States] /\ running_thread # t
      /\ t \notin Range(ready_queue)
  BY <1>1, <1>2, LiveObjects DEF IInv, TypeOK, QueueDiscipline, Waiting, Live
<1>4. /\ ready_queue' \in Seq(Obj) /\ IsInjective(ready_queue') /\ ready_queue' # <<>>
      /\ Range(ready_queue') = Range(ready_queue) \cup ({t} \ asleep)
      /\ Head(ready_queue') = running_thread
  <2>1. /\ ready_queue \in Seq(Obj) /\ IsInjective(ready_queue) /\ ready_queue # <<>>
        /\ Head(ready_queue) = running_thread
    BY <1>1 DEF IInv, TypeOK, QueueDiscipline
  <2>2. CASE t \in asleep
    BY <1>1, <2>1, <2>2
  <2>3. CASE t \notin asleep
    BY <1>1, <1>3, <2>1, <2>3, PushBackProperties
  <2> QED
    BY <2>2, <2>3
<1>5. TypeOK'
  BY <1>1, <1>3, <1>4 DEF TypeOK, States
<1>6. QueueDiscipline'
  <2>1. Waiting' = Waiting \cup ({t} \ asleep)
    BY <1>1, <1>2, <1>3 DEF Waiting
  <2> QED
    BY <1>1, <1>3, <1>4, <2>1 DEF IInv, QueueDiscipline
<1>7. IdTable' /\ NoDanglingThread'
  BY <1>1, <1>2, <1>3, <1>4 DEF IInv, IdTable, NoDanglingThread
<1>8. MainStaysQueued'
  <2>1. PICK main \in Range(ready_queue) :
          id[main] = 0 /\ (main # running_thread => main \in saved)
    BY <1>1 DEF IInv, MainStaysQueued
  <2> QED
    BY <1>1, <1>4, <2>1 DEF MainStaysQueued
<1> QED
  BY <1>5, <1>6, <1>7, <1>8 DEF IInv

\* uthread_block, of the caller or of another thread.
LEMMA BlockInv ==
  ASSUME IInv, NEW tid \in Ids, uthread_block(tid)
  PROVE  IInv'
<1> DEFINE t == search_thread(tid)
<1>1. /\ proc = "running" /\ tid # 0 /\ check_if_thread_exist(tid)
      /\ \/ t = running_thread /\ BlockSelf
         \/ t # running_thread /\ BlockOther(t)
  BY DEF uthread_block
<1>2. t \in Live /\ id[t] = tid
  BY <1>1, SearchThread
<1> HIDE DEF t
<1>3. CASE t = running_thread /\ BlockSelf
  <2>1. block_handler("BLOCKED") /\ UNCHANGED <<asleep, time_to_sleep>>
    BY <1>3 DEF BlockSelf
  <2>2. time_to_sleep' \in [Obj -> 0..MaxInt] /\ "BLOCKED" # "READY"
    BY <2>1 DEF IInv, TypeOK
  <2> QED
    BY <1>1, <1>2, <1>3, <2>1, <2>2, BlockHandlerInv
<1>4. CASE t # running_thread /\ BlockOther(t)
  BY <1>1, <1>2, <1>4, BlockOtherInv
<1> QED
  BY <1>1, <1>3, <1>4

\* uthread_sleep.
LEMMA SleepInv ==
  ASSUME IInv, NEW n \in SleepArgs, uthread_sleep(n)
  PROVE  IInv'
<1>1. /\ proc = "running" /\ id[running_thread] # 0
      /\ asleep' = asleep \cup {running_thread}
      /\ time_to_sleep' = [time_to_sleep EXCEPT ![running_thread] = n]
      /\ block_handler("READY")
  BY DEF uthread_sleep
<1>2. time_to_sleep' \in [Obj -> 0..MaxInt]
  BY <1>1, UThreadsAssumption DEF IInv, TypeOK
<1> QED
  BY <1>1, <1>2, BlockHandlerInv

\* uthread_terminate, of the main thread, of the caller or of another thread.
LEMMA TerminateInv ==
  ASSUME IInv, NEW tid \in Ids, uthread_terminate(tid)
  PROVE  IInv'
<1>1. /\ proc = "running" /\ check_if_thread_exist(tid)
      /\ \/ tid = 0 /\ TerminateMain
         \/ tid # 0 /\ id[running_thread] = tid /\ TerminateSelf
         \/ tid # 0 /\ id[running_thread] # tid /\ TerminateOther(tid)
  BY DEF uthread_terminate
<1> QED
  BY <1>1, TerminateMainInv, TerminateSelfInv, TerminateOtherInv

-----------------------------------------------------------------------------
(* The theorems. *)

LEMMA NextInv == IInv /\ [Next]_vars => IInv'
<1> SUFFICES ASSUME IInv, [Next]_vars PROVE IInv'
  OBVIOUS
<1>1. CASE time_handler
  BY <1>1, TimeHandlerInv
<1>2. CASE uthread_spawn
  BY <1>2, SpawnInv
<1>3. ASSUME NEW tid \in Ids, uthread_terminate(tid) PROVE IInv'
  BY <1>3, TerminateInv
<1>4. ASSUME NEW tid \in Ids, uthread_block(tid) PROVE IInv'
  BY <1>4, BlockInv
<1>5. ASSUME NEW tid \in Ids, uthread_resume(tid) PROVE IInv'
  BY <1>5, ResumeInv
<1>6. ASSUME NEW n \in SleepArgs, uthread_sleep(n) PROVE IInv'
  BY <1>6, SleepInv
<1>7. CASE Exit \/ TickWhileExiting
  BY <1>7, ExitInv
<1>8. CASE UNCHANGED vars
  BY <1>8
     DEF vars, lists, pending, fields, IInv, TypeOK, QueueDiscipline, IdTable,
         NoDanglingThread, MainStaysQueued, Waiting, Live
<1> QED
  BY <1>1, <1>2, <1>3, <1>4, <1>5, <1>6, <1>7, <1>8 DEF Next, Terminated

\* IInv is an invariant of the library under every order of calls and ticks.
LEMMA Invariance == Spec => []IInv
<1>1. Init => IInv
  BY InitInv
<1>2. IInv /\ [Next]_vars => IInv'
  BY NextInv
<1> QED
  BY <1>1, <1>2, PTL DEF Spec

\* The globals and the thread fields keep their types.
THEOREM TypeCorrect == Spec => []TypeOK
BY Invariance, PTL DEF IInv

\* The queue's head is the running thread and the rest are the runnable ones.
THEOREM QueueDisciplined == Spec => []QueueDiscipline
BY Invariance, PTL DEF IInv

\* Ids identify the live threads.
THEOREM IdsIdentify == Spec => []IdTable
BY Invariance, PTL DEF IInv

\* Nothing in use refers to a freed thread object.
THEOREM NoUseAfterFree == Spec => []NoDanglingThread
BY Invariance, PTL DEF IInv

\* The main thread can always be switched to.
THEOREM MainAlwaysQueued == Spec => []MainStaysQueued
BY Invariance, PTL DEF IInv

\* Every switch counts one quantum, for the thread it switches to.
LEMMA DispatchCounts ==
  ASSUME TypeOK, NEW next, NEW todel, NEW del, Dispatch(next, todel, del)
  PROVE  QuantumStep
<1>1. total_quantum' # total_quantum
  BY IntRange DEF TypeOK, Dispatch
<1> QED
  BY <1>1 DEF QuantumStep, Dispatch

\* An operation that starts no quantum leaves the processor and the counters alone.
LEMMA NextCounts == TypeOK /\ Next => [QuantumStep]_vars
<1> SUFFICES ASSUME TypeOK, Next, ~(UNCHANGED vars) PROVE QuantumStep
  OBVIOUS
<1>1. CASE time_handler
  <2>1. PICK next : Dispatch(next, thread_to_delete, d)
    BY <1>1 DEF time_handler
  <2> QED
    BY <2>1, DispatchCounts
<1>2. CASE uthread_spawn
  <2>1. PICK t \in Obj \ heap : quantum_counter' = [quantum_counter EXCEPT ![t] = 0]
    BY <1>2 DEF uthread_spawn
  <2>2. UNCHANGED <<running_thread, total_quantum>>
    BY <1>2 DEF uthread_spawn
  <2> QED
    BY <2>1, <2>2 DEF QuantumStep, TypeOK
<1>3. ASSUME NEW newState, block_handler(newState) PROVE QuantumStep
  BY <1>3, DispatchCounts DEF block_handler
<1>4. ASSUME UNCHANGED <<running_thread, total_quantum, quantum_counter>> PROVE QuantumStep
  BY <1>4 DEF QuantumStep
<1>5. ASSUME NEW tid \in Ids, uthread_terminate(tid) PROVE QuantumStep
  <2>1. CASE TerminateSelf
    BY <2>1, DispatchCounts DEF TerminateSelf
  <2>2. CASE TerminateMain \/ TerminateOther(tid)
    BY <2>2, <1>4 DEF TerminateMain, TerminateOther, fields
  <2> QED
    BY <1>5, <2>1, <2>2 DEF uthread_terminate
<1>6. ASSUME NEW tid \in Ids, uthread_block(tid) PROVE QuantumStep
  <2>1. CASE BlockSelf
    BY <2>1, <1>3 DEF BlockSelf
  <2>2. ASSUME NEW t, BlockOther(t) PROVE QuantumStep
    BY <2>2, <1>4 DEF BlockOther
  <2> QED
    BY <1>6, <2>1, <2>2 DEF uthread_block
<1>7. ASSUME NEW tid \in Ids, uthread_resume(tid) PROVE QuantumStep
  BY <1>7, <1>4 DEF uthread_resume
<1>8. ASSUME NEW n \in SleepArgs, uthread_sleep(n) PROVE QuantumStep
  BY <1>8, <1>3 DEF uthread_sleep
<1>9. CASE Exit \/ TickWhileExiting
  BY <1>9, <1>4 DEF Exit, TickWhileExiting, fields
<1> QED
  BY <1>1, <1>2, <1>5, <1>6, <1>7, <1>8, <1>9 DEF Next, Terminated

\* Quantums are counted once, for the thread that starts one.
THEOREM QuantumsCounted == Spec => QuantumAccounting
<1>1. TypeOK /\ [Next]_vars => [QuantumStep]_vars
  BY NextCounts
<1> QED
  BY <1>1, TypeCorrect, PTL DEF Spec, QuantumAccounting
-----------------------------------------------------------------------------
(***************************************************************************)
(* Round robin.  What each operation on a list without duplicates does to  *)
(* the places of the elements behind its head.                             *)
(***************************************************************************)
NoneMovesBack(old, new) ==
  \A i \in 2..Len(old), j \in 1..Len(new) : new[j] = old[i] => j <= i

AllMoveUp(old, new) ==
  \A i \in 2..Len(old), j \in 1..Len(new) : new[j] = old[i] => j < i

\* push_back of an element that is not in the list.
LEMMA PushBackPlaces ==
  ASSUME NEW S, NEW s \in Seq(S), IsInjective(s), NEW e \in S, e \notin Range(s)
  PROVE  NoneMovesBack(s, Append(s, e))
<1> DEFINE r == Append(s, e)
<1>1. /\ Len(r) = Len(s) + 1 /\ Len(s) \in Nat /\ DOMAIN s = 1..Len(s)
      /\ \A i \in 1..Len(s) : r[i] = s[i]
      /\ r[Len(s)+1] = e
  OBVIOUS
<1> HIDE DEF r
<1> SUFFICES ASSUME NEW i \in 2..Len(s), NEW j \in 1..Len(r), r[j] = s[i]
             PROVE  j <= i
  BY DEF NoneMovesBack, r
<1>2. j \in 1..Len(s)
  BY <1>1 DEF Range
<1>3. i = j
  BY <1>1, <1>2 DEF IsInjective
<1> QED
  BY <1>3

\* Removing an element, or asking to remove one that is not there.
LEMMA RemoveFirstPlaces ==
  ASSUME NEW S, NEW s \in Seq(S), IsInjective(s), NEW e
  PROVE  NoneMovesBack(s, RemoveFirst(s, e))
<1>1. CASE e \notin Range(s)
  <2>1. RemoveFirst(s, e) = s
    BY <1>1 DEF RemoveFirst, Range
  <2>2. \A i \in 2..Len(s), j \in 1..Len(s) : s[j] = s[i] => j = i
    BY DEF IsInjective
  <2> QED
    BY <2>1, <2>2 DEF NoneMovesBack
<1>2. CASE e \in Range(s)
  <2>1. PICK k \in 1..Len(s) : s[k] = e
    BY <1>2 DEF Range
  <2> DEFINE r == RemoveFirst(s, e)
  <2>2. /\ Len(r) = Len(s) - 1
        /\ \A i \in 1..Len(r) : r[i] = IF i < k THEN s[i] ELSE s[i+1]
    BY <2>1, RemoveFirstPosition
  <2> HIDE DEF r
  <2>3. DOMAIN s = 1..Len(s) /\ Len(s) \in Nat
    OBVIOUS
  <2> SUFFICES ASSUME NEW i \in 2..Len(s), NEW j \in 1..Len(r), r[j] = s[i]
               PROVE  j <= i
    BY DEF NoneMovesBack, r
  <2>4. i = j \/ i = j + 1
    BY <2>2, <2>3 DEF IsInjective
  <2> QED
    BY <2>2, <2>3, <2>4
<1> QED
  BY <1>1, <1>2

\* pop_front, as block_handler and terminate_handler do.
LEMMA PopFrontPlaces ==
  ASSUME NEW S, NEW s \in Seq(S), IsInjective(s), s # <<>>
  PROVE  AllMoveUp(s, Tail(s))
<1> DEFINE r == Tail(s)
<1>1. /\ Len(r) = Len(s) - 1 /\ Len(s) \in Nat \ {0} /\ DOMAIN s = 1..Len(s)
      /\ \A i \in 1..Len(r) : r[i] = s[i+1]
  OBVIOUS
<1> HIDE DEF r
<1> SUFFICES ASSUME NEW i \in 2..Len(s), NEW j \in 1..Len(r), r[j] = s[i]
             PROVE  j < i
  BY DEF AllMoveUp, r
<1>2. i = j + 1
  BY <1>1 DEF IsInjective
<1> QED
  BY <1>1, <1>2

\* time_handler: the threads that wake up are pushed, then the head goes last.
LEMMA RotatePlaces ==
  ASSUME NEW S, NEW s \in Seq(S), NEW w \in Seq(S), IsInjective(s \o w), s # <<>>
  PROVE  AllMoveUp(s, Append(Tail(s \o w), Head(s)))
<1> DEFINE all == s \o w
           r   == Append(Tail(all), Head(s))
<1>1. /\ all \in Seq(S) /\ Len(all) = Len(s) + Len(w) /\ DOMAIN all = 1..Len(all)
      /\ \A i \in 1..Len(s) : all[i] = s[i]
      /\ Len(s) \in Nat \ {0} /\ Len(w) \in Nat /\ IsInjective(all)
  BY ConcatProperties
<1>2. Head(s) = all[1] /\ all # <<>> /\ Head(s) \in S
  BY <1>1
<1>3. /\ Len(r) = Len(all)
      /\ \A j \in 1..Len(all)-1 : r[j] = all[j+1]
      /\ r[Len(all)] = all[1]
  <2> HIDE DEF all
  <2> QED
    BY <1>1, <1>2
<1> HIDE DEF all, r
<1> SUFFICES ASSUME NEW i \in 2..Len(s), NEW j \in 1..Len(r), r[j] = s[i]
             PROVE  j < i
  BY DEF AllMoveUp, r, all
<1>4. i \in 1..Len(all) /\ i # 1 /\ all[i] = s[i]
  BY <1>1
<1>5. j # Len(all)
  <2>1. 1 \in DOMAIN all /\ i \in DOMAIN all /\ all[i] # all[1]
    BY <1>1, <1>4 DEF IsInjective
  <2>2. ASSUME j = Len(all) PROVE r[j] = all[1]
    BY <1>3, <2>2
  <2> QED
    BY <1>4, <2>1, <2>2
<1>6. j \in 1..Len(all)-1 /\ j+1 \in 1..Len(all)
  <2>1. Len(r) = Len(all) /\ Len(all) \in Nat
    BY <1>1, <1>3
  <2> DEFINE n == Len(all)
  <2>2. n \in Nat /\ j \in 1..n /\ j # n
    BY <2>1, <1>5
  <2> HIDE DEF n
  <2>3. j \in 1..n-1 /\ j+1 \in 1..n
    BY <2>2
  <2> QED
    BY <2>3 DEF n
<1>7. all[j+1] = all[i]
  BY <1>3, <1>4, <1>6
<1>8. i = j + 1
  BY <1>1, <1>4, <1>6, <1>7 DEF IsInjective
<1> QED
  BY <1>6, <1>8

\* Once the process is on its way out the queue is empty.
EndInv == proc # "running" => ready_queue = <<>>

LEMMA EndInit == Init => EndInv
  BY DEF Init, EndInv

LEMMA EndNext == EndInv /\ [Next]_vars => EndInv'
<1> SUFFICES ASSUME EndInv, [Next]_vars PROVE EndInv'
  OBVIOUS
<1>1. CASE proc' = "running"
  BY <1>1 DEF EndInv
<1>2. CASE proc' # "running"
  <2>1. CASE \E tid \in Ids : uthread_terminate(tid)
    BY <1>2, <2>1 DEF uthread_terminate, TerminateMain, TerminateSelf, TerminateOther, EndInv
  <2>2. CASE Exit \/ TickWhileExiting
    BY <2>2 DEF Exit, TickWhileExiting, EndInv, lists
  <2>3. CASE UNCHANGED vars
    BY <2>3 DEF vars, lists, EndInv
  <2>4. CASE time_handler \/ uthread_spawn \/ \E n \in SleepArgs : uthread_sleep(n)
    BY <1>2, <2>4 DEF time_handler, uthread_spawn, uthread_sleep, block_handler
  <2>5. CASE \E tid \in Ids : uthread_block(tid) \/ uthread_resume(tid)
    BY <1>2, <2>5 DEF uthread_block, uthread_resume, BlockSelf, BlockOther, block_handler
  <2> QED
    BY <2>1, <2>2, <2>3, <2>4, <2>5 DEF Next, Terminated
<1> QED
  BY <1>1, <1>2

LEMMA QueueFacts ==
  ASSUME IInv, proc = "running"
  PROVE  /\ ready_queue \in Seq(Obj) /\ ready_queue # <<>> /\ IsInjective(ready_queue)
         /\ Head(ready_queue) = running_thread /\ running_thread \in Live
         /\ Live \subseteq Obj /\ Live \subseteq heap /\ Range(ready_queue) \subseteq Live
         /\ Range(ready_queue) = Waiting \cup {running_thread}
BY LiveObjects DEF IInv, TypeOK, QueueDiscipline, NoDanglingThread

LEMMA QueueNext == IInv /\ EndInv /\ [Next]_vars => [QueueStep]_vars
<1> SUFFICES ASSUME IInv, EndInv, Next, ~(UNCHANGED vars) PROVE QueueStep
  OBVIOUS
<1>1. ASSUME NoneMovesBack(ready_queue, ready_queue'), total_quantum' = total_quantum
      PROVE  QueueStep
  BY <1>1 DEF NoneMovesBack, QueueStep
<1>2. ASSUME AllMoveUp(ready_queue, ready_queue') PROVE QueueStep
  BY <1>2 DEF AllMoveUp, QueueStep, IInv, TypeOK
<1>3. CASE time_handler
  <2>1. PICK w \in WakeOrders : ready_queue' = Append(Tail(ready_queue \o w), running_thread)
    BY <1>3 DEF time_handler
  <2>2. proc = "running" /\ TypeOK
    BY <1>3 DEF time_handler, IInv
  <2>3. w \in Seq(Obj) /\ IsInjective(w) /\ Range(w) = Woken
    BY <2>2, WakeOrderProperties
  <2>4. Woken \cap Range(ready_queue) = {}
    BY <2>2, QueueFacts DEF Woken, Expiring, Sleepers, Waiting, IInv, QueueDiscipline
  <2>5. IsInjective(ready_queue \o w)
    BY <2>2, <2>3, <2>4, QueueFacts, PushAllProperties
  <2> QED
    BY <1>2, <2>1, <2>2, <2>3, <2>5, QueueFacts, RotatePlaces
<1>4. ASSUME NEW newState, proc = "running", block_handler(newState) PROVE QueueStep
  BY <1>2, <1>4, QueueFacts, PopFrontPlaces DEF block_handler
<1>5. CASE uthread_spawn
  <2>1. PICK t \in Obj \ heap : ready_queue' = Append(ready_queue, t)
    BY <1>5 DEF uthread_spawn
  <2>2. proc = "running" /\ total_quantum' = total_quantum
    BY <1>5 DEF uthread_spawn
  <2> QED
    BY <1>1, <2>1, <2>2, QueueFacts, PushBackPlaces
<1>6. ASSUME NEW tid \in Ids, uthread_terminate(tid) PROVE QueueStep
  <2>1. proc = "running"
    BY <1>6 DEF uthread_terminate
  <2>2. CASE TerminateMain
    BY <2>2 DEF TerminateMain, QueueStep
  <2>3. CASE TerminateSelf
    BY <1>2, <2>1, <2>3, QueueFacts, PopFrontPlaces DEF TerminateSelf
  <2>4. CASE TerminateOther(tid)
    BY <1>1, <2>1, <2>4, QueueFacts, RemoveFirstPlaces DEF TerminateOther
  <2> QED
    BY <1>6, <2>2, <2>3, <2>4 DEF uthread_terminate
<1>7. ASSUME NEW tid \in Ids, uthread_block(tid) PROVE QueueStep
  <2>1. proc = "running"
    BY <1>7 DEF uthread_block
  <2>2. CASE BlockSelf
    BY <1>4, <2>1, <2>2 DEF BlockSelf
  <2>3. ASSUME NEW t, BlockOther(t) PROVE QueueStep
    BY <1>1, <2>1, <2>3, QueueFacts, RemoveFirstPlaces DEF BlockOther
  <2> QED
    BY <1>7, <2>2, <2>3 DEF uthread_block
<1>8. ASSUME NEW tid \in Ids, uthread_resume(tid) PROVE QueueStep
  <2> DEFINE t == search_thread(tid)
  <2>1. /\ proc = "running" /\ check_if_thread_exist(tid) /\ state[t] = "BLOCKED"
        /\ ready_queue' = IF t \in asleep THEN ready_queue ELSE Append(ready_queue, t)
        /\ total_quantum' = total_quantum
    BY <1>8 DEF uthread_resume
  <2>2. t \in Live
    BY <2>1, SearchThread
  <2> HIDE DEF t
  <2>3. t \in Obj /\ t \notin Range(ready_queue)
    BY <2>1, <2>2, QueueFacts DEF IInv, QueueDiscipline, Waiting
  <2>4. CASE t \in asleep
    <3>1. ready_queue' = ready_queue /\ ready_queue \in Seq(Obj) /\ IsInjective(ready_queue)
      BY <2>1, <2>4, QueueFacts
    <3> QED
      BY <3>1, <2>1 DEF QueueStep, IsInjective
  <2>5. CASE t \notin asleep
    BY <1>1, <2>1, <2>3, <2>5, QueueFacts, PushBackPlaces
  <2> QED
    BY <2>4, <2>5
<1>9. ASSUME NEW n \in SleepArgs, uthread_sleep(n) PROVE QueueStep
  BY <1>4, <1>9 DEF uthread_sleep
<1>10. CASE Exit \/ TickWhileExiting
  BY <1>10 DEF Exit, TickWhileExiting, EndInv, lists, QueueStep
<1> QED
  BY <1>3, <1>5, <1>6, <1>7, <1>8, <1>9, <1>10 DEF Next, Terminated

\* Round robin for every number of threads: a waiting thread never moves back, and
\* every new quantum moves it forward (time_handler, block_handler,
\* terminate_handler, uthreads.cpp:140-240).
THEOREM RoundRobin == Spec => NoOvertaking
BY Invariance, EndInit, EndNext, QueueNext, PTL DEF Spec, NoOvertaking
=============================================================================
