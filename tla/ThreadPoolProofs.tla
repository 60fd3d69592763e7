-------------------------- MODULE ThreadPoolProofs --------------------------
(***************************************************************************)
(* For any number of jobs and workers, queues of any size and a futex or an *)
(* eventfd: the load of the workers and the number of running jobs are      *)
(* exact, and no response is left behind by a scheduler that sleeps in the  *)
(* kernel.                                                                  *)
(***************************************************************************)
EXTENDS ThreadPool, FiniteSetTheorems, SequenceTheorems, WellFoundedInduction, TLAPS

\* bio_thread_cleanup has not been called.
Pool == main_pc \notin Stopping \cup {"exited"}

Holding == {w \in Worker : worker_pc[w] \in {"run", "produce"}}

Unanswered == {j \in Job : state[j] \in {"submitted", "ran"}}

\* The messages in the queues q of the workers, each of them in one place.
Items(q) == UNION {{q[w][i] : i \in 1 .. Len(q[w])} : w \in Worker}

NoDup(q) ==
    \A w, v \in Worker : \A i \in 1 .. Len(q[w]), k \in 1 .. Len(q[v]) :
        q[w][i] = q[v][k] => w = v /\ i = k

\* x is taken from the queue of w, or put into it: q becomes r.
Takes(q, r, w, x) ==
    /\ q \in [Worker -> Seq(Job \cup {Terminate})]
    /\ q[w] # <<>>
    /\ x = Head(q[w])
    /\ r = [q EXCEPT ![w] = Tail(@)]

Puts(q, r, w, x) ==
    /\ q \in [Worker -> Seq(Job \cup {Terminate})]
    /\ x \in Job \cup {Terminate}
    /\ r = [q EXCEPT ![w] = Append(@, x)]

\* The variables the threads keep between their steps.
Steps ==
    /\ main_pc = "user" => drained = 1
    /\ main_pc \in Stopping => drained \in Worker
    /\ \A w \in Holding : msg[w] # NoJob
    /\ has_op_futex_wait => ack_counter <= notification_counter

\* A job that was submitted is in one place until its response is drained, and
\* its state says in which.
Held ==
    \A w \in Holding :
        /\ msg[w] \in Job
        /\ state[msg[w]] = IF worker_pc[w] = "run" THEN "submitted" ELSE "ran"
        /\ msg[w] \notin Items(request_queue) \cup Items(response_queue)
        /\ \A v \in Holding : msg[v] = msg[w] => v = w

Placed ==
    Pool =>
        /\ \A j \in Items(request_queue) : j \in Job /\ state[j] = "submitted"
        /\ \A j \in Items(response_queue) : j \in Job /\ state[j] = "ran"
        /\ NoDup(request_queue)
        /\ NoDup(response_queue)
        /\ Held
        /\ main_pc = "submit_drain" => job \in Job /\ state[job] = "new"

\* The submission of jobs is counted, so they are finitely many.
Counted == IsFiniteSet(Unanswered)

\* A response that came after its queue was drained is one the wait for the
\* kernel will notice, or its worker is still to notify.
Noticed(w) ==
    \/ worker_pc[w] = "notify"
    \/ has_op_futex_wait /\ ack_counter # notification_counter
    \/ ~has_op_futex_wait /\ (notification_counter > 0 \/ completions > 0)

Passed(w) == main_pc = "enter" \/ (main_pc = "update" /\ w < drained)

LateResponsesNoticed ==
    \A w \in Worker : Passed(w) /\ response_queue[w] # <<>> => Noticed(w)

\* A scheduler that sleeps while jobs run can be woken.
Attended ==
    main_pc = "asleep" /\ num_running_async_jobs > 0 => completions > 0 \/ waiters > 0

IInv ==
    /\ TypeOK
    /\ Steps
    /\ Placed
    /\ Counted
    /\ LoadExact
    /\ LateResponsesNoticed
    /\ Attended
    /\ NoLostNotification
-----------------------------------------------------------------------------
(***************************************************************************)
(* The operators of the model.                                              *)
(***************************************************************************)
LEMMA NatOrder ==
    \E R : IsWellFoundedOn(R, Nat) /\ \A n, m \in Nat : n < m => <<n, m>> \in R
<1>1. \A n, m \in Nat : n < m => <<n, m>> \in OpToRel(<, Nat)
  BY DEF OpToRel
<1> WITNESS OpToRel(<, Nat)
<1> QED BY <1>1, NatLessThanWellFounded, Zenon

\* A set of natural numbers that is not empty has a least element.
LEMMA LeastElement ==
    ASSUME NEW T, T \subseteq Nat, T # {}
    PROVE  \E n \in T : \A m \in T : n <= m
<1>1. PICK R : IsWellFoundedOn(R, Nat) /\ \A n, m \in Nat : n < m => <<n, m>> \in R
  BY NatOrder
<1>2. IsWellFoundedOn(R, Nat)
  BY <1>1
<1>3. PICK n \in T : \A m \in T : ~ (<<m, n>> \in R)
  BY <1>2, WFMin, Zenon
<1>4. \A m \in T : ~ (m < n)
  BY <1>1, <1>3, Zenon
<1> QED BY <1>4

\* The search of bio_run_async finds a worker.
LEMMA LeastBusyExists ==
    ASSUME load \in [Worker -> Nat]
    PROVE  LeastBusy \in Worker
<1> DEFINE Loads == {load[w] : w \in Worker}
<1>1. Loads \subseteq Nat /\ Loads # {}
  BY ThreadsAssumption DEF Worker
<1>2. PICK n \in Loads : \A m \in Loads : n <= m
  BY <1>1, LeastElement
<1> DEFINE Least == {w \in Worker : load[w] = n}
<1>3. Least \subseteq Nat /\ Least # {}
  BY <1>2, ThreadsAssumption DEF Worker
<1>4. PICK w \in Least : \A v \in Least : w <= v
  BY <1>3, LeastElement
<1>5. \A v \in Worker : load[w] < load[v] \/ (load[w] = load[v] /\ w <= v)
  <2> TAKE v \in Worker
  <2>1. load[w] = n /\ load[v] \in Loads /\ n <= load[v] /\ n \in Nat /\ load[v] \in Nat
    BY <1>1, <1>2, <1>4
  <2>2. CASE load[v] = n
    BY <1>4, <2>1, <2>2
  <2>3. CASE load[v] # n
    BY <2>1, <2>3
  <2> QED BY <2>2, <2>3
<1> QED BY <1>4, <1>5 DEF LeastBusy

\* What is at a place of a queue is one of the queues' items.
LEMMA ItemIn ==
    ASSUME NEW q, NEW w \in Worker, NEW i \in 1 .. Len(q[w])
    PROVE  q[w][i] \in Items(q)
BY DEF Items

\* In queues without duplicates an item has one place.
LEMMA SamePlace ==
    ASSUME NEW q, NoDup(q), NEW a \in Worker, NEW b \in Worker,
           NEW i \in 1 .. Len(q[a]), NEW k \in 1 .. Len(q[b]), q[a][i] = q[b][k]
    PROVE  a = b /\ i = k
BY DEF NoDup

\* The item a worker takes next is one of the queues' items.
LEMMA HeadIn ==
    ASSUME NEW S, NEW q \in [Worker -> Seq(S)], NEW w \in Worker, q[w] # <<>>
    PROVE  Head(q[w]) \in Items(q)
<1>1. 1 \in 1 .. Len(q[w]) /\ Head(q[w]) = q[w][1]
  BY EmptySeq
<1> QED BY <1>1, ItemIn

\* A message is taken from the queue of w.
LEMMA Taken ==
    ASSUME NEW q, NEW r, NEW w \in Worker, NEW x, Takes(q, r, w, x)
    PROVE  /\ r \in [Worker -> Seq(Job \cup {Terminate})]
           /\ x \in Job \cup {Terminate}
           /\ x \in Items(q)
           /\ Len(q[w]) \in Nat \ {0}
           /\ Len(r[w]) = Len(q[w]) - 1
           /\ \A v \in Worker \ {w} : r[v] = q[v]
           /\ NoDup(q) => NoDup(r) /\ Items(r) = Items(q) \ {x}
<1> DEFINE S == Job \cup {Terminate}
           s == q[w]
           t == Tail(s)
<1>0. /\ q \in [Worker -> Seq(S)] /\ q[w] # <<>> /\ x = Head(q[w])
      /\ r = [q EXCEPT ![w] = Tail(@)]
  BY DEF Takes
<1> HIDE DEF S
<1>1. s \in Seq(S) /\ Len(s) \in Nat \ {0} /\ x = s[1] /\ x \in S
  BY <1>0, EmptySeq
<1>2. /\ t \in Seq(S) /\ Len(t) = Len(s) - 1
      /\ \A i \in 1 .. Len(t) : t[i] = s[i + 1]
  BY <1>1
<1>3. r \in [Worker -> Seq(S)] /\ r[w] = t /\ \A v \in Worker \ {w} : r[v] = q[v]
  BY <1>0, <1>2
<1>4. x \in Items(q)
  BY <1>1 DEF Items
<1> HIDE DEF t
<1>5. ASSUME NoDup(q)
      PROVE  NoDup(r) /\ Items(r) = Items(q) \ {x}
  <2>0. \A v \in Worker : Len(q[v]) \in Nat
    BY <1>0
  <2>1. NoDup(r)
    <3> SUFFICES ASSUME NEW a \in Worker, NEW b \in Worker,
                        NEW i \in 1 .. Len(r[a]), NEW k \in 1 .. Len(r[b]),
                        r[a][i] = r[b][k]
                 PROVE  a = b /\ i = k
      BY DEF NoDup
    <3>1. \A v \in Worker : \A n \in 1 .. Len(r[v]) :
            LET p == IF v = w THEN n + 1 ELSE n IN p \in 1 .. Len(q[v]) /\ r[v][n] = q[v][p]
      <4> TAKE v \in Worker
      <4>1. CASE v = w
        BY <1>1, <1>2, <1>3, <4>1, SMTT(60)
      <4>2. CASE v # w
        BY <1>3, <4>2
      <4> QED BY <4>1, <4>2
    <3>2. PICK p \in 1 .. Len(q[a]) : p = (IF a = w THEN i + 1 ELSE i) /\ r[a][i] = q[a][p]
      BY <3>1
    <3>3. PICK m \in 1 .. Len(q[b]) : m = (IF b = w THEN k + 1 ELSE k) /\ r[b][k] = q[b][m]
      BY <3>1
    <3>n. q[a][p] = q[b][m]
      BY <3>2, <3>3
    <3>4. a = b /\ p = m
      BY <1>5, <3>n, Zenon DEF NoDup
    <3> QED BY <3>2, <3>3, <3>4
  <2>2. ASSUME NEW y \in Items(r)
        PROVE  y \in Items(q) \ {x}
    <3>v. PICK v \in Worker : y \in {r[v][k] : k \in 1 .. Len(r[v])}
      BY DEF Items
    <3>1. PICK i \in 1 .. Len(r[v]) : y = r[v][i]
      BY <3>v
    <3>2. CASE v = w
      <4>1. i + 1 \in 1 .. Len(s) /\ y = s[i + 1] /\ i + 1 # 1
        BY <1>1, <1>2, <1>3, <3>1, <3>2
      <4>2. y # x
        BY <1>1, <1>5, <4>1 DEF NoDup
      <4> QED BY <3>2, <4>1, <4>2 DEF Items
    <3>3. CASE v # w
      <4>1. y = q[v][i] /\ i \in 1 .. Len(q[v])
        BY <1>3, <3>1, <3>3
      <4>2. y # x
        BY <1>1, <1>5, <3>3, <4>1 DEF NoDup
      <4> QED BY <4>1, <4>2 DEF Items
    <3> QED BY <3>2, <3>3
  <2>3. ASSUME NEW y \in Items(q) \ {x}
        PROVE  y \in Items(r)
    <3>v. PICK v \in Worker : y \in {q[v][k] : k \in 1 .. Len(q[v])}
      BY DEF Items
    <3>1. PICK i \in 1 .. Len(q[v]) : y = q[v][i]
      BY <3>v
    <3>2. CASE v = w
      <4>1. i - 1 \in 1 .. Len(t) /\ y = t[i - 1]
        BY <1>1, <1>2, <3>1, <3>2, <2>3
      <4>2. i - 1 \in 1 .. Len(r[w]) /\ y = r[w][i - 1]
        BY <1>3, <4>1
      <4> QED BY <4>2, ItemIn, Zenon
    <3>3. CASE v # w
      BY <1>3, <3>1, <3>3 DEF Items
    <3> QED BY <3>2, <3>3
  <2> QED BY <2>1, <2>2, <2>3
<1> QED BY <1>1, <1>2, <1>3, <1>4, <1>5 DEF S

\* A message is added to the queue of w.
LEMMA Put ==
    ASSUME NEW q, NEW r, NEW w \in Worker, NEW x, Puts(q, r, w, x)
    PROVE  /\ r \in [Worker -> Seq(Job \cup {Terminate})]
           /\ Len(q[w]) \in Nat
           /\ Len(r[w]) = Len(q[w]) + 1
           /\ \A v \in Worker \ {w} : r[v] = q[v]
           /\ Items(r) = Items(q) \cup {x}
           /\ NoDup(q) /\ x \notin Items(q) => NoDup(r)
<1> DEFINE S == Job \cup {Terminate}
           s == q[w]
           t == Append(s, x)
<1>p. q \in [Worker -> Seq(S)] /\ x \in S /\ r = [q EXCEPT ![w] = Append(@, x)]
  BY DEF Puts
<1> HIDE DEF S
<1>1. s \in Seq(S) /\ Len(s) \in Nat
  BY <1>p
<1>2. /\ t \in Seq(S) /\ Len(t) = Len(s) + 1
      /\ \A i \in 1 .. Len(s) : t[i] = s[i]
      /\ t[Len(s) + 1] = x
  BY <1>1, <1>p
<1>3. r \in [Worker -> Seq(S)] /\ r[w] = t /\ \A v \in Worker \ {w} : r[v] = q[v]
  BY <1>2, <1>p
<1>0. \A v \in Worker : Len(q[v]) \in Nat
  BY <1>p
<1> HIDE DEF t
<1>4. ASSUME NEW y \in Items(r)
      PROVE  y \in Items(q) \cup {x}
  <2>v. PICK v \in Worker : y \in {r[v][k] : k \in 1 .. Len(r[v])}
    BY DEF Items
  <2>1. PICK i \in 1 .. Len(r[v]) : y = r[v][i]
    BY <2>v
  <2>2. CASE v = w
    <3>1. CASE i = Len(s) + 1
      BY <1>2, <1>3, <2>1, <2>2, <3>1
    <3>2. CASE i # Len(s) + 1
      <4>1. i \in 1 .. Len(s) /\ y = s[i]
        BY <1>1, <1>2, <1>3, <2>1, <2>2, <3>2
      <4> QED BY <4>1 DEF Items
    <3> QED BY <3>1, <3>2
  <2>3. CASE v # w
    <3>1. i \in 1 .. Len(q[v]) /\ y = q[v][i]
      BY <1>3, <2>1, <2>3
    <3> QED BY <3>1, ItemIn, Zenon
  <2> QED BY <2>2, <2>3
<1>5. ASSUME NEW y \in Items(q)
      PROVE  y \in Items(r)
  <2>v. PICK v \in Worker : y \in {q[v][k] : k \in 1 .. Len(q[v])}
    BY DEF Items
  <2>1. PICK i \in 1 .. Len(q[v]) : y = q[v][i]
    BY <2>v
  <2>2. i \in 1 .. Len(r[v]) /\ y = r[v][i]
    <3>1. CASE v = w
      BY <1>1, <1>2, <1>3, <2>1, <3>1
    <3>2. CASE v # w
      BY <1>3, <2>1, <3>2
    <3> QED BY <3>1, <3>2
  <2> QED BY <2>2 DEF Items
<1>6. x \in Items(r)
  <2>1. Len(t) \in 1 .. Len(r[w]) /\ x = r[w][Len(t)]
    BY <1>1, <1>2, <1>3
  <2> QED BY <2>1 DEF Items
<1>7. ASSUME NoDup(q), x \notin Items(q)
      PROVE  NoDup(r)
  <2>1. \A v \in Worker : \A i \in 1 .. Len(q[v]) : q[v][i] # x
    BY <1>7 DEF Items
  <2> SUFFICES ASSUME NEW a \in Worker, NEW b \in Worker,
                      NEW i \in 1 .. Len(r[a]), NEW k \in 1 .. Len(r[b]),
                      r[a][i] = r[b][k]
               PROVE  a = b /\ i = k
    BY DEF NoDup
  <2>2. \A v \in Worker : \A n \in 1 .. Len(r[v]) :
          \/ n \in 1 .. Len(q[v]) /\ r[v][n] = q[v][n]
          \/ v = w /\ n = Len(t) /\ r[v][n] = x
    <3> TAKE v \in Worker
    <3>1. CASE v = w
      BY <1>1, <1>2, <1>3, <3>1
    <3>2. CASE v # w
      BY <1>3, <3>2
    <3> QED BY <3>1, <3>2
  <2>3. CASE i \in 1 .. Len(q[a]) /\ r[a][i] = q[a][i] /\ k \in 1 .. Len(q[b]) /\ r[b][k] = q[b][k]
    <3>1. q[a][i] = q[b][k] /\ i \in 1 .. Len(q[a]) /\ k \in 1 .. Len(q[b])
      BY <2>3
    <3> QED BY <1>7, <3>1, SamePlace
  <2>4. CASE i \in 1 .. Len(q[a]) /\ r[a][i] = q[a][i] /\ r[b][k] = x
    BY <2>1, <2>4
  <2>5. CASE k \in 1 .. Len(q[b]) /\ r[b][k] = q[b][k] /\ r[a][i] = x
    BY <2>1, <2>5
  <2>6. CASE a = w /\ i = Len(t) /\ b = w /\ k = Len(t)
    BY <2>6
  <2> QED BY <2>2, <2>3, <2>4, <2>5, <2>6
<1> QED BY <1>1, <1>2, <1>3, <1>4, <1>5, <1>6, <1>7 DEF S
\* A job whose signal is still to be raised is counted.
LEMMA RunningCounted ==
    ASSUME TypeOK, Counted, LoadExact, Pool, NEW j \in Unanswered
    PROVE  num_running_async_jobs > 0
<1>1. num_running_async_jobs = Cardinality(Unanswered)
  BY DEF LoadExact, Pool, Unanswered
<1>2. Cardinality(Unanswered) # 0
  BY FS_EmptySet DEF Counted
<1> QED BY <1>1, <1>2 DEF TypeOK

\* The response that is drained next.
LEMMA ResponseFacts ==
    ASSUME TypeOK, Placed, Pool, NEW w \in Worker, response_queue[w] # <<>>
    PROVE  /\ Head(response_queue[w]) \in Items(response_queue)
           /\ Head(response_queue[w]) \in Unanswered
           /\ state[Head(response_queue[w])] = "ran"
<1>1. Head(response_queue[w]) \in Items(response_queue)
  BY HeadIn DEF TypeOK
<1> QED BY <1>1 DEF Placed, Unanswered

\* Once the pool is being stopped no step brings it back: a state after which it runs is
\* one in which it runs.
LEMMA PoolStep ==
    ASSUME [Next]_vars, Pool'
    PROVE  Pool
<1> USE DEF Pool, Stopping, Draining
<1>1. UNCHANGED main_pc => Pool
  OBVIOUS
<1>2. CASE \E w \in Worker : WorkerStep(w)
  BY <1>1, <1>2 DEF WorkerStep, ConsumeRequest, RunMessage, ProduceResponse,
                    bio_platform_notify, FutexWake, unchangedByWorker
<1>3. CASE MainStep
  BY <1>1, <1>3 DEF MainStep, DrainOne, DrainNext, Submit, bio_thread_update, UpdateNoWait,
        BeginWait, EnterKernel, Acknowledge, LateUpdateDone, Cleanup, SendTerminate,
        FreeResponse, NoMoreResponses, Join
<1>4. CASE \/ \E j \in Job : bio_run_async(j)
           \/ WakeUp \/ bio_thread_cleanup \/ Done \/ UNCHANGED vars
  BY <1>1, <1>4 DEF bio_run_async, WakeUp, bio_thread_cleanup, Done, vars
<1> QED BY <1>2, <1>3, <1>4 DEF Next
-----------------------------------------------------------------------------
(***************************************************************************)
(* Types.                                                                   *)
(***************************************************************************)
LEMMA InitInv ==
    ASSUME Init
    PROVE  IInv
<1> USE DEF Init
<1>0. 1 \in 1 .. NumThreads + 1
  BY ThreadsAssumption
<1>1. TypeOK
  <2>1. main_pc \in Draining \cup Stopping \cup {"user", "enter", "asleep", "acknowledge", "exited"}
    OBVIOUS
  <2>2. /\ request_queue \in [Worker -> Seq(Job \cup {Terminate})]
        /\ response_queue \in [Worker -> Seq(Job \cup {Terminate})]
    OBVIOUS
  <2>3. drained \in 1 .. NumThreads + 1
    BY <1>0
  <2> QED BY <2>1, <2>2, <2>3 DEF TypeOK
<1>2. Steps
  BY DEF Steps, Holding, Stopping
<1>3. \A w \in Worker : Len(request_queue[w]) = 0 /\ Len(response_queue[w]) = 0
  OBVIOUS
<1>4. Placed
  <2>1. Items(request_queue) = {} /\ Items(response_queue) = {}
    BY <1>3 DEF Items
  <2>2. NoDup(request_queue) /\ NoDup(response_queue)
    BY <1>3 DEF NoDup
  <2>3. Holding = {}
    BY DEF Holding
  <2> QED BY <2>1, <2>2, <2>3 DEF Placed, Held
<1>5. Unanswered = {}
  BY DEF Unanswered
<1>6. Counted
  BY <1>5, FS_EmptySet DEF Counted
<1>7. LoadExact
  <2>1. num_running_async_jobs = Cardinality(Unanswered)
    BY <1>5, FS_EmptySet
  <2>2. \A w \in Worker : load[w] = Len(request_queue[w]) + InHand(w) + Len(response_queue[w])
    BY <1>3 DEF InHand
  <2> QED BY <2>1, <2>2 DEF LoadExact, Unanswered
<1>8. LateResponsesNoticed /\ Attended /\ NoLostNotification
  BY DEF LateResponsesNoticed, Passed, Attended, NoLostNotification
<1> QED BY <1>1, <1>2, <1>4, <1>6, <1>7, <1>8 DEF IInv

\* What bio_platform_notify does, by what it finds.
LEMMA NotifyKinds ==
    ASSUME NEW w \in Worker, bio_platform_notify(w)
    PROVE  /\ worker_pc[w] = "notify"
           /\ \/ /\ has_op_futex_wait
                 /\ notification_counter' = notification_counter + 1
                 /\ worker_pc' = [worker_pc EXCEPT ![w] = "wake"]
                 /\ waiters' = waiters /\ completions' = completions
              \/ /\ ~has_op_futex_wait
                 /\ waiters > 0
                 /\ worker_pc' = [worker_pc EXCEPT ![w] = "consume"]
                 /\ waiters' = waiters - 1 /\ completions' = completions + 1
                 /\ notification_counter' = notification_counter
              \/ /\ ~has_op_futex_wait
                 /\ ~(waiters > 0)
                 /\ worker_pc' = [worker_pc EXCEPT ![w] = "consume"]
                 /\ notification_counter' = notification_counter + 1
                 /\ waiters' = waiters /\ completions' = completions
BY Zenon DEF bio_platform_notify

\* A step of a worker keeps the types.
LEMMA WorkerTypes ==
    ASSUME IInv, NEW w \in Worker, WorkerStep(w)
    PROVE  TypeOK' /\ Steps'
<1> USE DEF unchangedByWorker, kernelVars, sharedVars, loopVars, countVars
<1>0. TypeOK /\ Steps
  BY DEF IInv
<1>1. CASE ConsumeRequest(w)
  <2> DEFINE q == request_queue[w]
             x == Head(q)
  <2>1. request_queue' \in [Worker -> Seq(Job \cup {Terminate})] /\ x \in Job \cup {Terminate}
    <3>1. Takes(request_queue, request_queue', w, x)
      BY <1>0, <1>1 DEF ConsumeRequest, TypeOK, Takes
    <3> QED BY <3>1, Taken
  <2>2. msg' = [msg EXCEPT ![w] = x]
    BY <1>1 DEF ConsumeRequest
  <2> HIDE DEF x
  <2>3. TypeOK'
    BY <1>0, <1>1, <2>1, <2>2 DEF ConsumeRequest, TypeOK
  <2>4. Steps'
    BY <1>0, <1>1, <2>1, <2>2, MessageAssumption DEF ConsumeRequest, TypeOK, Steps, Holding
  <2> QED BY <2>3, <2>4
<1>2. CASE RunMessage(w)
  <2>1. state' \in [Job -> {"new", "submitted", "ran", "signalled"}]
    BY <1>0, <1>2 DEF RunMessage, TypeOK
  <2>2. TypeOK'
    BY <1>0, <1>2, <2>1 DEF RunMessage, TypeOK
  <2>3. Steps'
    BY <1>0, <1>2 DEF RunMessage, TypeOK, Steps, Holding
  <2> QED BY <2>2, <2>3
<1>3. CASE ProduceResponse(w)
  <2>1. response_queue' \in [Worker -> Seq(Job \cup {Terminate})]
    <3>1. msg[w] \in Job \cup {Terminate}
      BY <1>0, <1>3 DEF ProduceResponse, TypeOK, Steps, Holding
    <3> QED BY <1>0, <1>3, <3>1 DEF ProduceResponse, TypeOK
  <2>2. TypeOK'
    BY <1>0, <1>3, <2>1 DEF ProduceResponse, TypeOK
  <2>3. Steps'
    BY <1>0, <1>3 DEF ProduceResponse, TypeOK, Steps, Holding
  <2> QED BY <2>2, <2>3
<1>4. CASE bio_platform_notify(w) \/ FutexWake(w)
  <2>1. /\ notification_counter' \in Nat /\ waiters' \in Nat /\ completions' \in Nat
        /\ notification_counter' >= notification_counter
        /\ worker_pc' \in [Worker -> {"consume", "run", "produce", "notify", "wake", "exited"}]
        /\ \A v \in Worker : worker_pc'[v] \in {"run", "produce"} => worker_pc'[v] = worker_pc[v]
    <3>1. CASE bio_platform_notify(w)
      <4>1. /\ worker_pc[w] = "notify"
            /\ \E to \in {"wake", "consume"} : worker_pc' = [worker_pc EXCEPT ![w] = to]
        BY <3>1, NotifyKinds
      <4>2. /\ notification_counter' \in Nat /\ waiters' \in Nat /\ completions' \in Nat
            /\ notification_counter' >= notification_counter
        <5>1. notification_counter \in Nat /\ waiters \in Nat /\ completions \in Nat
          BY <1>0 DEF TypeOK
        <5>2. \/ notification_counter' = notification_counter + 1
                 /\ waiters' = waiters /\ completions' = completions
              \/ waiters > 0 /\ waiters' = waiters - 1 /\ completions' = completions + 1
                 /\ notification_counter' = notification_counter
          BY <3>1, NotifyKinds, Zenon
        <5> QED BY <5>1, <5>2
      <4> QED BY <1>0, <4>1, <4>2 DEF TypeOK
    <3>2. CASE FutexWake(w)
      BY <1>0, <3>2 DEF FutexWake, TypeOK
    <3> QED BY <1>4, <3>1, <3>2
  <2>2. UNCHANGED <<sharedVars, msg, state, unchangedByWorker>>
    BY <1>4 DEF bio_platform_notify, FutexWake
  <2>3. TypeOK'
    BY <1>0, <2>1, <2>2 DEF TypeOK
  <2>4. Steps'
    BY <1>0, <2>1, <2>2 DEF TypeOK, Steps, Holding
  <2> QED BY <2>3, <2>4
<1> QED BY <1>1, <1>2, <1>3, <1>4 DEF WorkerStep
\* What BeginWait and EnterKernel do, by what they find.
LEMMA BeginWaitKinds ==
    ASSUME BeginWait
    PROVE  /\ main_pc = "update" /\ DrainedAll
           /\ \/ /\ has_op_futex_wait /\ ack_counter # notification_counter
                 /\ ack_counter' = notification_counter
                 /\ completions' = 0 /\ main_pc' = "late_update" /\ drained' = 1
              \/ /\ ~(has_op_futex_wait /\ ack_counter # notification_counter)
                 /\ main_pc' = "enter"
                 /\ ack_counter' = ack_counter /\ completions' = completions
                 /\ drained' = drained
BY Zenon DEF BeginWait

\* The loop enters the kernel with nothing to wait for, with a futex wait that is queued
\* because the counter is the one it acknowledged, or with one that ends at once.
LEMMA EnterKernelKinds ==
    ASSUME EnterKernel
    PROVE  /\ main_pc = "enter" /\ main_pc' = "asleep"
           /\ \/ /\ ~(num_running_async_jobs > 0)
                 /\ notification_counter' = notification_counter
                 /\ waiters' = waiters /\ completions' = completions
              \/ /\ has_op_futex_wait /\ notification_counter = ack_counter
                 /\ notification_counter' = notification_counter
                 /\ waiters' = waiters + 1 /\ completions' = completions
              \/ /\ has_op_futex_wait /\ notification_counter # ack_counter
                 /\ notification_counter' = notification_counter
                 /\ waiters' = waiters /\ completions' = completions + 1
              \/ /\ ~has_op_futex_wait /\ notification_counter > 0
                 /\ notification_counter' = 0
                 /\ waiters' = waiters /\ completions' = completions + 1
              \/ /\ ~has_op_futex_wait /\ ~(notification_counter > 0)
                 /\ notification_counter' = notification_counter
                 /\ waiters' = waiters + 1 /\ completions' = completions
BY Zenon DEF EnterKernel, kernelVars, Notifiable, WordUnchanged

\* Steps of the scheduler's thread that leave the queues, the counts and the states.
LEMMA QuietTypes ==
    ASSUME TypeOK, Steps,
           UNCHANGED <<request_queue, response_queue, worker_pc, msg, has_op_futex_wait,
                       load, num_running_async_jobs, state>>,
           notification_counter' \in Nat, waiters' \in Nat, completions' \in Nat,
           main_pc' \in Draining \cup Stopping \cup
                        {"user", "enter", "asleep", "acknowledge", "exited"},
           drained' \in 1 .. NumThreads + 1, job' \in Job \cup {NoJob}, retrying' \subseteq Job,
           woken' \in BOOLEAN, ack_counter' \in Nat,
           main_pc' = "user" => drained' = 1,
           main_pc' \in Stopping => drained' \in Worker,
           has_op_futex_wait => ack_counter' <= notification_counter'
    PROVE  TypeOK' /\ Steps'
<1>1. TypeOK'
  BY DEF TypeOK
<1>2. Holding' = Holding
  BY DEF Holding
<1>3. Steps'
  BY <1>2 DEF Steps
<1> QED BY <1>1, <1>3

\* A step of the scheduler's thread keeps the types.
LEMMA DrainTypes ==
    ASSUME IInv, DrainOne
    PROVE  TypeOK' /\ Steps'
<1> USE DEF kernelVars, unchangedByMain
<1>0. TypeOK /\ Steps /\ Pool /\ drained \in Worker /\ Placed /\ Counted /\ LoadExact
  BY DEF IInv, DrainOne, Pool, Draining, Stopping, TypeOK, Worker
<1>1. PICK w \in Worker : w = drained
  BY <1>0
<1>2. response_queue[w] # <<>>
  BY <1>1 DEF DrainOne
<1>3. num_running_async_jobs > 0
  BY <1>0, <1>2, ResponseFacts, RunningCounted
<1>4. response_queue' \in [Worker -> Seq(Job \cup {Terminate})] /\ Len(response_queue[w]) \in Nat \ {0}
  <2>1. Takes(response_queue, response_queue', w, Head(response_queue[w]))
    BY <1>0, <1>1, <1>2 DEF DrainOne, TypeOK, Takes
  <2> QED BY <2>1, Taken
<1>5. load[w] > 0
  <2>1. load[w] = Len(request_queue[w]) + InHand(w) + Len(response_queue[w])
    BY <1>0 DEF LoadExact, Pool
  <2>2. Len(request_queue[w]) \in Nat /\ InHand(w) \in Nat
    BY <1>0 DEF TypeOK, InHand
  <2> QED BY <1>4, <2>1, <2>2
<1>6. load' \in [Worker -> Nat]
  BY <1>0, <1>1, <1>5 DEF DrainOne, LoadAfterResponse, TypeOK
<1>7. state' \in [Job -> {"new", "submitted", "ran", "signalled"}]
  BY <1>0 DEF DrainOne, TypeOK
<1>8. woken' \in BOOLEAN
  BY Zenon DEF DrainOne
<1>9. num_running_async_jobs' \in Nat
  BY <1>0, <1>3 DEF DrainOne, TypeOK
<1>10. UNCHANGED <<request_queue, notification_counter, waiters, completions, msg, worker_pc,
                   has_op_futex_wait, retrying, ack_counter, main_pc, drained, job>>
  BY DEF DrainOne
<1>11. TypeOK'
  BY <1>0, <1>4, <1>6, <1>7, <1>8, <1>9, <1>10 DEF TypeOK
<1>12. Steps'
  BY <1>0, <1>10 DEF Steps, Holding
<1> QED BY <1>11, <1>12

\* bio_run_async gives the job to the least busy worker, which is one of the workers.
LEMMA SubmitTypes ==
    ASSUME IInv, Submit
    PROVE  TypeOK' /\ Steps'
<1> USE DEF kernelVars, unchangedByMain, countVars
<1>0. TypeOK /\ Steps /\ Placed /\ Pool /\ job \in Job
  BY DEF IInv, Submit, Pool, Stopping, Placed
<1>1. PICK w \in Worker : w = LeastBusy
  BY <1>0, LeastBusyExists DEF TypeOK
<1>2. /\ UNCHANGED <<response_queue, notification_counter, waiters, completions, msg, worker_pc,
                     has_op_futex_wait, woken, ack_counter>>
      /\ main_pc' = "user" /\ drained' = 1 /\ job' = NoJob
  BY DEF Submit
<1>3. /\ request_queue' \in [Worker -> Seq(Job \cup {Terminate})]
      /\ num_running_async_jobs' \in Nat
      /\ load' \in [Worker -> Nat]
      /\ state' \in [Job -> {"new", "submitted", "ran", "signalled"}]
      /\ retrying' \subseteq Job
  <2>1. CASE HasRoom(LeastBusy)
    <3>1. /\ Puts(request_queue, request_queue', w, job)
          /\ load' = [load EXCEPT ![w] = @ + 1]
          /\ state' = [state EXCEPT ![job] = "submitted"]
          /\ retrying' = retrying \ {job}
          /\ num_running_async_jobs' = num_running_async_jobs + 1
      BY <1>0, <1>1, <2>1 DEF Submit, RunningAfterSubmit, TypeOK, Puts
    <3>2. request_queue' \in [Worker -> Seq(Job \cup {Terminate})]
      BY <3>1, Put
    <3>3. num_running_async_jobs' \in Nat /\ load' \in [Worker -> Nat] /\ retrying' \subseteq Job
      BY <1>0, <3>1 DEF TypeOK
    <3>4. state' \in [Job -> {"new", "submitted", "ran", "signalled"}]
      BY <1>0, <3>1 DEF TypeOK
    <3> QED BY <3>2, <3>3, <3>4
  <2>2. CASE ~HasRoom(LeastBusy)
    BY <1>0, <2>2 DEF Submit, TypeOK
  <2> QED BY <2>1, <2>2
<1>4. drained' \in 1 .. NumThreads + 1
  BY <1>2, ThreadsAssumption
<1>5. TypeOK'
  BY <1>0, <1>2, <1>3, <1>4 DEF TypeOK
<1>6. Steps'
  BY <1>0, <1>2 DEF Steps, Holding, Stopping
<1> QED BY <1>5, <1>6

\* The same for every other step of the loop's thread.
LEMMA MainTypes ==
    ASSUME IInv, MainStep \/ WakeUp \/ bio_thread_cleanup \/ \E j \in Job : bio_run_async(j)
    PROVE  TypeOK' /\ Steps'
<1> USE DEF kernelVars, unchangedByMain, loopVars, countVars, sharedVars
<1>0. TypeOK /\ Steps
  BY DEF IInv
<1>n. 1 \in 1 .. NumThreads + 1 /\ 1 \in Worker /\ Worker \subseteq 1 .. NumThreads + 1
  BY ThreadsAssumption DEF Worker
<1>1. CASE DrainNext
  <2>1. drained' \in 1 .. NumThreads + 1 /\ main_pc \in Draining
    BY <1>0, <1>1, ThreadsAssumption DEF DrainNext, TypeOK
  <2> QED BY <1>0, <1>1, <2>1, QuietTypes DEF DrainNext, TypeOK, Steps, Stopping, Draining
<1>2. CASE bio_thread_update \/ \E j \in Job : bio_run_async(j)
  BY <1>0, <1>2, <1>n, QuietTypes
     DEF bio_thread_update, bio_run_async, TypeOK, Steps, Stopping, Draining
<1>3. CASE UpdateNoWait
  <2>1. main_pc' \in {"user", "late_update"}
    BY <1>3 DEF UpdateNoWait
  <2> QED BY <1>0, <1>3, <1>n, <2>1, QuietTypes
          DEF UpdateNoWait, TypeOK, Steps, Stopping, Draining
<1>4. CASE BeginWait
  <2>1. /\ UNCHANGED <<request_queue, response_queue, worker_pc, msg, has_op_futex_wait,
                       load, num_running_async_jobs, state, notification_counter, waiters,
                       job, retrying, woken>>
        /\ main_pc' \in {"late_update", "enter"}
    BY <1>4 DEF BeginWait
  <2>2. /\ completions' \in Nat /\ drained' \in 1 .. NumThreads + 1 /\ ack_counter' \in Nat
        /\ ack_counter' = ack_counter \/ ack_counter' = notification_counter
    BY <1>0, <1>4, <1>n, BeginWaitKinds DEF TypeOK
  <2> QED BY <1>0, <2>1, <2>2, QuietTypes DEF TypeOK, Steps, Stopping, Draining
<1>5. CASE EnterKernel
  <2>1. /\ UNCHANGED <<request_queue, response_queue, worker_pc, msg, has_op_futex_wait,
                       load, num_running_async_jobs, state, job, retrying, woken, drained,
                       ack_counter>>
        /\ main_pc' = "asleep"
    BY <1>5 DEF EnterKernel
  <2>2. notification_counter' \in Nat /\ waiters' \in Nat /\ completions' \in Nat
    BY <1>0, <1>5, EnterKernelKinds DEF TypeOK
  <2>3. has_op_futex_wait => notification_counter' = notification_counter
    BY <1>5, EnterKernelKinds, Zenon
  <2> QED BY <1>0, <2>1, <2>2, <2>3, QuietTypes DEF TypeOK, Steps, Stopping, Draining
<1>6. CASE WakeUp
  BY <1>0, <1>6, QuietTypes DEF WakeUp, TypeOK, Steps, Stopping, Draining
<1>7. CASE Acknowledge
  <2>1. ack_counter' = ack_counter \/ ack_counter' = notification_counter
    BY <1>7 DEF Acknowledge
  <2> QED BY <1>0, <1>7, <1>n, <2>1, QuietTypes, SMTT(60)
          DEF Acknowledge, TypeOK, Steps, Stopping, Draining
<1>8. CASE LateUpdateDone \/ bio_thread_cleanup
  BY <1>0, <1>8, <1>n, QuietTypes
     DEF LateUpdateDone, bio_thread_cleanup, TypeOK, Steps, Stopping, Draining
<1>9. CASE NoMoreResponses
  BY <1>0, <1>9, QuietTypes DEF NoMoreResponses, TypeOK, Steps, Stopping, Draining
<1>10. CASE Join
  <2>1. drained \in Worker
    BY <1>0, <1>10 DEF Join, Steps, Stopping
  <2>2. /\ drained' \in 1 .. NumThreads + 1
        /\ main_pc' \in {"exited", "stop"} /\ (main_pc' = "stop" => drained' \in Worker)
    BY <1>10, <2>1, ThreadsAssumption DEF Join, Worker
  <2> QED BY <1>0, <1>10, <2>2, QuietTypes DEF Join, TypeOK, Steps, Stopping, Draining
<1>11. CASE SendTerminate \/ FreeResponse
  <2>1. drained \in Worker
    BY <1>0, <1>11 DEF SendTerminate, FreeResponse, Steps, Stopping
  <2>2. PICK w \in Worker : w = drained
    BY <2>1
  <2>3. /\ request_queue' \in [Worker -> Seq(Job \cup {Terminate})]
        /\ response_queue' \in [Worker -> Seq(Job \cup {Terminate})]
    <3>1. CASE SendTerminate
      <4>1. /\ \/ Puts(request_queue, request_queue', w, Terminate)
               \/ request_queue' = request_queue
            /\ response_queue' = response_queue
        BY <1>0, <2>2, <3>1 DEF SendTerminate, TypeOK, Puts
      <4>2. request_queue' \in [Worker -> Seq(Job \cup {Terminate})]
        BY <1>0, <4>1, Put DEF TypeOK
      <4> QED BY <1>0, <4>1, <4>2 DEF TypeOK
    <3>2. CASE FreeResponse
      <4>1. /\ Takes(response_queue, response_queue', w, Head(response_queue[w]))
            /\ request_queue' = request_queue
        BY <1>0, <2>2, <3>2 DEF FreeResponse, TypeOK, Takes
      <4>2. response_queue' \in [Worker -> Seq(Job \cup {Terminate})]
        BY <4>1, Taken
      <4> QED BY <1>0, <4>1, <4>2 DEF TypeOK
    <3> QED BY <1>11, <3>1, <3>2
  <2>4. /\ UNCHANGED <<worker_pc, msg, has_op_futex_wait, load, num_running_async_jobs, state,
                       job, retrying, woken, drained, ack_counter, notification_counter,
                       waiters, completions>>
        /\ main_pc' \in Stopping
    BY <1>11 DEF SendTerminate, FreeResponse, Stopping
  <2>5. TypeOK'
    BY <1>0, <2>3, <2>4 DEF TypeOK
  <2>6. Steps'
    BY <1>0, <2>1, <2>4 DEF Steps, Holding, Stopping
  <2> QED BY <2>5, <2>6
<1> QED BY <1>1, <1>2, <1>3, <1>4, <1>5, <1>6, <1>7, <1>8, <1>9, <1>10, <1>11,
           DrainTypes, SubmitTypes DEF MainStep, Cleanup
-----------------------------------------------------------------------------
(***************************************************************************)
(* Where the jobs are, and how many.                                        *)
(***************************************************************************)
Counts == Counted /\ LoadExact

\* Steps that move no message.
LEMMA NothingMoved ==
    ASSUME TypeOK, Placed, Counts, [Next]_vars,
           UNCHANGED <<request_queue, response_queue, msg, state, load, num_running_async_jobs>>,
           \A w \in Worker : worker_pc'[w] = worker_pc[w]
                             \/ {worker_pc[w], worker_pc'[w]} \cap {"run", "produce"} = {},
           Pool' /\ main_pc' = "submit_drain" => job' \in Job /\ state[job'] = "new"
    PROVE  Placed' /\ Counts'
<1>1. Holding' = Holding /\ Unanswered' = Unanswered /\ \A w \in Worker : InHand(w)' = InHand(w)
  BY DEF Holding, Unanswered, InHand
<1>2. \A w \in Holding : worker_pc'[w] = worker_pc[w]
  BY DEF Holding
<1>3. Pool' => Pool
  BY PoolStep
<1>4. Items(request_queue)' = Items(request_queue) /\ Items(response_queue)' = Items(response_queue)
  BY DEF Items
<1>5. NoDup(request_queue)' = NoDup(request_queue) /\ NoDup(response_queue)' = NoDup(response_queue)
  BY DEF NoDup
<1>6. Held => Held'
  BY <1>1, <1>2, <1>4 DEF Held
<1>7. Placed'
  BY <1>3, <1>4, <1>5, <1>6 DEF Placed
<1>8. LoadExact'
  BY <1>1, <1>3 DEF Counts, LoadExact, Pool, Unanswered
<1> QED BY <1>1, <1>7, <1>8 DEF Counts, Counted

\* A request is taken.
LEMMA ConsumePlaced ==
    ASSUME TypeOK, Placed, Counts, Pool, NEW w \in Worker, ConsumeRequest(w)
    PROVE  Placed' /\ Counts'
<1>q. PICK q, r, x : q = request_queue /\ r = request_queue' /\ x = Head(request_queue[w])
  OBVIOUS
<1>0. Takes(q, r, w, x)
  BY <1>q DEF ConsumeRequest, TypeOK, Takes
<1>1. /\ x \in Items(q)
      /\ Len(q[w]) \in Nat \ {0}
      /\ Len(r[w]) = Len(q[w]) - 1
      /\ \A v \in Worker \ {w} : r[v] = q[v]
      /\ NoDup(q) => NoDup(r) /\ Items(r) = Items(q) \ {x}
  BY <1>0, Taken
<1>2. /\ msg' = [msg EXCEPT ![w] = x]
      /\ worker_pc[w] = "consume" /\ worker_pc' = [worker_pc EXCEPT ![w] = "run"]
      /\ UNCHANGED <<response_queue, state, load, num_running_async_jobs, main_pc, job>>
  BY <1>q DEF ConsumeRequest, unchangedByWorker, countVars
<1>3. /\ NoDup(r) /\ Items(r) = Items(q) \ {x}
      /\ x \in Job /\ state[x] = "submitted"
  BY <1>1, <1>q DEF Placed
<1>i. /\ NoDup(request_queue)' = NoDup(r) /\ Items(request_queue)' = Items(r)
      /\ NoDup(response_queue)' = NoDup(response_queue)
      /\ Items(response_queue)' = Items(response_queue)
  BY <1>2, <1>q DEF NoDup, Items
<1>4. /\ Holding' = Holding \cup {w} /\ w \notin Holding
      /\ msg'[w] = x /\ worker_pc'[w] = "run"
      /\ \A v \in Holding : msg'[v] = msg[v] /\ worker_pc'[v] = worker_pc[v]
  BY <1>2 DEF Holding, TypeOK
<1>5. x \notin Items(response_queue) /\ \A v \in Holding : msg[v] # x
  BY <1>1, <1>3, <1>q DEF Placed, Held
<1>6. Held'
  BY <1>2, <1>3, <1>4, <1>5, <1>i, <1>q DEF Placed, Held
<1>7. Placed'
  BY <1>2, <1>3, <1>6, <1>i, <1>q DEF Placed
<1>8. Unanswered' = Unanswered
  BY <1>2 DEF Unanswered
<1>9. \A v \in Worker : load[v] = Len(r[v]) + InHand(v)' + Len(response_queue[v])
  <2> TAKE v \in Worker
  <2>1. load[v] = Len(q[v]) + InHand(v) + Len(response_queue[v]) /\ Len(response_queue[v]) \in Nat
    BY <1>q DEF Counts, LoadExact, Pool, TypeOK
  <2>2. CASE v = w
    <3>1. InHand(v) = 0 /\ InHand(v)' = 1
      BY <1>2, <1>4, <2>2 DEF InHand
    <3>2. Len(q[v]) \in Nat \ {0} /\ Len(r[v]) = Len(q[v]) - 1
      BY <1>1, <2>2
    <3> QED BY <2>1, <3>1, <3>2
  <2>3. CASE v # w
    <3>1. InHand(v)' = InHand(v)
      BY <1>2, <2>3 DEF InHand, TypeOK
    <3> QED BY <1>1, <2>1, <2>3, <3>1
  <2> QED BY <2>2, <2>3
<1> QED BY <1>2, <1>7, <1>8, <1>9, <1>q DEF Counts, Counted, LoadExact, Unanswered, Pool

\* The job runs.
LEMMA RunPlaced ==
    ASSUME TypeOK, Placed, Counts, Pool, NEW w \in Worker, RunMessage(w)
    PROVE  Placed' /\ Counts'
<1>1. /\ w \in Holding /\ worker_pc[w] = "run"
      /\ msg[w] \in Job /\ state[msg[w]] = "submitted" /\ msg[w] # Terminate
  BY MessageAssumption DEF RunMessage, Placed, Held, Holding
<1>2. /\ state' = [state EXCEPT ![msg[w]] = "ran"]
      /\ worker_pc' = [worker_pc EXCEPT ![w] = "produce"]
      /\ UNCHANGED <<request_queue, response_queue, msg, load, num_running_async_jobs, main_pc, job>>
  BY <1>1 DEF RunMessage, unchangedByWorker, countVars, sharedVars
<1>3. /\ state'[msg[w]] = "ran"
      /\ \A j \in Job \ {msg[w]} : state'[j] = state[j]
  BY <1>1, <1>2 DEF TypeOK
<1>i. /\ NoDup(request_queue)' = NoDup(request_queue)
      /\ Items(request_queue)' = Items(request_queue)
      /\ NoDup(response_queue)' = NoDup(response_queue)
      /\ Items(response_queue)' = Items(response_queue)
  BY <1>2 DEF NoDup, Items
<1>4. Holding' = Holding /\ worker_pc'[w] = "produce"
      /\ \A v \in Holding \ {w} : worker_pc'[v] = worker_pc[v] /\ msg[v] # msg[w]
  BY <1>1, <1>2 DEF Holding, TypeOK, Placed, Held
<1>5. Held'
  BY <1>1, <1>2, <1>3, <1>4, <1>i DEF Placed, Held
<1>6. msg[w] \notin Items(request_queue) \cup Items(response_queue)
  BY <1>1 DEF Placed, Held
<1>7. Placed'
  BY <1>1, <1>2, <1>3, <1>5, <1>6, <1>i DEF Placed
<1>8. Unanswered' = Unanswered
  BY <1>1, <1>3 DEF Unanswered
<1>9. \A v \in Worker : InHand(v)' = InHand(v)
  BY <1>1, <1>2 DEF InHand, TypeOK
<1> QED BY <1>2, <1>7, <1>8, <1>9 DEF Counts, Counted, LoadExact, Unanswered, Pool

\* The response is queued.
LEMMA ProducePlaced ==
    ASSUME TypeOK, Placed, Counts, Pool, NEW w \in Worker, ProduceResponse(w)
    PROVE  Placed' /\ Counts'
<1>q. PICK q, r, x : q = response_queue /\ r = response_queue' /\ x = msg[w]
  OBVIOUS
<1>1. /\ w \in Holding /\ worker_pc[w] = "produce"
      /\ x \in Job /\ state[x] = "ran"
      /\ x \notin Items(request_queue) /\ x \notin Items(q)
      /\ \A v \in Holding : msg[v] = x => v = w
  BY <1>q DEF ProduceResponse, Placed, Held, Holding
<1>0. Puts(q, r, w, x)
  BY <1>1, <1>q DEF ProduceResponse, TypeOK, Puts
<1>2. /\ Len(q[w]) \in Nat
      /\ Len(r[w]) = Len(q[w]) + 1
      /\ \A v \in Worker \ {w} : r[v] = q[v]
      /\ Items(r) = Items(q) \cup {x}
      /\ NoDup(q) /\ x \notin Items(q) => NoDup(r)
  <2>1. /\ Len(q[w]) \in Nat /\ Len(r[w]) = Len(q[w]) + 1
        /\ \A v \in Worker \ {w} : r[v] = q[v]
    BY <1>0, Put
  <2>2. Items(r) = Items(q) \cup {x}
    BY <1>0, Put
  <2>3. NoDup(q) /\ x \notin Items(q) => NoDup(r)
    BY <1>0, Put
  <2> QED BY <2>1, <2>2, <2>3
<1>3. /\ msg' = [msg EXCEPT ![w] = NoJob]
      /\ worker_pc' \in [Worker -> {"consume", "run", "produce", "notify", "wake", "exited"}]
      /\ worker_pc'[w] \in {"exited", "notify"}
      /\ \A v \in Worker \ {w} : worker_pc'[v] = worker_pc[v]
      /\ UNCHANGED <<request_queue, state, load, num_running_async_jobs, main_pc, job>>
  BY <1>q DEF ProduceResponse, unchangedByWorker, countVars, TypeOK
<1>4. NoDup(r)
  BY <1>1, <1>2, <1>q DEF Placed
<1>i. /\ NoDup(response_queue)' = NoDup(r) /\ Items(response_queue)' = Items(r)
      /\ NoDup(request_queue)' = NoDup(request_queue)
      /\ Items(request_queue)' = Items(request_queue)
  BY <1>3, <1>q DEF NoDup, Items
<1>5. /\ Holding' = Holding \ {w}
      /\ \A v \in Holding' : msg'[v] = msg[v] /\ worker_pc'[v] = worker_pc[v] /\ msg[v] # x
  BY <1>1, <1>3 DEF Holding, TypeOK
<1>6. Held'
  BY <1>2, <1>3, <1>5, <1>i, <1>q DEF Placed, Held
<1>7. Placed'
  BY <1>1, <1>2, <1>3, <1>4, <1>6, <1>i, <1>q DEF Placed
<1>8. Unanswered' = Unanswered
  BY <1>3 DEF Unanswered
<1>9. \A v \in Worker : load[v] = Len(request_queue[v]) + InHand(v)' + Len(r[v])
  <2> TAKE v \in Worker
  <2>1. load[v] = Len(request_queue[v]) + InHand(v) + Len(q[v]) /\ Len(request_queue[v]) \in Nat
    BY <1>q DEF Counts, LoadExact, Pool, TypeOK
  <2>2. CASE v = w
    <3>1. InHand(v) = 1 /\ InHand(v)' = 0
      BY <1>1, <1>3, <2>2 DEF InHand
    <3>2. Len(q[v]) \in Nat /\ Len(r[v]) = Len(q[v]) + 1
      BY <1>2, <2>2
    <3>3. PICK n \in Nat, m \in Nat, k \in Nat :
            n = Len(request_queue[v]) /\ m = Len(q[v]) /\ k = Len(r[v])
      BY <2>1, <3>2
    <3>4. load[v] = n + InHand(v)' + k
      <4>1. load[v] = n + 1 + m
        BY <2>1, <3>1, <3>3
      <4>2. k = m + 1
        BY <3>2, <3>3
      <4>3. InHand(v)' = 0
        BY <3>1
      <4>4. n + 1 + m = n + k
        BY <4>2
      <4>5. load[v] = n + k
        BY <4>1, <4>4
      <4>6. n + k = n + 0 + k
        OBVIOUS
      <4> QED BY <4>3, <4>5, <4>6
    <3> QED BY <3>3, <3>4
  <2>3. CASE v # w
    <3>1. InHand(v)' = InHand(v)
      BY <1>3, <2>3 DEF InHand
    <3> QED BY <1>2, <2>1, <2>3, <3>1
  <2> QED BY <2>2, <2>3
<1> QED BY <1>3, <1>7, <1>8, <1>9, <1>q DEF Counts, Counted, LoadExact, Unanswered, Pool
\* A response is drained.
LEMMA DrainPlaced ==
    ASSUME TypeOK, Placed, Counts, DrainOne
    PROVE  Placed' /\ Counts'
<1>w. PICK w \in Worker : w = drained
  BY DEF DrainOne, TypeOK, Worker
<1>p. Pool /\ Pool'
  BY DEF DrainOne, Pool, Draining, Stopping
<1>q. PICK q, r, x : q = response_queue /\ r = response_queue' /\ x = Head(response_queue[w])
  OBVIOUS
<1>0. Takes(q, r, w, x)
  BY <1>q, <1>w DEF DrainOne, TypeOK, Takes
<1>1. /\ x \in Items(q)
      /\ Len(q[w]) \in Nat \ {0}
      /\ Len(r[w]) = Len(q[w]) - 1
      /\ \A v \in Worker \ {w} : r[v] = q[v]
      /\ NoDup(q) => NoDup(r) /\ Items(r) = Items(q) \ {x}
  BY <1>0, Taken
<1>2. /\ state' = [state EXCEPT ![x] = "signalled"]
      /\ load' = [load EXCEPT ![w] = @ - 1]
      /\ num_running_async_jobs' = num_running_async_jobs - 1
      /\ UNCHANGED <<request_queue, msg, worker_pc, main_pc, job>>
  BY <1>q, <1>w DEF DrainOne, unchangedByMain, LoadAfterResponse
<1>3. /\ NoDup(r) /\ Items(r) = Items(q) \ {x}
      /\ x \in Job /\ state[x] = "ran"
  BY <1>1, <1>p, <1>q DEF Placed
<1>s. state'[x] = "signalled" /\ \A j \in Job \ {x} : state'[j] = state[j]
  BY <1>2, <1>3 DEF TypeOK
<1>i. /\ NoDup(response_queue)' = NoDup(r) /\ Items(response_queue)' = Items(r)
      /\ NoDup(request_queue)' = NoDup(request_queue)
      /\ Items(request_queue)' = Items(request_queue)
  BY <1>2, <1>q DEF NoDup, Items
<1>4. Holding' = Holding
  BY <1>2 DEF Holding
<1>5. x \notin Items(request_queue) /\ \A v \in Holding : msg[v] # x
  BY <1>1, <1>3, <1>p, <1>q DEF Placed, Held
<1>6. Held'
  BY <1>2, <1>3, <1>4, <1>5, <1>i, <1>p, <1>q, <1>s DEF Placed, Held
<1>7. Placed'
  <2>1. main_pc' = "submit_drain" => job' \in Job /\ state'[job'] = "new"
    BY <1>2, <1>3, <1>p, <1>s DEF Placed
  <2> QED BY <1>3, <1>5, <1>6, <1>i, <1>p, <1>q, <1>s, <2>1 DEF Placed
<1>8. /\ Counted'
      /\ num_running_async_jobs' = Cardinality(Unanswered')
  <2>1. Unanswered' = Unanswered \ {x} /\ x \in Unanswered
    BY <1>3, <1>s DEF Unanswered
  <2>2. IsFiniteSet(Unanswered) /\ num_running_async_jobs = Cardinality(Unanswered)
    BY <1>p DEF Counts, Counted, LoadExact, Unanswered, Pool
  <2>3. IsFiniteSet(Unanswered \ {x}) /\ Cardinality(Unanswered \ {x}) = Cardinality(Unanswered) - 1
    BY <2>1, <2>2, FS_RemoveElement
  <2> QED BY <1>2, <2>1, <2>2, <2>3 DEF Counted
<1>9. \A v \in Worker : load'[v] = Len(request_queue[v]) + InHand(v)' + Len(r[v])
  <2> TAKE v \in Worker
  <2>1. load[v] = Len(request_queue[v]) + InHand(v) + Len(q[v]) /\ Len(request_queue[v]) \in Nat
    BY <1>p, <1>q DEF Counts, LoadExact, Pool, TypeOK
  <2>2. InHand(v)' = InHand(v) /\ InHand(v) \in Nat
    BY <1>2 DEF InHand
  <2>3. CASE v = w
    <3>1. load'[v] = load[v] - 1 /\ load[v] \in Nat
      BY <1>2, <2>3 DEF TypeOK
    <3>l. Len(r[v]) \in Nat /\ Len(q[v]) = Len(r[v]) + 1
      BY <1>1, <2>3
    <3>2. PICK n \in Nat, m \in Nat, h \in Nat :
            n = Len(request_queue[v]) /\ m = Len(r[v]) /\ h = InHand(v) /\ Len(q[v]) = m + 1
      BY <2>1, <2>2, <3>l
    <3>3. load[v] = n + h + (m + 1)
      BY <2>1, <3>2
    <3>4. load'[v] = n + h + m
      <4>1. n + h + m \in Nat
        OBVIOUS
      <4>2. load[v] = (n + h + m) + 1
        BY <3>3
      <4> QED BY <3>1, <4>1, <4>2
    <3> QED BY <2>2, <3>2, <3>4
  <2>4. CASE v # w
    <3>1. load'[v] = load[v]
      BY <1>2, <2>4 DEF TypeOK
    <3> QED BY <1>1, <2>1, <2>2, <2>4, <3>1
  <2> QED BY <2>3, <2>4
<1> QED BY <1>2, <1>7, <1>8, <1>9, <1>q DEF Counts, LoadExact, Unanswered

\* A job is submitted.
LEMMA SubmitPlaced ==
    ASSUME TypeOK, Placed, Counts, Submit, HasRoom(LeastBusy)
    PROVE  Placed' /\ Counts'
<1>w. PICK w \in Worker : w = LeastBusy
  BY LeastBusyExists DEF TypeOK
<1>p. Pool /\ Pool' /\ main_pc' = "user"
  BY DEF Submit, Pool, Draining, Stopping
<1>q. PICK q, r, x : q = request_queue /\ r = request_queue' /\ x = job
  OBVIOUS
<1>1. x \in Job /\ state[x] = "new"
  BY <1>p, <1>q DEF Submit, Placed
<1>0. Puts(q, r, w, x)
  BY <1>1, <1>q, <1>w DEF Submit, TypeOK, Puts
<1>2. /\ Len(q[w]) \in Nat /\ Len(r[w]) = Len(q[w]) + 1
      /\ \A v \in Worker \ {w} : r[v] = q[v]
  <2>1. Len(q[w]) \in Nat
    BY <1>0, Put
  <2>3. Len(r[w]) = Len(q[w]) + 1
    BY <1>0, Put
  <2>2. \A v \in Worker \ {w} : r[v] = q[v]
    BY <1>0 DEF Puts
  <2> QED BY <2>1, <2>2, <2>3
<1>t. Items(r) = Items(q) \cup {x}
  BY <1>0, Put
<1>d. NoDup(q) /\ x \notin Items(q) => NoDup(r)
  <2>1. ASSUME NoDup(q), x \notin Items(q)
        PROVE  NoDup(r)
    BY <1>0, <2>1, Put
  <2> QED BY <2>1
<1>3. /\ state' = [state EXCEPT ![x] = "submitted"]
      /\ load' = [load EXCEPT ![w] = @ + 1]
      /\ num_running_async_jobs' = num_running_async_jobs + 1
      /\ UNCHANGED <<response_queue, msg, worker_pc>>
  BY <1>q, <1>w DEF Submit, unchangedByMain, RunningAfterSubmit
<1>s. state'[x] = "submitted" /\ \A j \in Job \ {x} : state'[j] = state[j]
  BY <1>1, <1>3 DEF TypeOK
<1>4. x \notin Items(q) /\ x \notin Items(response_queue) /\ \A v \in Holding : msg[v] # x
  BY <1>1, <1>p, <1>q DEF Placed, Held
<1>i. /\ NoDup(request_queue)' = NoDup(r) /\ Items(request_queue)' = Items(r)
      /\ NoDup(response_queue)' = NoDup(response_queue)
      /\ Items(response_queue)' = Items(response_queue)
  BY <1>3, <1>q DEF NoDup, Items
<1>5. Holding' = Holding
  BY <1>3 DEF Holding
<1>6. Held'
  BY <1>3, <1>4, <1>5, <1>i, <1>p, <1>q, <1>s, <1>t DEF Placed, Held
<1>7. Placed'
  BY <1>1, <1>4, <1>6, <1>d, <1>i, <1>p, <1>q, <1>s, <1>t DEF Placed
<1>8. /\ Counted'
      /\ num_running_async_jobs' = Cardinality(Unanswered')
  <2>1. Unanswered' = Unanswered \cup {x} /\ x \notin Unanswered
    BY <1>1, <1>s DEF Unanswered
  <2>2. IsFiniteSet(Unanswered) /\ num_running_async_jobs = Cardinality(Unanswered)
    BY <1>p DEF Counts, Counted, LoadExact, Unanswered, Pool
  <2>3. /\ IsFiniteSet(Unanswered \cup {x})
        /\ Cardinality(Unanswered \cup {x}) = Cardinality(Unanswered) + 1
    BY <2>1, <2>2, FS_AddElement
  <2> QED BY <1>3, <2>1, <2>2, <2>3 DEF Counted
<1>9. \A v \in Worker : load'[v] = Len(r[v]) + InHand(v)' + Len(response_queue[v])
  <2> TAKE v \in Worker
  <2>1. load[v] = Len(q[v]) + InHand(v) + Len(response_queue[v]) /\ Len(response_queue[v]) \in Nat
    BY <1>p, <1>q DEF Counts, LoadExact, Pool, TypeOK
  <2>2. InHand(v)' = InHand(v) /\ InHand(v) \in Nat
    BY <1>3 DEF InHand
  <2>3. CASE v = w
    <3>1. load'[v] = load[v] + 1 /\ load[v] \in Nat
      BY <1>3, <2>3 DEF TypeOK
    <3>2. PICK n \in Nat, m \in Nat, h \in Nat :
            n = Len(q[v]) /\ m = Len(response_queue[v]) /\ h = InHand(v) /\ Len(r[v]) = n + 1
      BY <1>2, <2>1, <2>2, <2>3
    <3>3. load[v] = n + h + m
      BY <2>1, <3>2
    <3>4. load'[v] = (n + 1) + h + m
      BY <3>1, <3>3
    <3> QED BY <2>2, <3>2, <3>4
  <2>4. CASE v # w
    <3>1. load'[v] = load[v]
      BY <1>3, <2>4 DEF TypeOK
    <3> QED BY <1>2, <2>1, <2>2, <2>4, <3>1
  <2> QED BY <2>3, <2>4
<1> QED BY <1>3, <1>7, <1>8, <1>9, <1>q DEF Counts, LoadExact, Unanswered

\* A job stays in one place, and the load of a worker counts the jobs it has not answered.
LEMMA PlacedStep ==
    ASSUME IInv, [Next]_vars
    PROVE  Placed' /\ Counts'
<1> USE DEF kernelVars, unchangedByMain, unchangedByWorker, loopVars, countVars, sharedVars
<1>0. TypeOK /\ Placed /\ Counts
  BY DEF IInv, Counts
<1>1. ASSUME NEW w \in Worker, WorkerStep(w)
      PROVE  Placed' /\ Counts'
  <2>1. CASE bio_platform_notify(w) \/ FutexWake(w)
    <3>1. /\ UNCHANGED <<request_queue, response_queue, msg, state, load,
                         num_running_async_jobs, main_pc, job>>
          /\ worker_pc[w] \in {"notify", "wake"}
      BY <2>1 DEF bio_platform_notify, FutexWake
    <3>2. \E to \in {"wake", "consume"} : worker_pc' = [worker_pc EXCEPT ![w] = to]
      BY <2>1, NotifyKinds DEF FutexWake
    <3>3. \A v \in Worker : worker_pc'[v] = worker_pc[v]
                            \/ {worker_pc[v], worker_pc'[v]} \cap {"run", "produce"} = {}
      BY <1>0, <3>1, <3>2 DEF TypeOK
    <3>4. Pool' /\ main_pc' = "submit_drain" => job' \in Job /\ state[job'] = "new"
      BY <1>0, <3>1, PoolStep DEF Placed
    <3> QED BY <1>0, <3>1, <3>3, <3>4, NothingMoved
  <2>2. CASE ~Pool
    <3>1. ~Pool'
      BY <2>2, PoolStep
    <3>2. Placed'
      BY <3>1 DEF Placed
    <3>3. LoadExact'
      BY <3>1 DEF LoadExact, Pool
    <3>4. Counted'
      <4>1. CASE UNCHANGED state
        BY <1>0, <4>1 DEF Counts, Counted, Unanswered
      <4>2. CASE RunMessage(w)
        <5>1. Unanswered' \subseteq Unanswered \cup {msg[w]}
          BY <1>0, <4>2 DEF RunMessage, Unanswered, TypeOK
        <5>2. IsFiniteSet(Unanswered \cup {msg[w]})
          BY <1>0, FS_AddElement DEF Counts, Counted
        <5>3. IsFiniteSet(Unanswered')
          BY <5>1, <5>2, FS_Subset
        <5> QED BY <5>3 DEF Counted
      <4> QED BY <1>1, <4>1, <4>2 DEF WorkerStep, ConsumeRequest, ProduceResponse,
                                      bio_platform_notify, FutexWake
    <3> QED BY <3>2, <3>3, <3>4 DEF Counts
  <2> QED BY <1>0, <1>1, <2>1, <2>2, ConsumePlaced, RunPlaced, ProducePlaced DEF WorkerStep
<1>2. ASSUME UNCHANGED <<request_queue, response_queue, msg, state, load,
                         num_running_async_jobs, worker_pc>>,
             main_pc' = "submit_drain" => \/ main_pc = "submit_drain" /\ job' = job
                                          \/ job' \in Job /\ state[job'] = "new"
      PROVE  Placed' /\ Counts'
  <2>1. Pool' /\ main_pc' = "submit_drain" => job' \in Job /\ state[job'] = "new"
    BY <1>0, <1>2, PoolStep DEF Placed
  <2> QED BY <1>0, <1>2, <2>1, NothingMoved
<1>3. CASE DrainNext \/ bio_thread_update \/ UpdateNoWait \/ BeginWait \/ EnterKernel
           \/ Acknowledge \/ LateUpdateDone \/ WakeUp \/ bio_thread_cleanup
           \/ NoMoreResponses \/ Join \/ UNCHANGED vars
  <2>1. UNCHANGED <<request_queue, response_queue, msg, state, load,
                    num_running_async_jobs, worker_pc>>
    BY <1>3 DEF DrainNext, bio_thread_update, UpdateNoWait, BeginWait, EnterKernel, Acknowledge,
          LateUpdateDone, WakeUp, bio_thread_cleanup, NoMoreResponses, Join, workerVars, vars
  <2>2. main_pc' = "submit_drain" => main_pc = "submit_drain" /\ job' = job
    BY <1>3 DEF DrainNext, bio_thread_update, UpdateNoWait, BeginWait, EnterKernel, Acknowledge,
          LateUpdateDone, WakeUp, bio_thread_cleanup, NoMoreResponses, Join, vars
  <2> QED BY <1>2, <2>1, <2>2
<1>4. ASSUME NEW j \in Job, bio_run_async(j)
      PROVE  Placed' /\ Counts'
  BY <1>2, <1>4 DEF bio_run_async
<1>5. CASE Submit /\ ~HasRoom(LeastBusy)
  BY <1>2, <1>5 DEF Submit
<1>6. CASE SendTerminate \/ FreeResponse
  <2>1. ~Pool' /\ UNCHANGED state
    BY <1>6 DEF SendTerminate, FreeResponse, Pool, Stopping
  <2> QED BY <1>0, <2>1 DEF Placed, Counts, Counted, Unanswered, LoadExact, Pool
<1> QED BY <1>0, <1>1, <1>3, <1>4, <1>5, <1>6, DrainPlaced, SubmitPlaced
        DEF Next, MainStep, Cleanup, Done
-----------------------------------------------------------------------------
(***************************************************************************)
(* The sleep of the scheduler.                                              *)
(***************************************************************************)
Sleep == LateResponsesNoticed /\ Attended /\ NoLostNotification

\* Nothing is said of a scheduler that is not on its way to sleep.
LEMMA Awake ==
    ASSUME main_pc' \notin {"update", "enter", "asleep"}
    PROVE  Sleep'
BY DEF Sleep, LateResponsesNoticed, Passed, Attended, NoLostNotification

\* A job that has a response or that a worker holds is counted.
LEMMA BusyCounted ==
    ASSUME TypeOK, Placed, Counts, Pool, NEW w \in Worker,
           w \in Holding \/ response_queue[w] # <<>>
    PROVE  num_running_async_jobs > 0
<1>1. CASE w \in Holding
  <2>1. PICK j : j = msg[w]
    OBVIOUS
  <2>2. j \in Unanswered
    BY <1>1, <2>1 DEF Placed, Held, Unanswered
  <2> QED BY <2>2, RunningCounted DEF Counts
<1>2. CASE response_queue[w] # <<>>
  <2>1. PICK j : j = Head(response_queue[w])
    OBVIOUS
  <2>2. j \in Unanswered
    BY <1>2, <2>1, ResponseFacts
  <2> QED BY <2>2, RunningCounted DEF Counts
<1> QED BY <1>1, <1>2

\* Steps of workers that touch neither the responses nor the kernel.
LEMMA QuietSleep ==
    ASSUME Sleep,
           UNCHANGED <<main_pc, drained, response_queue, notification_counter, waiters,
                       completions, ack_counter, has_op_futex_wait, num_running_async_jobs>>,
           \A w \in Worker : worker_pc[w] \in {"notify", "wake"} => worker_pc'[w] = worker_pc[w]
    PROVE  Sleep'
<1>1. LateResponsesNoticed'
  BY DEF Sleep, LateResponsesNoticed, Passed, Noticed
<1>2. Attended' /\ NoLostNotification'
  BY DEF Sleep, Attended, NoLostNotification
<1> QED BY <1>1, <1>2 DEF Sleep

\* The response a worker produces finds the loop awake, or its notification is still to come.
LEMMA ProduceSleep ==
    ASSUME IInv, NEW w \in Worker, ProduceResponse(w)
    PROVE  Sleep'
<1>0. TypeOK /\ Placed /\ Counts /\ Sleep
  BY DEF IInv, Counts, Sleep
<1>1. /\ UNCHANGED <<main_pc, drained, notification_counter, waiters, completions, ack_counter,
                     has_op_futex_wait, num_running_async_jobs>>
      /\ w \in Holding
  BY DEF ProduceResponse, kernelVars, unchangedByWorker, loopVars, countVars, Holding
<1>2. CASE main_pc \notin {"update", "enter", "asleep"}
  BY <1>1, <1>2, Awake
<1>3. CASE main_pc \in {"update", "enter", "asleep"}
  <2>1. Pool
    BY <1>3 DEF Pool, Stopping
  <2>2. msg[w] # Terminate /\ num_running_async_jobs > 0
    BY <1>0, <1>1, <2>1, BusyCounted, MessageAssumption DEF Placed, Held
  <2>3. /\ worker_pc'[w] = "notify"
        /\ \A v \in Worker \ {w} : worker_pc'[v] = worker_pc[v]
        /\ \A v \in Worker \ {w} : response_queue'[v] = response_queue[v]
    BY <1>0, <2>2 DEF ProduceResponse, TypeOK
  <2>4. LateResponsesNoticed'
    BY <1>0, <1>1, <2>3 DEF Sleep, LateResponsesNoticed, Passed, Noticed
  <2>5. Attended'
    BY <1>0, <1>1 DEF Sleep, Attended
  <2>6. NoLostNotification'
    BY <1>0, <1>1, <2>2, <2>3 DEF Sleep, Attended, NoLostNotification
  <2> QED BY <2>4, <2>5, <2>6 DEF Sleep
<1> QED BY <1>2, <1>3

\* A notification is noticed by a wait that begins later, and wakes one that has begun.
LEMMA NotifySleep ==
    ASSUME IInv, NEW w \in Worker, bio_platform_notify(w)
    PROVE  Sleep'
<1>0. TypeOK /\ Steps /\ Sleep
  BY DEF IInv, Sleep
<1>1. UNCHANGED <<main_pc, drained, response_queue, ack_counter, has_op_futex_wait,
                  num_running_async_jobs>>
  BY DEF bio_platform_notify, sharedVars, unchangedByWorker, loopVars, countVars
<1>t. /\ notification_counter \in Nat /\ waiters \in Nat /\ completions \in Nat
      /\ ack_counter \in Nat
  BY <1>0 DEF TypeOK
<1>2. \/ /\ has_op_futex_wait
         /\ notification_counter' = notification_counter + 1
         /\ worker_pc' = [worker_pc EXCEPT ![w] = "wake"]
         /\ waiters' = waiters /\ completions' = completions
      \/ /\ ~has_op_futex_wait
         /\ waiters > 0
         /\ completions' = completions + 1
      \/ /\ ~has_op_futex_wait
         /\ ~(waiters > 0)
         /\ notification_counter' = notification_counter + 1
         /\ waiters' = waiters /\ completions' = completions
  BY NotifyKinds, Zenon
<1>3. CASE /\ has_op_futex_wait
           /\ notification_counter' = notification_counter + 1
           /\ worker_pc' = [worker_pc EXCEPT ![w] = "wake"]
           /\ waiters' = waiters /\ completions' = completions
  <2>1. ack_counter' # notification_counter' /\ has_op_futex_wait'
    <3>1. ack_counter <= notification_counter
      BY <1>0, <1>3 DEF Steps
    <3>2. ack_counter # notification_counter + 1
      BY <1>t, <3>1
    <3> QED BY <1>1, <1>3, <3>2
  <2>2. LateResponsesNoticed'
    BY <2>1 DEF LateResponsesNoticed, Noticed
  <2>3. Attended'
    BY <1>0, <1>1, <1>3 DEF Sleep, Attended
  <2>4. worker_pc'[w] = "wake"
    BY <1>0, <1>3 DEF TypeOK
  <2>5. NoLostNotification'
    BY <1>0, <1>1, <1>3, <2>4 DEF Sleep, NoLostNotification
  <2> QED BY <2>2, <2>3, <2>5 DEF Sleep
<1>4. CASE ~has_op_futex_wait /\ waiters > 0 /\ completions' = completions + 1
  <2>1. completions' > 0
    BY <1>4, <1>t
  <2>2. ~has_op_futex_wait'
    BY <1>1, <1>4
  <2> QED BY <2>1, <2>2 DEF Sleep, LateResponsesNoticed, Noticed, Attended, NoLostNotification
<1>5. CASE /\ ~has_op_futex_wait
           /\ ~(waiters > 0)
           /\ notification_counter' = notification_counter + 1
           /\ waiters' = waiters /\ completions' = completions
  <2>1. notification_counter' > 0
    BY <1>5, <1>t
  <2>2. ~has_op_futex_wait'
    BY <1>1, <1>5
  <2>3. LateResponsesNoticed'
    BY <2>1, <2>2 DEF LateResponsesNoticed, Noticed
  <2>4. Attended' /\ NoLostNotification'
    BY <1>0, <1>1, <1>5 DEF Sleep, Attended, NoLostNotification
  <2> QED BY <2>3, <2>4 DEF Sleep
<1> QED BY <1>2, <1>3, <1>4, <1>5

\* The wake-up a worker sends ends the wait that is in the kernel.
LEMMA FutexWakeSleep ==
    ASSUME IInv, NEW w \in Worker, FutexWake(w)
    PROVE  Sleep'
<1>0. TypeOK /\ Sleep
  BY DEF IInv, Sleep
<1>1. UNCHANGED <<main_pc, drained, response_queue, ack_counter, has_op_futex_wait,
                  num_running_async_jobs, notification_counter>>
  BY DEF FutexWake, sharedVars, unchangedByWorker, loopVars, countVars
<1>2. \A v \in Worker : worker_pc[v] = "notify" => worker_pc'[v] = "notify"
  BY <1>0 DEF FutexWake, TypeOK
<1>3. CASE waiters > 0
  <2>1. completions' > 0
    BY <1>0, <1>3 DEF FutexWake, TypeOK
  <2>2. \A v \in Worker : Noticed(v) => Noticed(v)'
    BY <1>1, <1>2, <2>1 DEF Noticed
  <2>3. LateResponsesNoticed'
    BY <1>0, <1>1, <2>2 DEF Sleep, LateResponsesNoticed, Passed
  <2> QED BY <2>1, <2>3 DEF Sleep, Attended, NoLostNotification
<1>4. CASE ~(waiters > 0)
  <2>1. UNCHANGED <<waiters, completions>>
    BY <1>4 DEF FutexWake
  <2>2. LateResponsesNoticed'
    BY <1>0, <1>1, <1>2, <2>1 DEF Sleep, LateResponsesNoticed, Passed, Noticed
  <2>3. Attended' /\ NoLostNotification'
    BY <1>0, <1>1, <1>4, <2>1 DEF Sleep, Attended, NoLostNotification
  <2> QED BY <2>2, <2>3 DEF Sleep
<1> QED BY <1>3, <1>4

\* The scheduler goes to sleep.
LEMMA EnterSleep ==
    ASSUME IInv, EnterKernel
    PROVE  Sleep'
<1>0. TypeOK /\ Placed /\ Counts /\ Sleep /\ main_pc = "enter"
  BY DEF IInv, Counts, Sleep, EnterKernel
<1>1. /\ UNCHANGED <<response_queue, worker_pc, has_op_futex_wait, num_running_async_jobs,
                     ack_counter>>
      /\ main_pc' = "asleep"
  BY DEF EnterKernel, sharedVars, unchangedByMain, countVars, loopVars
<1>t. notification_counter \in Nat /\ waiters \in Nat /\ completions \in Nat
  BY <1>0 DEF TypeOK
<1>2. LateResponsesNoticed'
  BY <1>1 DEF LateResponsesNoticed, Passed
<1>3. \A v \in Worker : response_queue[v] # <<>> => Noticed(v) /\ num_running_async_jobs > 0
  <2>1. Pool
    BY <1>0 DEF Pool, Stopping
  <2> QED BY <1>0, <2>1, BusyCounted DEF Sleep, LateResponsesNoticed, Passed
<1>4. CASE ~(num_running_async_jobs > 0)
  BY <1>1, <1>2, <1>3, <1>4 DEF Sleep, Attended, NoLostNotification
<1>5. CASE completions' = completions + 1
  <2>1. completions' > 0
    BY <1>5, <1>t
  <2> QED BY <1>2, <2>1 DEF Sleep, Attended, NoLostNotification
<1>6. CASE /\ has_op_futex_wait /\ notification_counter = ack_counter
           /\ waiters' = waiters + 1 /\ completions' = completions
  <2>1. waiters' > 0
    BY <1>6, <1>t
  <2>2. \A v \in Worker : response_queue'[v] # <<>> => worker_pc'[v] = "notify"
    BY <1>1, <1>3, <1>6 DEF Noticed
  <2> QED BY <1>2, <2>1, <2>2 DEF Sleep, Attended, NoLostNotification
<1>7. CASE /\ ~has_op_futex_wait /\ ~(notification_counter > 0)
           /\ waiters' = waiters + 1 /\ completions' = completions
  <2>1. waiters' > 0
    BY <1>7, <1>t
  <2>2. \A v \in Worker : response_queue'[v] # <<>> => worker_pc'[v] = "notify" \/ completions' > 0
    BY <1>1, <1>3, <1>7 DEF Noticed
  <2> QED BY <1>2, <2>1, <2>2 DEF Sleep, Attended, NoLostNotification
<1>8. \/ ~(num_running_async_jobs > 0)
      \/ completions' = completions + 1
      \/ /\ has_op_futex_wait /\ notification_counter = ack_counter
         /\ waiters' = waiters + 1 /\ completions' = completions
      \/ /\ ~has_op_futex_wait /\ ~(notification_counter > 0)
         /\ waiters' = waiters + 1 /\ completions' = completions
  BY EnterKernelKinds, Zenon
<1> QED BY <1>4, <1>5, <1>6, <1>7, <1>8

\* In every step the loop sleeps only while something is still going to wake it.
LEMMA SleepStep ==
    ASSUME IInv, [Next]_vars
    PROVE  Sleep'
<1> USE DEF kernelVars, unchangedByMain, unchangedByWorker, loopVars, countVars, sharedVars
<1>0. TypeOK /\ Steps /\ Sleep
  BY DEF IInv, Sleep
<1>1. ASSUME NEW w \in Worker, ConsumeRequest(w) \/ RunMessage(w)
      PROVE  Sleep'
  <2>1. UNCHANGED <<main_pc, drained, response_queue, notification_counter, waiters,
                    completions, ack_counter, has_op_futex_wait, num_running_async_jobs>>
    BY <1>1 DEF ConsumeRequest, RunMessage
  <2>2. \A v \in Worker : worker_pc[v] \in {"notify", "wake"} => worker_pc'[v] = worker_pc[v]
    BY <1>0, <1>1 DEF ConsumeRequest, RunMessage, TypeOK
  <2> QED BY <1>0, <2>1, <2>2, QuietSleep
<1>2. CASE Submit \/ UpdateNoWait \/ WakeUp \/ Acknowledge \/ LateUpdateDone
           \/ bio_thread_cleanup \/ Cleanup \/ \E j \in Job : bio_run_async(j)
  <2>1. main_pc' \notin {"update", "enter", "asleep"}
    BY <1>2 DEF Submit, UpdateNoWait, WakeUp, Acknowledge, LateUpdateDone, bio_thread_cleanup,
                Cleanup, SendTerminate, FreeResponse, NoMoreResponses, Join, bio_run_async
  <2> QED BY <2>1, Awake
<1>3. CASE UNCHANGED vars
  BY <1>0, <1>3, QuietSleep DEF vars, workerVars
<1>4. CASE bio_thread_update
  <2>1. main_pc' = "update" /\ drained' = 1
    BY <1>0, <1>4 DEF bio_thread_update, Steps
  <2>2. \A w \in Worker : ~Passed(w)'
    BY <2>1 DEF Passed, Worker
  <2> QED BY <2>1, <2>2 DEF Sleep, LateResponsesNoticed, Attended, NoLostNotification
<1>5. CASE DrainOne \/ DrainNext
  <2>1. /\ UNCHANGED <<main_pc, notification_counter, completions, ack_counter,
                       has_op_futex_wait, worker_pc>>
        /\ main_pc \in Draining
    BY <1>5 DEF DrainOne, DrainNext
  <2>2. \A w \in Worker : Passed(w)' /\ response_queue'[w] # <<>> =>
            Passed(w) /\ response_queue[w] # <<>>
    <3>1. CASE DrainOne
      BY <1>0, <3>1 DEF DrainOne, Passed, TypeOK, Worker, Draining
    <3>2. CASE DrainNext
      BY <1>0, <3>2 DEF DrainNext, Passed, TypeOK, Worker, Draining
    <3> QED BY <1>5, <3>1, <3>2
  <2>3. LateResponsesNoticed'
    BY <1>0, <2>1, <2>2 DEF Sleep, LateResponsesNoticed, Noticed
  <2>4. main_pc' # "asleep"
    BY <2>1 DEF Draining
  <2> QED BY <2>3, <2>4 DEF Sleep, Attended, NoLostNotification
<1>6. CASE BeginWait
  <2>1. CASE main_pc' = "late_update"
    BY <2>1, Awake
  <2>2. CASE main_pc' = "enter"
    <3>1. /\ UNCHANGED <<response_queue, worker_pc, notification_counter, completions,
                         ack_counter, has_op_futex_wait>>
          /\ main_pc = "update" /\ DrainedAll
      <4>1. UNCHANGED <<completions, ack_counter>> /\ main_pc = "update" /\ DrainedAll
        BY <1>6, <2>2, BeginWaitKinds
      <4> QED BY <1>6, <4>1 DEF BeginWait
    <3>2. \A w \in Worker : Passed(w)
      BY <1>0, <3>1, ThreadsAssumption DEF Passed, DrainedAll, Worker, TypeOK
    <3>3. LateResponsesNoticed'
      BY <1>0, <3>1, <3>2 DEF Sleep, LateResponsesNoticed, Noticed
    <3> QED BY <2>2, <3>3 DEF Sleep, Attended, NoLostNotification
  <2> QED BY <1>6, <2>1, <2>2, BeginWaitKinds
<1> QED BY <1>1, <1>2, <1>3, <1>4, <1>5, <1>6, ProduceSleep, NotifySleep, FutexWakeSleep,
           EnterSleep DEF Next, WorkerStep, MainStep, Done
-----------------------------------------------------------------------------
(***************************************************************************)
(* IInv is an inductive invariant of bio_run_async, the workers, the loop   *)
(* and bio_thread_cleanup, in any order of their steps.                     *)
(***************************************************************************)
THEOREM Invariance == Spec => []IInv
<1>1. Init => IInv
  BY InitInv
<1>2. IInv /\ [Next]_vars => IInv'
  <2> SUFFICES ASSUME IInv, [Next]_vars
               PROVE  IInv'
    OBVIOUS
  <2>1. TypeOK' /\ Steps'
    <3>1. CASE UNCHANGED vars
      <4>1. TypeOK /\ Steps
        BY DEF IInv
      <4> QED BY <3>1, <4>1 DEF vars, sharedVars, kernelVars, workerVars, loopVars, countVars,
                                TypeOK, Steps, Holding
    <3> QED BY <3>1, WorkerTypes, MainTypes DEF Next, Done
  <2>2. Placed' /\ Counts'
    BY PlacedStep
  <2>3. Sleep'
    BY SleepStep
  <2> QED BY <2>1, <2>2, <2>3 DEF IInv, Counts, Sleep
<1> QED BY <1>1, <1>2, PTL DEF Spec

\* The variables of the pool keep their types: no queue holds anything but messages,
\* and neither load nor num_running_async_jobs goes below zero.
THEOREM TypeCorrect == Spec => []TypeOK
<1>1. IInv => TypeOK
  BY DEF IInv
<1> QED BY <1>1, Invariance, PTL

\* The load by which bio_run_async picks a worker and the number of running jobs,
\* which decides whether the loop waits for a notification, are exact.
THEOREM LoadCorrect == Spec => []LoadExact
<1>1. IInv => LoadExact
  BY DEF IInv
<1> QED BY <1>1, Invariance, PTL

\* A scheduler asleep in the kernel while a response waits for it has a completion, or
\* a worker about to complete its wait, with a futex as with an eventfd.
THEOREM NotificationCorrect == Spec => []NoLostNotification
<1>1. IInv => NoLostNotification
  BY DEF IInv
<1> QED BY <1>1, Invariance, PTL
=============================================================================
