------------------------------ MODULE ThreadPool ----------------------------
(***************************************************************************)
(* The thread pool of src/src/thread.c and the wakeup of a scheduler that   *)
(* sleeps in the kernel (bio_platform_update and bio_platform_notify of     *)
(* src/src/linux/platform.c, with a futex or with an eventfd).              *)
(*                                                                          *)
(* The scheduler's thread submits jobs, drains responses, sleeps in the     *)
(* kernel and in the end stops the pool; each worker consumes, runs,        *)
(* responds and notifies.  The two queues of a worker are the bounded FIFO  *)
(* queues SpscQueue implements.  Coroutines other than those that submit    *)
(* or wait for jobs, timers and I/O appear as reasons for the loop not to   *)
(* sleep, or to wake up, at any time.                                       *)
(***************************************************************************)
EXTENDS Integers, Sequences, FiniteSets

CONSTANTS
    Job,           \* jobs passed to bio_run_async
    NumThreads,    \* thread_pool.num_threads
    QueueSize,     \* thread_pool.queue_size
    MaxWaiters,    \* bound: futex waits or eventfd reads left pending
    Terminate,     \* the message that stops a worker
    NoJob

ASSUME ThreadsAssumption == NumThreads \in Nat \ {0}
ASSUME QueueAssumption == QueueSize \in Nat \ {0}
ASSUME WaitersAssumption == MaxWaiters \in Nat \ {0}
ASSUME MessageAssumption == Terminate \notin Job /\ NoJob \notin Job /\ NoJob # Terminate

VARIABLES
    \* shared by the threads
    request_queue, response_queue,
    notification_counter,         \* the futex word, or the value of the eventfd
    \* the kernel
    has_op_futex_wait,            \* it has the futex wait, or else an eventfd is used
    waiters,                      \* futex waits or eventfd reads that are pending
    completions,                  \* completions the scheduler has not seen
    \* each worker
    worker_pc, msg,
    \* the scheduler's thread
    main_pc, drained, job, retrying, load, num_running_async_jobs, woken,
    ack_counter,
    \* auxiliary: the life of each job
    state

sharedVars == <<request_queue, response_queue>>
kernelVars == <<notification_counter, waiters, completions>>
workerVars == <<worker_pc, msg>>
loopVars == <<retrying, woken, ack_counter>>
countVars == <<load, num_running_async_jobs>>
vars == <<sharedVars, kernelVars, workerVars, loopVars, countVars, main_pc, drained,
          job, state, has_op_futex_wait>>

Worker == 1 .. NumThreads

\* Mutant: as large as the request queue.
SameSize == QueueSize

ResponseSize == QueueSize * 2

Init ==
    /\ request_queue = [w \in Worker |-> <<>>]
    /\ response_queue = [w \in Worker |-> <<>>]
    /\ notification_counter = 0
    /\ waiters = 0
    /\ completions = 0
    /\ worker_pc = [w \in Worker |-> "consume"]
    /\ msg = [w \in Worker |-> NoJob]
    /\ main_pc = "user"
    /\ drained = 1
    /\ job = NoJob
    /\ retrying = {}
    /\ load = [w \in Worker |-> 0]
    /\ num_running_async_jobs = 0
    /\ woken = FALSE
    /\ ack_counter = 0
    /\ state = [j \in Job |-> "new"]
    /\ has_op_futex_wait \in BOOLEAN
-----------------------------------------------------------------------------
(***************************************************************************)
(* bio_async_worker                                                         *)
(***************************************************************************)
unchangedByWorker ==
    <<loopVars, countVars, main_pc, drained, job, has_op_futex_wait>>

ConsumeRequest(w) ==
    /\ worker_pc[w] = "consume"
    /\ request_queue[w] # <<>>
    /\ msg' = [msg EXCEPT ![w] = Head(request_queue[w])]
    /\ request_queue' = [request_queue EXCEPT ![w] = Tail(@)]
    /\ worker_pc' = [worker_pc EXCEPT ![w] = "run"]
    /\ UNCHANGED <<response_queue, kernelVars, state, unchangedByWorker>>

RunMessage(w) ==
    /\ worker_pc[w] = "run"
    /\ state' = IF msg[w] = Terminate THEN state ELSE [state EXCEPT ![msg[w]] = "ran"]
    /\ worker_pc' = [worker_pc EXCEPT ![w] = "produce"]
    /\ UNCHANGED <<sharedVars, kernelVars, msg, unchangedByWorker>>

\* Mutant: the worker does not notify.
NeverNotifies(w) ==
    /\ worker_pc[w] = "produce"
    /\ Len(response_queue[w]) < ResponseSize
    /\ response_queue' = [response_queue EXCEPT ![w] = Append(@, msg[w])]
    /\ msg' = [msg EXCEPT ![w] = NoJob]
    /\ worker_pc' = [worker_pc EXCEPT ![w] = IF msg[w] = Terminate THEN "exited" ELSE "consume"]
    /\ UNCHANGED <<request_queue, kernelVars, state, unchangedByWorker>>

\* The terminate message needs no notification and ends the thread.
ProduceResponse(w) ==
    /\ worker_pc[w] = "produce"
    /\ Len(response_queue[w]) < ResponseSize
    /\ response_queue' = [response_queue EXCEPT ![w] = Append(@, msg[w])]
    /\ msg' = [msg EXCEPT ![w] = NoJob]
    /\ worker_pc' = [worker_pc EXCEPT ![w] = IF msg[w] = Terminate THEN "exited" ELSE "notify"]
    /\ UNCHANGED <<request_queue, kernelVars, state, unchangedByWorker>>

(***************************************************************************)
(* bio_platform_notify: the futex word changes before the wake; a wake      *)
(* completes one pending wait.  A write to the eventfd completes a pending  *)
(* read, which takes the whole value.                                       *)
(***************************************************************************)
bio_platform_notify(w) ==
    /\ worker_pc[w] = "notify"
    /\ IF has_op_futex_wait
       THEN /\ notification_counter' = notification_counter + 1
            /\ worker_pc' = [worker_pc EXCEPT ![w] = "wake"]
            /\ UNCHANGED <<waiters, completions>>
       ELSE /\ worker_pc' = [worker_pc EXCEPT ![w] = "consume"]
            /\ IF waiters > 0
               THEN /\ waiters' = waiters - 1
                    /\ completions' = completions + 1
                    /\ UNCHANGED notification_counter
               ELSE /\ notification_counter' = notification_counter + 1
                    /\ UNCHANGED <<waiters, completions>>
    /\ UNCHANGED <<sharedVars, msg, state, unchangedByWorker>>

FutexWake(w) ==
    /\ worker_pc[w] = "wake"
    /\ IF waiters > 0
       THEN waiters' = waiters - 1 /\ completions' = completions + 1
       ELSE UNCHANGED <<waiters, completions>>
    /\ worker_pc' = [worker_pc EXCEPT ![w] = "consume"]
    /\ UNCHANGED <<sharedVars, notification_counter, msg, state, unchangedByWorker>>

WorkerStep(w) ==
    \/ ConsumeRequest(w) \/ RunMessage(w) \/ ProduceResponse(w)
    \/ bio_platform_notify(w) \/ FutexWake(w)
-----------------------------------------------------------------------------
(***************************************************************************)
(* bio_thread_drain_responses, one message at a time, of one worker after   *)
(* the other: before a submission, and twice in an iteration of bio_loop.   *)
(***************************************************************************)
Draining == {"submit_drain", "update", "late_update"}

unchangedByMain == <<msg, worker_pc, has_op_futex_wait>>

\* Mutant: the load of the worker is not given back.
LoadKept(w) == load

LoadAfterResponse(w) == [load EXCEPT ![w] = @ - 1]

DrainOne ==
    /\ main_pc \in Draining
    /\ drained <= NumThreads
    /\ response_queue[drained] # <<>>
    /\ LET j == Head(response_queue[drained]) IN
          state' = [state EXCEPT ![j] = "signalled"]
    /\ \E is_awaited \in BOOLEAN :
          woken' = (main_pc = "update" /\ (woken \/ is_awaited))
    /\ num_running_async_jobs' = num_running_async_jobs - 1
    /\ load' = LoadAfterResponse(drained)
    /\ response_queue' = [response_queue EXCEPT ![drained] = Tail(@)]
    /\ UNCHANGED <<request_queue, kernelVars, unchangedByMain, retrying, ack_counter,
                   main_pc, drained, job>>

DrainNext ==
    /\ main_pc \in Draining
    /\ drained <= NumThreads
    /\ response_queue[drained] = <<>>
    /\ drained' = drained + 1
    /\ UNCHANGED <<sharedVars, kernelVars, unchangedByMain, loopVars, countVars, main_pc,
                   job, state>>

DrainedAll == drained > NumThreads

(***************************************************************************)
(* bio_run_async                                                            *)
(***************************************************************************)
\* A coroutine calls it, or resumes it after its bio_yield.
bio_run_async(j) ==
    /\ main_pc = "user"
    /\ state[j] = "new"
    /\ job' = j
    /\ main_pc' = "submit_drain"
    /\ drained' = 1
    /\ UNCHANGED <<sharedVars, kernelVars, unchangedByMain, loopVars, countVars, state>>

\* The first of the least loaded workers.
LeastBusy ==
    CHOOSE w \in Worker :
        \A v \in Worker : load[w] < load[v] \/ (load[w] = load[v] /\ w <= v)

HasRoom(w) == Len(request_queue[w]) < QueueSize

RunningAfterSubmit == num_running_async_jobs + 1

\* A full queue makes the coroutine yield and try again.
Submit ==
    /\ main_pc = "submit_drain"
    /\ DrainedAll
    /\ main_pc' = "user"
    /\ drained' = 1
    /\ job' = NoJob
    /\ IF HasRoom(LeastBusy)
       THEN /\ request_queue' = [request_queue EXCEPT ![LeastBusy] = Append(@, job)]
            /\ num_running_async_jobs' = RunningAfterSubmit
            /\ load' = [load EXCEPT ![LeastBusy] = @ + 1]
            /\ state' = [state EXCEPT ![job] = "submitted"]
            /\ retrying' = retrying \ {job}
       ELSE /\ retrying' = retrying \cup {job}
            /\ UNCHANGED <<request_queue, countVars, state>>
    /\ UNCHANGED <<response_queue, kernelVars, unchangedByMain, woken, ack_counter>>

(***************************************************************************)
(* The part of bio_loop after the ready coroutines have run.                *)
(***************************************************************************)
bio_thread_update ==
    /\ main_pc = "user"
    /\ main_pc' = "update"
    /\ UNCHANGED <<sharedVars, kernelVars, unchangedByMain, loopVars, countVars, drained,
                   job, state>>

\* A coroutine that yielded, or whose job was drained, is ready: no wait.
ShouldWaitForIo == ~woken /\ retrying = {}

\* Other coroutines are ready, or a timer is due, which does not spare the loop
\* its second update.
UpdateNoWait ==
    /\ main_pc = "update"
    /\ DrainedAll
    /\ completions' = 0
    /\ main_pc' \in {"user"} \cup (IF ShouldWaitForIo THEN {"late_update"} ELSE {})
    /\ drained' = 1
    /\ woken' = FALSE
    /\ UNCHANGED <<sharedVars, notification_counter, waiters, unchangedByMain, retrying,
                   ack_counter, countVars, job, state>>

Notifiable == num_running_async_jobs > 0

\* Read the futex word; a change since the last wait cancels this one.  An
\* eventfd is not looked at.
BeginWait ==
    /\ main_pc = "update"
    /\ DrainedAll
    /\ ShouldWaitForIo
    /\ IF has_op_futex_wait /\ ack_counter # notification_counter
       THEN /\ ack_counter' = notification_counter
            /\ completions' = 0
            /\ main_pc' = "late_update"
            /\ drained' = 1
       ELSE /\ main_pc' = "enter"
            /\ UNCHANGED <<ack_counter, completions, drained>>
    /\ UNCHANGED <<sharedVars, notification_counter, waiters, unchangedByMain, retrying,
                   woken, countVars, job, state>>

\* Mutant: the futex wait is queued whatever the word says.
WordIgnored == TRUE

\* FUTEX_WAIT sleeps only if the word still has the value the caller saw.
WordUnchanged == notification_counter = ack_counter

\* The wait request reaches the kernel, which completes it at once if there is
\* something to report; then the thread sleeps.
EnterKernel ==
    /\ main_pc = "enter"
    /\ main_pc' = "asleep"
    /\ IF ~Notifiable THEN UNCHANGED kernelVars
       ELSE IF has_op_futex_wait
       THEN /\ IF WordUnchanged
               THEN waiters' = waiters + 1 /\ UNCHANGED completions
               ELSE completions' = completions + 1 /\ UNCHANGED waiters
            /\ UNCHANGED notification_counter
       ELSE IF notification_counter > 0
            THEN /\ completions' = completions + 1
                 /\ notification_counter' = 0
                 /\ UNCHANGED waiters
            ELSE waiters' = waiters + 1 /\ UNCHANGED <<completions, notification_counter>>
    /\ UNCHANGED <<sharedVars, unchangedByMain, loopVars, countVars, drained, job, state>>

\* The kernel returns with its completions, or for a timeout or other I/O; the
\* wait request then stays pending.
WakeUp ==
    /\ main_pc = "asleep"
    /\ completions > 0 \/ waiters < MaxWaiters
    /\ completions' = 0
    /\ main_pc' = "acknowledge"
    /\ UNCHANGED <<sharedVars, notification_counter, waiters, unchangedByMain, loopVars,
                   countVars, drained, job, state>>

Acknowledge ==
    /\ main_pc = "acknowledge"
    /\ ack_counter' = IF has_op_futex_wait THEN notification_counter ELSE ack_counter
    /\ main_pc' = "late_update"
    /\ drained' = 1
    /\ UNCHANGED <<sharedVars, kernelVars, unchangedByMain, retrying, woken,
                   countVars, job, state>>

\* bio_thread_update once more after the long wait.
LateUpdateDone ==
    /\ main_pc = "late_update"
    /\ DrainedAll
    /\ main_pc' = "user"
    /\ drained' = 1
    /\ UNCHANGED <<sharedVars, kernelVars, unchangedByMain, loopVars, countVars, job, state>>

(***************************************************************************)
(* bio_thread_cleanup: the workers are stopped one after the other.         *)
(***************************************************************************)
Stopping == {"stop", "stop_wait", "stop_more", "stop_drain", "join"}

\* Called by bio_terminate, when no coroutine is left; jobs may still run.
bio_thread_cleanup ==
    /\ main_pc = "user"
    /\ retrying = {}
    /\ main_pc' = "stop"
    /\ drained' = 1
    /\ UNCHANGED <<sharedVars, kernelVars, unchangedByMain, loopVars, countVars, job, state>>

SendTerminate ==
    /\ main_pc = "stop"
    /\ IF HasRoom(drained)
       THEN /\ request_queue' = [request_queue EXCEPT ![drained] = Append(@, Terminate)]
            /\ main_pc' = "stop_drain"
       ELSE /\ main_pc' = "stop_wait"
            /\ UNCHANGED request_queue
    /\ UNCHANGED <<response_queue, kernelVars, unchangedByMain, loopVars, countVars, drained,
                   job, state>>

\* Take a response, whose message is freed: the first one is waited for.
FreeResponse ==
    /\ main_pc \in {"stop_wait", "stop_more", "stop_drain"}
    /\ response_queue[drained] # <<>>
    /\ response_queue' = [response_queue EXCEPT ![drained] = Tail(@)]
    /\ main_pc' = IF main_pc = "stop_wait" THEN "stop_more" ELSE main_pc
    /\ UNCHANGED <<request_queue, kernelVars, unchangedByMain, loopVars, countVars, drained,
                   job, state>>

NoMoreResponses ==
    /\ main_pc \in {"stop_more", "stop_drain"}
    /\ response_queue[drained] = <<>>
    /\ main_pc' = IF main_pc = "stop_more" THEN "stop" ELSE "join"
    /\ UNCHANGED <<sharedVars, kernelVars, unchangedByMain, loopVars, countVars, drained,
                   job, state>>

Join ==
    /\ main_pc = "join"
    /\ worker_pc[drained] = "exited"
    /\ drained' = drained + 1
    /\ main_pc' = IF drained = NumThreads THEN "exited" ELSE "stop"
    /\ UNCHANGED <<sharedVars, kernelVars, unchangedByMain, loopVars, countVars, job, state>>

Cleanup == SendTerminate \/ FreeResponse \/ NoMoreResponses \/ Join

Done == main_pc = "exited" /\ UNCHANGED vars
-----------------------------------------------------------------------------
MainStep ==
    \/ DrainOne \/ DrainNext \/ Submit
    \/ bio_thread_update \/ UpdateNoWait \/ BeginWait \/ EnterKernel
    \/ Acknowledge \/ LateUpdateDone
    \/ Cleanup

Next ==
    \/ \E w \in Worker : WorkerStep(w)
    \/ \E j \in Job : bio_run_async(j)
    \/ MainStep
    \/ WakeUp
    \/ bio_thread_cleanup
    \/ Done

Spec == Init /\ [][Next]_vars

(***************************************************************************)
(* Fairness: the operating system runs every thread and the jobs end; the   *)
(* loop keeps going round and resumes a coroutine that yielded inside       *)
(* bio_run_async; the kernel returns when it has a completion.  Timers and  *)
(* other I/O are not assumed to wake the loop, nor bio_thread_cleanup to be *)
(* called.                                                                  *)
(***************************************************************************)
Fairness ==
    /\ \A w \in Worker : WF_vars(WorkerStep(w))
    /\ WF_vars(MainStep)
    /\ WF_vars(WakeUp /\ completions > 0)
    /\ \A j \in Job : SF_vars(bio_run_async(j) /\ j \in retrying)

FairSpec == Spec /\ Fairness
-----------------------------------------------------------------------------
TypeOK ==
    /\ request_queue \in [Worker -> Seq(Job \cup {Terminate})]
    /\ response_queue \in [Worker -> Seq(Job \cup {Terminate})]
    /\ notification_counter \in Nat
    /\ waiters \in Nat
    /\ completions \in Nat
    /\ worker_pc \in [Worker -> {"consume", "run", "produce", "notify", "wake", "exited"}]
    /\ msg \in [Worker -> Job \cup {Terminate, NoJob}]
    /\ main_pc \in Draining \cup Stopping \cup
                   {"user", "enter", "asleep", "acknowledge", "exited"}
    /\ drained \in 1 .. NumThreads + 1
    /\ job \in Job \cup {NoJob}
    /\ retrying \subseteq Job
    /\ load \in [Worker -> Nat]
    /\ num_running_async_jobs \in Nat
    /\ woken \in BOOLEAN
    /\ ack_counter \in Nat
    /\ state \in [Job -> {"new", "submitted", "ran", "signalled"}]
    /\ has_op_futex_wait \in BOOLEAN

\* The message a worker has taken and not yet given back.
InHand(w) == IF worker_pc[w] \in {"run", "produce"} THEN 1 ELSE 0

(***************************************************************************)
(* load, by which bio_run_async picks a worker, is what the worker has to   *)
(* do and has done since it was drained, and num_running_async_jobs, which  *)
(* decides whether the loop can be notified, is the number of jobs whose    *)
(* signal is still to be raised.                                            *)
(***************************************************************************)
LoadExact ==
    main_pc \notin Stopping \cup {"exited"} =>
        /\ \A w \in Worker :
              load[w] = Len(request_queue[w]) + InHand(w) + Len(response_queue[w])
        /\ num_running_async_jobs =
              Cardinality({j \in Job : state[j] \in {"submitted", "ran"}})

(***************************************************************************)
(* When the scheduler sleeps in the kernel while a response waits for it,   *)
(* either the kernel has a completion for it, or a worker is on its way     *)
(* through bio_platform_notify and a wait is pending for it to complete.    *)
(***************************************************************************)
NoLostNotification ==
    main_pc = "asleep" /\ (\E w \in Worker : response_queue[w] # <<>>) =>
        \/ completions > 0
        \/ waiters > 0 /\ \E w \in Worker : worker_pc[w] \in {"notify", "wake"}

\* Every job passed to bio_run_async is taken, also by a pool that is full at first,
\* run, and its signal is raised, however the submission, the worker, its
\* notification and the sleep of the loop interleave.
JobSignalled ==
    \A j \in Job :
        j \in retrying \/ state[j] = "submitted"
          ~> state[j] = "signalled" \/ main_pc \in Stopping

\* bio_thread_cleanup returns: the scheduler waiting for a worker, in
\* bio_spscq_consume or in thrd_join, and the worker waiting for room in its
\* response queue never wait for each other.
CleanupReturns == main_pc = "stop" ~> main_pc = "exited"
=============================================================================
