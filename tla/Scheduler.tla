------------------------------ MODULE Scheduler -----------------------------
(***************************************************************************)
(* The cooperative scheduler of src/src/scheduler.c and the exit handling   *)
(* of src/src/bio.c: coroutines, the signals they wait for, the monitors    *)
(* that report their death, the two ready lists and the event loop.         *)
(*                                                                          *)
(* A coroutine, signal or monitor is identified with its handle, which      *)
(* HandleTable shows is never reused.  One step is what runs between two    *)
(* points where other code can run; inside the loop, whose order is fixed,  *)
(* pc says which part comes next.  The code of the coroutines, of main and  *)
(* of the callbacks is arbitrary: any API call, in any order.               *)
(***************************************************************************)
EXTENDS Integers, Sequences, FiniteSets

CONSTANTS
    Coro,         \* coroutines that may be spawned
    Signal,       \* signals that may be made
    Monitor,      \* monitors that may be made
    NoCoro,       \* no coroutine
    NoSignal,     \* the zero handle BIO_INVALID_HANDLE, as a signal
    WaitArrays,   \* the arrays coroutines pass to bio_wait_for_signals
    MaxWaits      \* bound: how often one coroutine may call it

ASSUME NoneAssumption == NoCoro \notin Coro /\ NoSignal \notin Signal
ASSUME WaitArraysAssumption == WaitArrays \subseteq Seq(Signal \cup {NoSignal})
ASSUME MaxWaitsAssumption == MaxWaits \in Nat

VARIABLES
    \* bio_coro_impl_t
    coro_state, daemon, num_blocking_signals, wait_counter,
    \* bio_signal_impl_t: its handle is unmade, live or closed
    signal_state, signal_owner, signal_counter,
    \* bio_monitor_impl_t and the list of monitors of each coroutine
    monitor_state, monitor_signal, monitors,
    \* bio_ctx
    current_ready_coros, next_ready_coros, num_coros, num_daemons,
    is_terminating, exit_handlers, exit_signal_blocked,
    \* where bio_loop is, and its coro_index
    pc, coro_index,
    \* auxiliary: what each coroutine was last suspended on, and what it has done
    awaited, waits_for_all, started, monitor_target

coroVars == <<coro_state, daemon, num_blocking_signals, wait_counter>>
signalVars == <<signal_state, signal_owner, signal_counter>>
monitorVars == <<monitor_state, monitor_signal, monitors, monitor_target>>
countVars == <<num_coros, num_daemons>>
exitVars == <<is_terminating, exit_handlers, exit_signal_blocked>>
auxVars == <<awaited, waits_for_all, started>>
vars == <<coroVars, signalVars, monitorVars, countVars, exitVars, auxVars,
          current_ready_coros, next_ready_coros, pc, coro_index>>

(***************************************************************************)
(* pc: main is outside bio_loop; run takes the next coroutine of the list;  *)
(* coro is inside a coroutine; cls runs the cleanups of a dead one and      *)
(* monitors triggers its monitors; poll is the timer, thread and I/O part;  *)
(* dispatch delivers an exit signal; cleanup is bio_terminate before its    *)
(* loop; exited is after bio_terminate.                                     *)
(***************************************************************************)
PC == {"main", "run", "coro", "cls", "monitors", "poll", "dispatch", "cleanup", "exited"}

Alive == {"READY", "RUNNING", "WAITING"}

Running == current_ready_coros[coro_index]

\* Code that may call the API: main, a coroutine, or a CLS cleanup callback.
InUserCode == pc \in {"main", "coro", "cls"}

Init ==
    /\ coro_state = [c \in Coro |-> "UNBORN"]
    /\ daemon = [c \in Coro |-> FALSE]
    /\ num_blocking_signals = [c \in Coro |-> 0]
    /\ wait_counter = [c \in Coro |-> 0]
    /\ signal_state = [s \in Signal |-> "unmade"]
    /\ signal_owner = [s \in Signal |-> NoCoro]
    /\ signal_counter = [s \in Signal |-> 0]
    /\ monitor_state = [m \in Monitor |-> "unmade"]
    /\ monitor_signal = [m \in Monitor |-> NoSignal]
    /\ monitor_target = [m \in Monitor |-> NoCoro]
    /\ monitors = [c \in Coro |-> <<>>]
    /\ current_ready_coros = <<>>
    /\ next_ready_coros = <<>>
    /\ num_coros = 0
    /\ num_daemons = 0
    /\ is_terminating = FALSE
    /\ exit_handlers = <<>>
    /\ exit_signal_blocked = FALSE
    /\ pc = "main"
    /\ coro_index = 1
    /\ awaited = [c \in Coro |-> {}]
    /\ waits_for_all = [c \in Coro |-> FALSE]
    /\ started = [c \in Coro |-> FALSE]
-----------------------------------------------------------------------------
(***************************************************************************)
(* Raising a signal.  Closing the handle makes it a one-shot; the owner is  *)
(* only touched while it waits, and only by the signals of its current      *)
(* wait.                                                                    *)
(***************************************************************************)
\* Mutant: the state of the owner is not looked at.
ConcernsAlways(s) == TRUE

\* Mutant: any signal of a waiting owner counts, not only those it waits for.
ConcernsAnyWait(s) == coro_state[signal_owner[s]] = "WAITING"

ConcernsWait(s) ==
    /\ coro_state[signal_owner[s]] = "WAITING"
    /\ signal_counter[s] = wait_counter[signal_owner[s]]

\* Mutant: the woken owner is queued but its state still says WAITING.
RaiseKeepsState(s) ==
    LET owner == signal_owner[s] IN
    /\ signal_state' = [signal_state EXCEPT ![s] = "closed"]
    /\ num_blocking_signals' = IF ConcernsWait(s)
                               THEN [num_blocking_signals EXCEPT ![owner] = @ - 1]
                               ELSE num_blocking_signals
    /\ next_ready_coros' = IF ConcernsWait(s) /\ num_blocking_signals[owner] = 1
                           THEN Append(next_ready_coros, owner)
                           ELSE next_ready_coros
    /\ UNCHANGED coro_state

RaiseLive(s) ==
    LET owner == signal_owner[s] IN
    /\ signal_state' = [signal_state EXCEPT ![s] = "closed"]
    /\ IF ConcernsWait(s)
       THEN /\ num_blocking_signals' = [num_blocking_signals EXCEPT ![owner] = @ - 1]
            /\ IF num_blocking_signals[owner] = 1
               THEN /\ next_ready_coros' = Append(next_ready_coros, owner)
                    /\ coro_state' = [coro_state EXCEPT ![owner] = "READY"]
               ELSE UNCHANGED <<next_ready_coros, coro_state>>
       ELSE UNCHANGED <<num_blocking_signals, next_ready_coros, coro_state>>

RaiseEffect(s) ==
    IF s # NoSignal /\ signal_state[s] = "live"
    THEN RaiseLive(s)
    ELSE UNCHANGED <<signal_state, num_blocking_signals, next_ready_coros, coro_state>>

UnchangedByRaise ==
    UNCHANGED <<daemon, wait_counter, signal_owner, signal_counter, countVars,
                exitVars, auxVars, current_ready_coros, coro_index>>

\* The signal bio_wait_for_exit makes is known to exit_handlers only.
IsExitSignal(s) == \E i \in DOMAIN exit_handlers : exit_handlers[i] = s

\* Any code raises a signal: user code, or timers, threads and I/O while bio_loop
\* polls them, or bio_logging_cleanup inside bio_terminate.
bio_raise_signal(s) ==
    /\ InUserCode \/ pc \in {"poll", "cleanup"}
    /\ signal_state[s] = "live"
    /\ ~IsExitSignal(s)
    /\ RaiseLive(s)
    /\ UnchangedByRaise
    /\ UNCHANGED <<monitorVars, pc>>
-----------------------------------------------------------------------------
(***************************************************************************)
(* Calls from user code                                                     *)
(***************************************************************************)
\* The timer update of the first spawn finds no live signal: every signal has
\* a living owner (SignalsHaveLivingOwner).
bio_spawn_ex(c, is_daemon) ==
    /\ InUserCode
    /\ coro_state[c] = "UNBORN"
    /\ coro_state' = [coro_state EXCEPT ![c] = "READY"]
    /\ daemon' = [daemon EXCEPT ![c] = is_daemon]
    /\ next_ready_coros' = Append(next_ready_coros, c)
    /\ num_coros' = num_coros + 1
    /\ num_daemons' = IF is_daemon THEN num_daemons + 1 ELSE num_daemons
    /\ UNCHANGED <<num_blocking_signals, wait_counter, signalVars, monitorVars,
                   exitVars, auxVars, current_ready_coros, pc, coro_index>>

\* Only a coroutine can make a signal; a new one belongs to no wait.
bio_make_signal(s) ==
    /\ pc = "coro"
    /\ signal_state[s] = "unmade"
    /\ signal_state' = [signal_state EXCEPT ![s] = "live"]
    /\ signal_owner' = [signal_owner EXCEPT ![s] = Running]
    /\ signal_counter' = [signal_counter EXCEPT ![s] = wait_counter[Running] - 1]
    /\ UNCHANGED <<coroVars, monitorVars, countVars, exitVars, auxVars,
                   current_ready_coros, next_ready_coros, pc, coro_index>>

\* A dead target, or a signal that is raised or owned by the target, raises the
\* signal at once.
bio_monitor(c, s, m) ==
    /\ InUserCode
    /\ coro_state[c] # "UNBORN"
    /\ signal_state[s] # "unmade"
    /\ ~IsExitSignal(s)
    /\ IF coro_state[c] \in Alive /\ signal_state[s] = "live" /\ signal_owner[s] # c
       THEN /\ monitor_state[m] = "unmade"
            /\ monitor_state' = [monitor_state EXCEPT ![m] = "live"]
            /\ monitor_signal' = [monitor_signal EXCEPT ![m] = s]
            /\ monitor_target' = [monitor_target EXCEPT ![m] = c]
            /\ monitors' = [monitors EXCEPT ![c] = Append(@, m)]
            /\ UNCHANGED <<signal_state, num_blocking_signals, next_ready_coros, coro_state>>
       ELSE RaiseEffect(s) /\ UNCHANGED monitorVars
    /\ UnchangedByRaise
    /\ UNCHANGED pc

\* Mutant: the monitor is closed but stays in the list.
Kept(seq, m) == seq

\* BIO_LIST_REMOVE: what follows m in the list moves up.
Without(seq, m) ==
    [i \in 1 .. Len(seq) - 1 |->
        IF \E j \in 1 .. i : seq[j] = m THEN seq[i + 1] ELSE seq[i]]

bio_unmonitor(m) ==
    /\ InUserCode
    /\ monitor_state[m] = "live"
    /\ monitor_state' = [monitor_state EXCEPT ![m] = "cancelled"]
    /\ monitors' = [monitors EXCEPT ![monitor_target[m]] = Without(@, m)]
    /\ UNCHANGED <<coroVars, signalVars, monitor_signal, monitor_target, countVars,
                   exitVars, auxVars, current_ready_coros, next_ready_coros, pc,
                   coro_index>>
-----------------------------------------------------------------------------
(***************************************************************************)
(* Suspending: back in bio_loop, the coroutine is WAITING if it left a      *)
(* number of blocking signals and READY in the next list otherwise.         *)
(***************************************************************************)
SwitchToLoop ==
    /\ pc' = "run"
    /\ coro_index' = coro_index + 1

bio_yield ==
    /\ pc = "coro"
    /\ coro_state' = [coro_state EXCEPT ![Running] = "READY"]
    /\ next_ready_coros' = Append(next_ready_coros, Running)
    /\ SwitchToLoop
    /\ UNCHANGED <<daemon, num_blocking_signals, wait_counter, signalVars,
                   monitorVars, countVars, exitVars, auxVars, current_ready_coros>>

\* Suspend the running coroutine on n signals, of which own are the distinct ones.
Block(n, own, wait_all) ==
    /\ num_blocking_signals' = [num_blocking_signals EXCEPT ![Running] = n]
    /\ coro_state' = [coro_state EXCEPT ![Running] = "WAITING"]
    /\ awaited' = [awaited EXCEPT ![Running] = own]
    /\ waits_for_all' = [waits_for_all EXCEPT ![Running] = wait_all]
    /\ SwitchToLoop

\* Mutant: entries that are raised already count too.
NonzeroEntries(array) == {i \in DOMAIN array : array[i] # NoSignal}

\* The entries of the array that are live signals of the caller: these count,
\* one for each entry.  Foreign live signals and the zero handle are ignored.
OwnEntries(array) ==
    {i \in DOMAIN array :
        /\ array[i] # NoSignal
        /\ signal_state[array[i]] = "live"
        /\ signal_owner[array[i]] = Running}

AnyRaised(array) ==
    \E i \in DOMAIN array : array[i] # NoSignal /\ signal_state[array[i]] = "closed"

\* Mutant: every wait uses the same number.
SameCounter(c) == wait_counter[c]

\* Each wait has its own number, so that only its signals count.
NextCounter(c) == wait_counter[c] + 1

bio_wait_for_signals(array, wait_all) ==
    LET counter == NextCounter(Running)
        entries == OwnEntries(array)
        own == {array[i] : i \in entries}
        num_blocking == Cardinality(entries)
    IN
    /\ pc = "coro"
    /\ wait_counter[Running] < MaxWaits
    /\ \A i \in DOMAIN array : array[i] # NoSignal => signal_state[array[i]] # "unmade"
    /\ wait_counter' = [wait_counter EXCEPT ![Running] = counter]
    /\ signal_counter' = [s \in Signal |-> IF s \in own THEN counter ELSE signal_counter[s]]
    /\ IF num_blocking > 0 /\ (wait_all \/ ~AnyRaised(array))
       THEN Block(IF wait_all THEN num_blocking ELSE 1, own, wait_all)
       ELSE UNCHANGED <<coro_state, num_blocking_signals, awaited, waits_for_all, pc, coro_index>>
    /\ UNCHANGED <<daemon, signal_state, signal_owner, monitorVars, countVars, exitVars,
                   started, current_ready_coros, next_ready_coros>>

\* The first handler blocks the OS signal; the caller becomes a daemon and waits
\* for a signal of its own, with &exit_info on its stack in exit_handlers.
bio_wait_for_exit(s) ==
    /\ pc = "coro"
    /\ ~is_terminating
    /\ signal_state[s] = "unmade"
    /\ wait_counter[Running] < MaxWaits
    /\ exit_signal_blocked' = TRUE
    /\ signal_state' = [signal_state EXCEPT ![s] = "live"]
    /\ signal_owner' = [signal_owner EXCEPT ![s] = Running]
    /\ exit_handlers' = Append(exit_handlers, s)
    /\ daemon' = [daemon EXCEPT ![Running] = TRUE]
    /\ num_daemons' = IF daemon[Running] THEN num_daemons ELSE num_daemons + 1
    /\ wait_counter' = [wait_counter EXCEPT ![Running] = NextCounter(Running)]
    /\ signal_counter' = [signal_counter EXCEPT ![s] = NextCounter(Running)]
    /\ Block(1, {s}, TRUE)
    /\ UNCHANGED <<monitorVars, num_coros, is_terminating, started,
                   current_ready_coros, next_ready_coros>>

\* The entry point returns.
Return ==
    /\ pc = "coro"
    /\ pc' = "cls"
    /\ UNCHANGED <<coroVars, signalVars, monitorVars, countVars, exitVars, auxVars,
                   current_ready_coros, next_ready_coros, coro_index>>
-----------------------------------------------------------------------------
(***************************************************************************)
(* bio_loop                                                                 *)
(***************************************************************************)
\* Each call starts with an empty current list.
EnterLoop ==
    /\ pc = "main"
    /\ pc' = "run"
    /\ coro_index' = 1
    /\ UNCHANGED <<coroVars, signalVars, monitorVars, countVars, exitVars, auxVars,
                   current_ready_coros, next_ready_coros>>

Resume ==
    /\ pc = "run"
    /\ coro_index <= Len(current_ready_coros)
    /\ coro_state' = [coro_state EXCEPT ![Running] = "RUNNING"]
    /\ num_blocking_signals' = [num_blocking_signals EXCEPT ![Running] = 0]
    /\ started' = [started EXCEPT ![Running] = TRUE]
    /\ pc' = "coro"
    /\ UNCHANGED <<daemon, wait_counter, signalVars, monitorVars, countVars, exitVars,
                   awaited, waits_for_all, current_ready_coros, next_ready_coros,
                   coro_index>>

\* Mutant: the pending signals of the dead coroutine are leaked.
LeakedSignals == signal_state

PendingSignalsClosed ==
    [s \in Signal |->
        IF signal_state[s] = "live" /\ signal_owner[s] = Running
        THEN "closed" ELSE signal_state[s]]

\* All CLS cleanups have run: destroy the signals the dead coroutine still owns.
DestroySignals ==
    /\ pc = "cls"
    /\ signal_state' = PendingSignalsClosed
    /\ pc' = "monitors"
    /\ UNCHANGED <<coroVars, signal_owner, signal_counter, monitorVars, countVars,
                   exitVars, auxVars, current_ready_coros, next_ready_coros, coro_index>>

TriggerMonitor ==
    /\ pc = "monitors"
    /\ monitors[Running] # <<>>
    /\ LET m == Head(monitors[Running]) IN
          /\ RaiseEffect(monitor_signal[m])
          /\ monitor_state' = [monitor_state EXCEPT ![m] = "fired"]
    /\ monitors' = [monitors EXCEPT ![Running] = Tail(@)]
    /\ UnchangedByRaise
    /\ UNCHANGED <<monitor_signal, monitor_target, pc>>

\* Mutant: a dead daemon is still counted.
DaemonsKept == num_daemons

DaemonsAfterDeath == IF daemon[Running] THEN num_daemons - 1 ELSE num_daemons

DestroyCoro ==
    /\ pc = "monitors"
    /\ monitors[Running] = <<>>
    /\ coro_state' = [coro_state EXCEPT ![Running] = "DEAD"]
    /\ num_coros' = num_coros - 1
    /\ num_daemons' = DaemonsAfterDeath
    /\ SwitchToLoop
    /\ UNCHANGED <<daemon, num_blocking_signals, wait_counter, signalVars, monitorVars,
                   exitVars, auxVars, current_ready_coros, next_ready_coros>>

\* Mutant: bio_terminate does not wait for the daemons.
DaemonsOnly == num_coros = num_daemons

ShouldTerminate ==
    IF is_terminating THEN num_coros = 0 ELSE num_coros = num_daemons

EndOfList ==
    /\ pc = "run"
    /\ coro_index > Len(current_ready_coros)
    /\ current_ready_coros' = <<>>
    /\ coro_index' = 1
    /\ pc' = IF ~ShouldTerminate THEN "poll"
             ELSE IF is_terminating THEN "exited" ELSE "main"
    /\ UNCHANGED <<coroVars, signalVars, monitorVars, countVars, exitVars, auxVars,
                   next_ready_coros>>

\* The platform reports an OS request to exit, which it only does while
\* bio_platform_block_exit_signal is in force.
bio_handle_exit_signal ==
    /\ pc = "poll"
    /\ exit_signal_blocked
    /\ pc' = "dispatch"
    /\ UNCHANGED <<coroVars, signalVars, monitorVars, countVars, exitVars, auxVars,
                   current_ready_coros, next_ready_coros, coro_index>>

\* bio_dispatch_exit_signal writes the reason and raises, one handler at a time.
DispatchOne ==
    /\ pc = "dispatch"
    /\ exit_handlers # <<>>
    /\ RaiseEffect(Head(exit_handlers))
    /\ exit_handlers' = Tail(exit_handlers)
    /\ UNCHANGED <<daemon, wait_counter, signal_owner, signal_counter, monitorVars,
                   countVars, is_terminating, exit_signal_blocked, auxVars,
                   current_ready_coros, pc, coro_index>>

\* Mutant: the OS signal stays blocked with nobody left to receive it.
StillBlocked == exit_signal_blocked

\* bio_platform_unblock_exit_signal, when there was a handler.
BlockedAfterDispatch == FALSE

DispatchDone ==
    /\ pc = "dispatch"
    /\ exit_handlers = <<>>
    /\ exit_signal_blocked' = BlockedAfterDispatch
    /\ pc' = IF is_terminating THEN "cleanup" ELSE "poll"
    /\ UNCHANGED <<coroVars, signalVars, monitorVars, countVars, is_terminating,
                   exit_handlers, auxVars, current_ready_coros, next_ready_coros,
                   coro_index>>

\* The lists are swapped; the current one was cleared.  With an empty next list
\* bio_platform_update blocks, and may return with nothing to run.
SwapLists ==
    /\ pc = "poll"
    /\ current_ready_coros' = next_ready_coros
    /\ next_ready_coros' = current_ready_coros
    /\ coro_index' = 1
    /\ pc' = "run"
    /\ UNCHANGED <<coroVars, signalVars, monitorVars, countVars, exitVars, auxVars>>
-----------------------------------------------------------------------------
(***************************************************************************)
(* bio_terminate                                                            *)
(***************************************************************************)
bio_terminate ==
    /\ pc = "main"
    /\ is_terminating' = TRUE
    /\ pc' = "dispatch"
    /\ UNCHANGED <<coroVars, signalVars, monitorVars, countVars, exit_handlers,
                   exit_signal_blocked, auxVars, current_ready_coros,
                   next_ready_coros, coro_index>>

TerminateLoop ==
    /\ pc = "cleanup"
    /\ pc' = IF num_daemons > 0 THEN "run" ELSE "exited"
    /\ UNCHANGED <<coroVars, signalVars, monitorVars, countVars, exitVars, auxVars,
                   current_ready_coros, next_ready_coros, coro_index>>
-----------------------------------------------------------------------------
UserCode ==
    \/ \E c \in Coro, is_daemon \in BOOLEAN : bio_spawn_ex(c, is_daemon)
    \/ \E s \in Signal : bio_make_signal(s)
    \/ \E c \in Coro, s \in Signal, m \in Monitor : bio_monitor(c, s, m)
    \/ \E m \in Monitor : bio_unmonitor(m)

Suspend ==
    \/ bio_yield
    \/ \E array \in WaitArrays, wait_all \in BOOLEAN :
          bio_wait_for_signals(array, wait_all)
    \/ \E s \in Signal : bio_wait_for_exit(s)
    \/ Return

Loop ==
    \/ Resume \/ DestroySignals \/ TriggerMonitor \/ DestroyCoro \/ EndOfList
    \/ DispatchOne \/ DispatchDone \/ TerminateLoop

\* bio_terminate has returned: nothing more happens.
Done == pc = "exited" /\ UNCHANGED vars

Next ==
    \/ UserCode
    \/ \E s \in Signal : bio_raise_signal(s)
    \/ Suspend
    \/ EnterLoop
    \/ Loop
    \/ bio_handle_exit_signal
    \/ SwapLists
    \/ bio_terminate
    \/ Done

Spec == Init /\ [][Next]_vars

(***************************************************************************)
(* Fairness: the loop keeps running; a coroutine eventually gives control   *)
(* back, which cooperative scheduling asks of it; main calls bio_loop and   *)
(* in the end bio_terminate; and bio_platform_update returns at once when   *)
(* the next list is not empty.  Nothing is assumed of the signals others    *)
(* raise, nor of a blocked bio_platform_update.                             *)
(***************************************************************************)
Fairness ==
    /\ WF_vars(Loop)
    /\ WF_vars(Suspend /\ pc' # "coro")
    /\ WF_vars(EnterLoop \/ bio_terminate)
    /\ SF_vars(bio_terminate)
    /\ WF_vars(SwapLists /\ next_ready_coros # <<>>)

FairSpec == Spec /\ Fairness
-----------------------------------------------------------------------------
(***************************************************************************)
(* Properties                                                               *)
(***************************************************************************)
TypeOK ==
    /\ coro_state \in [Coro -> Alive \cup {"UNBORN", "DEAD"}]
    /\ daemon \in [Coro -> BOOLEAN]
    /\ num_blocking_signals \in [Coro -> Nat]
    /\ wait_counter \in [Coro -> Nat]
    /\ signal_state \in [Signal -> {"unmade", "live", "closed"}]
    /\ signal_owner \in [Signal -> Coro \cup {NoCoro}]
    /\ signal_counter \in [Signal -> Int]
    /\ monitor_state \in [Monitor -> {"unmade", "live", "fired", "cancelled"}]
    /\ monitor_signal \in [Monitor -> Signal \cup {NoSignal}]
    /\ monitor_target \in [Monitor -> Coro \cup {NoCoro}]
    /\ monitors \in [Coro -> Seq(Monitor)]
    /\ current_ready_coros \in Seq(Coro)
    /\ next_ready_coros \in Seq(Coro)
    /\ num_coros \in Nat
    /\ num_daemons \in Nat
    /\ is_terminating \in BOOLEAN
    /\ exit_handlers \in Seq(Signal)
    /\ exit_signal_blocked \in BOOLEAN
    /\ pc \in PC
    /\ coro_index \in Nat \ {0}
    /\ awaited \in [Coro -> SUBSET Signal]
    /\ waits_for_all \in [Coro -> BOOLEAN]
    /\ started \in [Coro -> BOOLEAN]

InCoro == pc \in {"coro", "cls", "monitors"}

\* The positions of the current list bio_loop has yet to resume.
Pending == {i \in DOMAIN current_ready_coros :
              IF InCoro THEN i > coro_index ELSE i >= coro_index}

Queued == {current_ready_coros[i] : i \in Pending}
             \cup {next_ready_coros[i] : i \in DOMAIN next_ready_coros}

\* No coroutine is twice in what is left of the two lists.
QueuedOnce ==
    /\ \A i, j \in Pending : current_ready_coros[i] = current_ready_coros[j] => i = j
    /\ \A i, j \in DOMAIN next_ready_coros :
          next_ready_coros[i] = next_ready_coros[j] => i = j
    /\ \A i \in Pending, j \in DOMAIN next_ready_coros :
          current_ready_coros[i] # next_ready_coros[j]

\* Exactly the coroutine bio_loop is executing, or reaping, is RUNNING.
RunningExact ==
    /\ InCoro => coro_index \in DOMAIN current_ready_coros
    /\ \A c \in Coro : coro_state[c] = "RUNNING" <=> InCoro /\ c = Running

(***************************************************************************)
(* Each READY coroutine is scheduled exactly once, no other coroutine is,   *)
(* and the one being executed is in no list: bio_loop never resumes a       *)
(* coroutine that still waits, one that runs, or one it has freed, however  *)
(* raises, yields, waits, deaths and the swap of the lists interleave       *)
(* ("Schedule to run once" in bio_raise_signal).                            *)
(***************************************************************************)
ScheduledOnce ==
    /\ RunningExact
    /\ QueuedOnce
    /\ \A c \in Coro : coro_state[c] = "READY" <=> c \in Queued

LiveSignals == {s \in Signal : signal_state[s] = "live"}

\* The signals whose raise bio_raise_signal counts against c's current wait.
Counted(c) == {s \in LiveSignals : signal_owner[s] = c /\ signal_counter[s] = wait_counter[c]}

(***************************************************************************)
(* num_blocking_signals of a WAITING coroutine is the number of raises that *)
(* will still wake it: all the unraised signals it waits for, or any one.   *)
(* It is never too large (a wakeup lost for good) nor too small (a wakeup   *)
(* before the wait is over), and the signals of an earlier wait, made       *)
(* since, or of another coroutine do not count.                             *)
(***************************************************************************)
WakeAccounting ==
    \A c \in Coro : coro_state[c] = "WAITING" =>
        /\ Counted(c) = awaited[c] \cap LiveSignals
        /\ Counted(c) # {}
        /\ IF waits_for_all[c]
           THEN num_blocking_signals[c] = Cardinality(Counted(c))
           ELSE num_blocking_signals[c] = 1 /\ awaited[c] \subseteq LiveSignals

\* A coroutine leaves a wait only when what bio_wait_for_signals promises holds:
\* all the signals it waits for are raised, or one of them is.
WakeJustified ==
    [][\A c \in Coro :
          coro_state[c] = "WAITING" /\ coro_state'[c] # "WAITING" =>
              IF waits_for_all[c]
              THEN awaited[c] \cap LiveSignals' = {}
              ELSE \E s \in awaited[c] : s \notin LiveSignals']_vars

\* A live signal has a living owner, so bio_raise_signal never follows
\* signal->owner into a freed coroutine.
SignalsHaveLivingOwner ==
    \A s \in LiveSignals :
        /\ signal_owner[s] \in Coro
        /\ coro_state[signal_owner[s]] \in Alive
        /\ pc = "monitors" => signal_owner[s] # Running

\* The two counters that decide when bio_loop returns are exact, also for
\* coroutines that become daemons in bio_wait_for_exit.
CountersExact ==
    /\ num_coros = Cardinality({c \in Coro : coro_state[c] \in Alive})
    /\ num_daemons = Cardinality({c \in Coro : coro_state[c] \in Alive /\ daemon[c]})

(***************************************************************************)
(* A monitor is in the list of its target, once, until it fires or is       *)
(* cancelled; it fires at the latest when the target is destroyed, and its  *)
(* signal is then raised.                                                   *)
(***************************************************************************)
MonitorsExact ==
    /\ \A c \in Coro :
          /\ \A i \in DOMAIN monitors[c] :
                /\ monitor_state[monitors[c][i]] = "live"
                /\ monitor_target[monitors[c][i]] = c
          /\ \A i, j \in DOMAIN monitors[c] : monitors[c][i] = monitors[c][j] => i = j
    /\ \A m \in Monitor :
          /\ monitor_state[m] = "live" =>
                /\ coro_state[monitor_target[m]] \in Alive
                /\ \E i \in DOMAIN monitors[monitor_target[m]] :
                      monitors[monitor_target[m]][i] = m
          /\ monitor_state[m] = "fired" => monitor_signal[m] \notin LiveSignals

(***************************************************************************)
(* Every pointer in exit_handlers is to the stack of a coroutine suspended  *)
(* in bio_wait_for_exit on that handler's signal, and the OS signal is      *)
(* blocked exactly while there is a handler to receive it.  (Once a handler *)
(* is registered, its signal is raised by bio_dispatch_exit_signal alone.)  *)
(***************************************************************************)
ExitHandlersValid ==
    /\ \A i \in DOMAIN exit_handlers :
          /\ exit_handlers[i] \in LiveSignals
          /\ coro_state[signal_owner[exit_handlers[i]]] = "WAITING"
          /\ awaited[signal_owner[exit_handlers[i]]] = {exit_handlers[i]}
    /\ pc # "dispatch" => (exit_signal_blocked <=> exit_handlers # <<>>)

\* bio_terminate leaves no coroutine behind that ever ran; only coroutines
\* spawned after the last bio_loop, with no daemon alive, are dropped.
NothingAbandoned ==
    pc = "exited" =>
        \A c \in Coro : coro_state[c] \in Alive => ~started[c] /\ ~daemon[c]

\* A coroutine whose awaited signals are all raised, or that yielded, is
\* eventually executed again: from the last bio_raise_signal through the two
\* lists, the return of bio_loop and bio_terminate, back to bio_loop.
RaisedRuns ==
    \A c \in Coro :
        /\ coro_state[c] \in {"WAITING", "READY"}
        /\ started[c]
        /\ awaited[c] \cap LiveSignals = {}
      ~> coro_state[c] = "RUNNING"
=============================================================================
