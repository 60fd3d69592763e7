-------------------------------- MODULE Timer -------------------------------
(***************************************************************************)
(* The timer objects of src/src/timer.c: each is a coroutine that waits for *)
(* its own delayed signal and calls a function.                             *)
(*                                                                          *)
(* The heap of delayed signals is a set here: TimerHeap shows that          *)
(* bio_timer_update raises the signals that are due and no other.  now is   *)
(* the clock of the platform and current_time_ms the copy taken by          *)
(* bio_timer_update; time may pass between any two steps.  Coroutines run   *)
(* at any time between two updates; a callback may itself suspend, so other *)
(* steps may come between its start and its end.                            *)
(***************************************************************************)
EXTENDS Integers, FiniteSets

CONSTANTS
    Timer,         \* timers that may be created
    Timeouts,      \* timeouts passed to bio_create_timer and bio_reset_timer
    MaxStart,      \* bound: no timeout of a timer in use starts after this time
    MaxTime        \* bound: time stops here

ASSUME TimeoutsAssumption == Timeouts \subseteq Nat \ {0}
ASSUME TimeAssumption == MaxStart \in Nat /\ MaxTime \in Nat

VARIABLES
    now,               \* bio_platform_current_time_ms
    current_time_ms,   \* bio_ctx.current_time_ms
    timer_entries,     \* the delayed signals of bio_ctx, named after their timer
    state,             \* where the coroutine of each timer is
    interval,          \* type = BIO_TIMER_INTERVAL
    timeout_ms, due_time_ms, cancelled,   \* bio_timer_impl_t
    pending,           \* its handle is open
    wake_live,         \* wake_signal is made and not yet raised
    woken_at           \* the time its coroutine read after its last wait

implVars == <<interval, timeout_ms, due_time_ms, cancelled, pending>>
timerVars == <<now, current_time_ms, timer_entries, state, implVars, wake_live, woken_at>>
-----------------------------------------------------------------------------
(***************************************************************************)
(* The clock and bio_timer_update.                                          *)
(***************************************************************************)
Tick ==
    /\ now < MaxTime
    /\ now' = now + 1
    /\ UNCHANGED <<current_time_ms, timer_entries, state, implVars, wake_live, woken_at>>

\* Mutant: the signals are forgotten.
RaisedNone(ts) == {}

\* Which of the wake signals of the timers ts are still there to be raised.
Raised(ts) == {t \in ts : wake_live[t]}

Raise(ts) ==
    /\ wake_live' = [t \in Timer |-> wake_live[t] /\ t \notin Raised(ts)]
    /\ state' = [t \in Timer |->
                    IF t \in Raised(ts) /\ state[t] = "waiting" THEN "ready" ELSE state[t]]

Due == {e \in timer_entries : e.due <= now}

bio_timer_update ==
    /\ current_time_ms' = now
    /\ timer_entries' = timer_entries \ Due
    /\ Raise({e.timer : e \in Due})
    /\ UNCHANGED <<now, implVars, woken_at>>
-----------------------------------------------------------------------------
(***************************************************************************)
(* The timer objects.                                                       *)
(***************************************************************************)
\* The coroutine of the timer may be the first: bio_spawn then updates the clock
\* and the heap, where only signals of timers that have ended can be left.
bio_create_timer(t, is_interval, timeout, alone) ==
    /\ state[t] = "none"
    /\ now <= MaxStart
    /\ interval' = [interval EXCEPT ![t] = is_interval]
    /\ timeout_ms' = [timeout_ms EXCEPT ![t] = timeout]
    /\ due_time_ms' = [due_time_ms EXCEPT ![t] = now + timeout]
    /\ pending' = [pending EXCEPT ![t] = TRUE]
    /\ state' = [state EXCEPT ![t] = "spawned"]
    /\ IF alone
       THEN /\ \A u \in Timer : state[u] \in {"none", "ended"}
            /\ current_time_ms' = now
            /\ timer_entries' = timer_entries \ Due
       ELSE UNCHANGED <<current_time_ms, timer_entries>>
    /\ UNCHANGED <<now, cancelled, wake_live, woken_at>>

\* The head of the loop of bio_timer_entry: a new signal, armed and waited for.
\* bio_raise_signal_after adds the delay to the cached time; a delay that is over
\* raises the signal at once, and the wait returns at once.
Arm(t) ==
    LET time_ms == due_time_ms[t] - now IN
    /\ state[t] \in {"spawned", "again"}
    /\ IF time_ms > 0
       THEN /\ timer_entries' =
                  timer_entries \cup {[timer |-> t, due |-> current_time_ms + time_ms]}
            /\ wake_live' = [wake_live EXCEPT ![t] = TRUE]
            /\ state' = [state EXCEPT ![t] = "waiting"]
       ELSE /\ state' = [state EXCEPT ![t] = "ready"]
            /\ UNCHANGED <<timer_entries, wake_live>>
    /\ UNCHANGED <<now, current_time_ms, implVars, woken_at>>

HandleClosed(t) == [pending EXCEPT ![t] = FALSE]

\* The coroutine ends: the handle is closed and impl is freed.
EndTimer(t) ==
    /\ state' = [state EXCEPT ![t] = "ended"]
    /\ pending' = HandleClosed(t)

\* Mutant: a wakeup is taken for the end of the timeout.
AnyWake(t) == TRUE

IsDue(t) == now >= due_time_ms[t]

\* After the wait: cancelled, due, or woken too early.
Wake(t) ==
    /\ state[t] = "ready"
    /\ woken_at' = [woken_at EXCEPT ![t] = now]
    /\ IF cancelled[t] THEN EndTimer(t)
       ELSE /\ state' = [state EXCEPT ![t] = IF IsDue(t) THEN "calling" ELSE "again"]
            /\ UNCHANGED pending
    /\ UNCHANGED <<now, current_time_ms, timer_entries, interval, timeout_ms, due_time_ms,
                   cancelled, wake_live>>

\* The callback returns; the next interval starts when it was called.  The bound
\* on starts spares a timer that was cancelled, so that it can end.
Called(t) ==
    /\ state[t] = "calling"
    /\ IF interval[t]
       THEN /\ woken_at[t] <= MaxStart \/ cancelled[t]
            /\ due_time_ms' = [due_time_ms EXCEPT ![t] = woken_at[t] + timeout_ms[t]]
            /\ state' = [state EXCEPT ![t] = "again"]
            /\ UNCHANGED pending
       ELSE EndTimer(t) /\ UNCHANGED due_time_ms
    /\ UNCHANGED <<now, current_time_ms, timer_entries, interval, timeout_ms, cancelled,
                   wake_live, woken_at>>

\* The coroutine that waits is not told.
bio_reset_timer(t, timeout) ==
    /\ pending[t]
    /\ now <= MaxStart
    /\ timeout_ms' = [timeout_ms EXCEPT ![t] = timeout]
    /\ due_time_ms' = [due_time_ms EXCEPT ![t] = now + timeout]
    /\ UNCHANGED <<now, current_time_ms, timer_entries, state, interval, cancelled, pending,
                   wake_live, woken_at>>

bio_cancel_timer(t) ==
    /\ pending[t]
    /\ cancelled' = [cancelled EXCEPT ![t] = TRUE]
    /\ Raise({t})
    /\ pending' = HandleClosed(t)
    /\ UNCHANGED <<now, current_time_ms, timer_entries, interval, timeout_ms, due_time_ms,
                   woken_at>>
-----------------------------------------------------------------------------
TimerInit ==
    /\ now = 0
    /\ current_time_ms = 0
    /\ timer_entries = {}
    /\ state = [t \in Timer |-> "none"]
    /\ interval = [t \in Timer |-> FALSE]
    /\ timeout_ms = [t \in Timer |-> 0]
    /\ due_time_ms = [t \in Timer |-> 0]
    /\ cancelled = [t \in Timer |-> FALSE]
    /\ pending = [t \in Timer |-> FALSE]
    /\ wake_live = [t \in Timer |-> FALSE]
    /\ woken_at = [t \in Timer |-> 0]

bio_timer_entry(t) == Arm(t) \/ Wake(t) \/ Called(t)

TimerNext ==
    \/ Tick
    \/ bio_timer_update
    \/ \E t \in Timer, timeout \in Timeouts :
          \/ \E is_interval, alone \in BOOLEAN :
                bio_create_timer(t, is_interval, timeout, alone)
          \/ bio_reset_timer(t, timeout)
    \/ \E t \in Timer : bio_timer_entry(t) \/ bio_cancel_timer(t)

TimerSpec == TimerInit /\ [][TimerNext]_timerVars

\* Time passes, bio_loop updates the timers again and again (it sleeps no longer
\* than bio_time_until_next_timer), ready coroutines are run and callbacks return.
TimerFairSpec ==
    /\ TimerSpec
    /\ WF_timerVars(Tick)
    /\ WF_timerVars(bio_timer_update)
    /\ \A t \in Timer : WF_timerVars(bio_timer_entry(t))
-----------------------------------------------------------------------------
TimerTypeOK ==
    /\ now \in 0 .. MaxTime
    /\ current_time_ms \in 0 .. now
    /\ timer_entries \subseteq [timer : Timer, due : Nat]
    /\ state \in [Timer -> {"none", "spawned", "waiting", "ready", "calling", "again", "ended"}]
    /\ interval \in [Timer -> BOOLEAN]
    /\ timeout_ms \in [Timer -> Timeouts \cup {0}]
    /\ due_time_ms \in [Timer -> Nat]
    /\ cancelled \in [Timer -> BOOLEAN]
    /\ pending \in [Timer -> BOOLEAN]
    /\ wake_live \in [Timer -> BOOLEAN]
    /\ woken_at \in [Timer -> 0 .. MaxTime]

\* A timer whose coroutine waits has its wake signal among the delayed ones, and
\* no older one besides: it cannot sleep on a signal nobody will raise, however
\* resets, cancellations and late updates fall.
WaitingIsArmed ==
    \A t \in Timer : state[t] = "waiting" =>
        wake_live[t] /\ Cardinality({e \in timer_entries : e.timer = t}) = 1

\* A callback only starts at its due time or later and never after bio_cancel_timer,
\* also when its wake signal was armed with a cached time that was too old, or
\* bio_reset_timer postponed it while it slept.
NotCalledEarly ==
    [][\A t \in Timer : state[t] # "calling" /\ state'[t] = "calling" =>
          now >= due_time_ms[t] /\ ~cancelled[t]]_timerVars

\* A timer that is pending calls its function or is cancelled, once resets stop.
TimerFires ==
    \A t \in Timer : pending[t] ~> state[t] = "calling" \/ cancelled[t]

\* The coroutine of a cancelled timer ends, so that bio_loop can return, also when
\* it had not started or was in its callback: at the latest at its due time.
CancelEnds ==
    \A t \in Timer : cancelled[t] ~> state[t] = "ended" \/ due_time_ms[t] > MaxTime

\* No timer is forgotten by bio_timer_entry: a pending one fires or is cancelled, and
\* a cancelled one ends, whenever it is cancelled or reset.
TimerEnds == TimerFires /\ CancelEnds
=============================================================================
