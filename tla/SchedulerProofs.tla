--------------------------- MODULE SchedulerProofs --------------------------
(***************************************************************************)
(* For any number of coroutines, signals and monitors, any arrays passed to *)
(* bio_wait_for_signals and any bound on the waits: the scheduler's types   *)
(* are kept, its counters are exact and every READY coroutine is scheduled  *)
(* exactly once (the invariant IInv).  A second layer over it (JInv) shows  *)
(* that live signals have living owners, that a blocked coroutine counts    *)
(* exactly the signals it still waits for and only runs when they came,     *)
(* that monitors and exit handlers refer to what still exists, and that     *)
(* nothing is left behind when bio_loop gives up.                           *)
(***************************************************************************)
EXTENDS Scheduler, FiniteSetTheorems, SequenceTheorems, TLAPS

\* The current list is only in use while bio_loop goes through it.
ListsIdle ==
    pc \notin {"run", "coro", "cls", "monitors"} =>
        current_ready_coros = <<>> /\ coro_index = 1

\* A coroutine that waits has something to wait for, and a live signal an owner.
Blocked ==
    /\ \A c \in Coro : coro_state[c] = "WAITING" => num_blocking_signals[c] > 0
    /\ \A s \in LiveSignals : signal_owner[s] \in Coro
    /\ \A m \in Monitor : monitor_state[m] = "live" => monitor_target[m] \in Coro

\* The coroutines that ever lived are finitely many (bio_ctx counts them).
AliveCoros == {c \in Coro : coro_state[c] \in Alive}
AliveDaemons == {c \in Coro : coro_state[c] \in Alive /\ daemon[c]}

AliveFinite == IsFiniteSet(AliveCoros) /\ IsFiniteSet(AliveDaemons)

IInv ==
    /\ TypeOK
    /\ ScheduledOnce
    /\ CountersExact
    /\ ListsIdle
    /\ Blocked
    /\ AliveFinite

(***************************************************************************)
(* The queue.  Each lemma is about one way the lists change.                *)
(***************************************************************************)
\* A coroutine that is in no list is pushed on the next one.
LEMMA PushNext ==
    ASSUME TypeOK, QueuedOnce,
           NEW c \in Coro, c \notin Queued,
           next_ready_coros' = Append(next_ready_coros, c),
           current_ready_coros' = current_ready_coros,
           Pending' = Pending
    PROVE  Queued' = Queued \cup {c} /\ QueuedOnce'
<1> DEFINE n == Len(next_ready_coros)
<1>1. next_ready_coros \in Seq(Coro) /\ n \in Nat
  BY DEF TypeOK
<1>2. /\ Len(next_ready_coros') = n + 1
      /\ DOMAIN next_ready_coros' = 1 .. n + 1
      /\ DOMAIN next_ready_coros = 1 .. n
      /\ \A i \in 1 .. n : next_ready_coros'[i] = next_ready_coros[i]
      /\ next_ready_coros'[n + 1] = c
  <2>1. /\ Append(next_ready_coros, c) \in Seq(Coro)
        /\ Len(Append(next_ready_coros, c)) = n + 1
        /\ \A i \in 1 .. n : Append(next_ready_coros, c)[i] = next_ready_coros[i]
        /\ Append(next_ready_coros, c)[n + 1] = c
    BY <1>1, AppendProperties
  <2> QED BY <1>1, <2>1
<1>3. 1 .. n + 1 = 1 .. n \cup {n + 1} /\ n + 1 \notin 1 .. n
  BY <1>1
<1> HIDE DEF n
<1>4. /\ \A i \in 1 .. n : next_ready_coros[i] # c
      /\ \A i \in Pending : current_ready_coros[i] # c
  BY <1>2 DEF Queued
<1>5. Queued' = Queued \cup {c}
  <2>1. Queued' = {current_ready_coros[i] : i \in Pending}
                    \cup {next_ready_coros'[i] : i \in 1 .. n \cup {n + 1}}
    BY <1>2, <1>3 DEF Queued
  <2>2. {next_ready_coros'[i] : i \in 1 .. n \cup {n + 1}}
          = {next_ready_coros[i] : i \in 1 .. n} \cup {c}
    BY <1>2
  <2> QED BY <1>2, <2>1, <2>2 DEF Queued
<1>6. QueuedOnce'
  BY <1>2, <1>3, <1>4 DEF QueuedOnce
<1> QED BY <1>5, <1>6

\* Nothing in the queue moves.
LEMMA QueueSame ==
    ASSUME QueuedOnce,
           next_ready_coros' = next_ready_coros,
           current_ready_coros' = current_ready_coros,
           Pending' = Pending
    PROVE  Queued' = Queued /\ QueuedOnce'
BY DEF Queued, QueuedOnce

\* Calls inside the running coroutine, and its suspension, leave the rest of the
\* current list to be resumed.
LEMMA PendingSame ==
    ASSUME TypeOK,
           current_ready_coros' = current_ready_coros,
           \/ UNCHANGED <<pc, coro_index>>
           \/ UNCHANGED coro_index /\ InCoro /\ InCoro'
           \/ UNCHANGED coro_index /\ ~InCoro /\ ~InCoro'
           \/ InCoro /\ SwitchToLoop
    PROVE  Pending' = Pending
<1>0. coro_index \in Nat /\ DOMAIN current_ready_coros \subseteq Nat
  BY DEF TypeOK
<1>1. CASE UNCHANGED <<pc, coro_index>>
  BY <1>1 DEF Pending, InCoro
<1>2. CASE UNCHANGED coro_index /\ InCoro /\ InCoro'
  BY <1>2 DEF Pending
<1>3. CASE UNCHANGED coro_index /\ ~InCoro /\ ~InCoro'
  BY <1>3 DEF Pending
<1>4. CASE InCoro /\ SwitchToLoop
  <2>1. ~InCoro' /\ coro_index' = coro_index + 1
    BY <1>4 DEF SwitchToLoop, InCoro
  <2>2. \A i \in DOMAIN current_ready_coros : i > coro_index <=> i >= coro_index + 1
    BY <1>0
  <2> QED BY <1>4, <2>1, <2>2 DEF Pending
<1> QED BY <1>1, <1>2, <1>3, <1>4

\* Raising a live signal queues its owner or does not touch the queue.
LEMMA RaiseKeepsSchedule ==
    ASSUME TypeOK, ScheduledOnce, Blocked,
           NEW s \in Signal, signal_state[s] = "live", RaiseLive(s),
           UNCHANGED <<current_ready_coros, pc, coro_index>>
    PROVE  ScheduledOnce'
<1> DEFINE owner == signal_owner[s]
<1>0. /\ owner \in Coro
      /\ coro_state \in [Coro -> Alive \cup {"UNBORN", "DEAD"}]
      /\ Pending' = Pending
      /\ InCoro' = InCoro
      /\ QueuedOnce /\ RunningExact
  BY PendingSame DEF Blocked, LiveSignals, TypeOK, ScheduledOnce, InCoro
<1>1. CASE UNCHANGED <<next_ready_coros, coro_state>>
  <2>1. Queued' = Queued /\ QueuedOnce'
    BY <1>0, <1>1, QueueSame
  <2>2. RunningExact'
    BY <1>0, <1>1 DEF RunningExact, Running
  <2> QED BY <1>0, <1>1, <2>1, <2>2 DEF ScheduledOnce
<1>2. CASE /\ coro_state[owner] = "WAITING"
           /\ next_ready_coros' = Append(next_ready_coros, owner)
           /\ coro_state' = [coro_state EXCEPT ![owner] = "READY"]
  <2>1. owner \notin Queued
    BY <1>0, <1>2 DEF ScheduledOnce
  <2>2. Queued' = Queued \cup {owner} /\ QueuedOnce'
    BY <1>0, <1>2, <2>1, PushNext
  <2>3. RunningExact'
    BY <1>0, <1>2 DEF RunningExact, Running
  <2>4. \A c \in Coro : coro_state'[c] = "READY" <=> c \in Queued'
    BY <1>0, <1>2, <2>2 DEF ScheduledOnce
  <2> QED BY <2>2, <2>3, <2>4 DEF ScheduledOnce
<1> QED BY <1>1, <1>2 DEF RaiseLive, ConcernsWait

\* What raising a live signal does to the types, the living and the waiting.
LEMMA RaiseFacts ==
    ASSUME TypeOK, Blocked,
           NEW s \in Signal, signal_state[s] = "live", RaiseLive(s)
    PROVE  /\ signal_state' \in [Signal -> {"unmade", "live", "closed"}]
           /\ num_blocking_signals' \in [Coro -> Nat]
           /\ next_ready_coros' \in Seq(Coro)
           /\ coro_state' \in [Coro -> Alive \cup {"UNBORN", "DEAD"}]
           /\ \A c \in Coro : coro_state'[c] \in Alive <=> coro_state[c] \in Alive
           /\ \A c \in Coro : coro_state'[c] = "WAITING" => num_blocking_signals'[c] > 0
           /\ LiveSignals' \subseteq LiveSignals
<1> DEFINE owner == signal_owner[s]
<1>0. /\ owner \in Coro
      /\ signal_state \in [Signal -> {"unmade", "live", "closed"}]
      /\ num_blocking_signals \in [Coro -> Nat]
      /\ next_ready_coros \in Seq(Coro)
      /\ coro_state \in [Coro -> Alive \cup {"UNBORN", "DEAD"}]
      /\ \A c \in Coro : coro_state[c] = "WAITING" => num_blocking_signals[c] > 0
  BY DEF Blocked, LiveSignals, TypeOK
<1>1. /\ signal_state' = [signal_state EXCEPT ![s] = "closed"]
      /\ signal_state' \in [Signal -> {"unmade", "live", "closed"}]
      /\ LiveSignals' \subseteq LiveSignals
  BY <1>0 DEF RaiseLive, LiveSignals
<1> HIDE DEF owner
<1>2. CASE UNCHANGED <<num_blocking_signals, next_ready_coros, coro_state>>
  BY <1>0, <1>1, <1>2
<1>3. CASE /\ coro_state[owner] = "WAITING"
           /\ num_blocking_signals' = [num_blocking_signals EXCEPT ![owner] = @ - 1]
           /\ num_blocking_signals[owner] # 1
           /\ UNCHANGED <<next_ready_coros, coro_state>>
  <2>1. num_blocking_signals[owner] - 1 \in Nat /\ num_blocking_signals[owner] - 1 > 0
    BY <1>0, <1>3
  <2> QED BY <1>0, <1>1, <1>3, <2>1
<1>4. CASE /\ coro_state[owner] = "WAITING"
           /\ num_blocking_signals' = [num_blocking_signals EXCEPT ![owner] = @ - 1]
           /\ num_blocking_signals[owner] = 1
           /\ next_ready_coros' = Append(next_ready_coros, owner)
           /\ coro_state' = [coro_state EXCEPT ![owner] = "READY"]
  <2>1. next_ready_coros' \in Seq(Coro)
    BY <1>0, <1>4, AppendProperties
  <2>2. /\ coro_state' \in [Coro -> Alive \cup {"UNBORN", "DEAD"}]
        /\ \A c \in Coro : coro_state'[c] \in Alive <=> coro_state[c] \in Alive
    BY <1>0, <1>4 DEF Alive
  <2>3. /\ num_blocking_signals' \in [Coro -> Nat]
        /\ \A c \in Coro : coro_state'[c] = "WAITING" => num_blocking_signals'[c] > 0
    BY <1>0, <1>4
  <2> QED BY <1>1, <2>1, <2>2, <2>3
<1> QED BY <1>2, <1>3, <1>4 DEF RaiseLive, ConcernsWait, owner

\* A step that changes neither who lives nor who is a daemon keeps the counters.
LEMMA CountsSame ==
    ASSUME CountersExact, AliveFinite,
           \A c \in Coro : coro_state'[c] \in Alive <=> coro_state[c] \in Alive,
           UNCHANGED <<daemon, countVars>>
    PROVE  CountersExact' /\ AliveFinite'
<1>1. AliveCoros' = AliveCoros /\ AliveDaemons' = AliveDaemons
  BY DEF AliveCoros, AliveDaemons
<1> QED BY <1>1 DEF CountersExact, AliveFinite, countVars, AliveCoros, AliveDaemons

\* Every action keeps the types.
LEMMA TypeStep ==
    ASSUME IInv, [Next]_vars
    PROVE  TypeOK'
<1> USE DEF coroVars, signalVars, monitorVars, countVars, exitVars, auxVars
<1>0. TypeOK /\ Blocked /\ CountersExact /\ AliveFinite /\ RunningExact
  BY DEF IInv, ScheduledOnce
<1>r. InCoro => Running \in Coro
  BY <1>0 DEF RunningExact, Running, TypeOK
<1>p. /\ pc = "coro" => InCoro
      /\ pc = "cls" => InCoro
      /\ pc = "monitors" => InCoro
  BY DEF InCoro
<1>1. ASSUME NEW c \in Coro, NEW is_daemon \in BOOLEAN, bio_spawn_ex(c, is_daemon)
      PROVE  TypeOK'
  <2>1. next_ready_coros' \in Seq(Coro)
    BY <1>0, <1>1, AppendProperties DEF bio_spawn_ex, TypeOK
  <2>2. num_coros' \in Nat /\ num_daemons' \in Nat
    BY <1>0, <1>1 DEF bio_spawn_ex, TypeOK
  <2> QED BY <1>0, <1>1, <2>1, <2>2 DEF bio_spawn_ex, TypeOK, Alive
<1>2. ASSUME NEW s \in Signal, bio_make_signal(s)
      PROVE  TypeOK'
  <2>1. wait_counter[Running] - 1 \in Int /\ Running \in Coro
    BY <1>0, <1>2, <1>r, <1>p DEF bio_make_signal, TypeOK
  <2> QED BY <1>0, <1>2, <2>1 DEF bio_make_signal, TypeOK
<1>3. ASSUME NEW s \in Signal, bio_raise_signal(s)
      PROVE  TypeOK'
  <2>1. signal_state[s] = "live" /\ RaiseLive(s)
    BY <1>3 DEF bio_raise_signal
  <2> QED BY <1>0, <1>3, <2>1, RaiseFacts DEF bio_raise_signal, UnchangedByRaise, TypeOK
<1>4. ASSUME NEW c \in Coro, NEW s \in Signal, NEW m \in Monitor, bio_monitor(c, s, m)
      PROVE  TypeOK'
  <2>1. CASE /\ monitor_state' = [monitor_state EXCEPT ![m] = "live"]
             /\ monitor_signal' = [monitor_signal EXCEPT ![m] = s]
             /\ monitor_target' = [monitor_target EXCEPT ![m] = c]
             /\ monitors' = [monitors EXCEPT ![c] = Append(@, m)]
             /\ UNCHANGED <<signal_state, num_blocking_signals, next_ready_coros, coro_state>>
    <3>1. monitors' \in [Coro -> Seq(Monitor)]
      BY <1>0, <2>1 DEF TypeOK
    <3> QED BY <1>0, <1>4, <2>1, <3>1 DEF bio_monitor, UnchangedByRaise, TypeOK
  <2>2. CASE RaiseEffect(s) /\ UNCHANGED monitorVars
    <3>1. CASE signal_state[s] = "live" /\ RaiseLive(s)
      BY <1>0, <1>4, <2>2, <3>1, RaiseFacts DEF bio_monitor, UnchangedByRaise, TypeOK
    <3>2. CASE UNCHANGED <<signal_state, num_blocking_signals, next_ready_coros, coro_state>>
      BY <1>0, <1>4, <2>2, <3>2 DEF bio_monitor, UnchangedByRaise, TypeOK
    <3> QED BY <2>2, <3>1, <3>2 DEF RaiseEffect
  <2> QED BY <1>4, <2>1, <2>2 DEF bio_monitor
<1>5. ASSUME NEW m \in Monitor, bio_unmonitor(m)
      PROVE  TypeOK'
  <2>1. monitor_target[m] \in Coro
    BY <1>0, <1>5 DEF bio_unmonitor, Blocked
  <2>2. Without(monitors[monitor_target[m]], m) \in Seq(Monitor)
    <3> DEFINE list == monitors[monitor_target[m]]
    <3>1. list \in Seq(Monitor) /\ Len(list) \in Nat
      BY <1>0, <2>1 DEF TypeOK
    <3> HIDE DEF list
    <3>2. CASE Len(list) = 0
      <4>1. 1 .. Len(list) - 1 = 1 .. 0
        BY <3>2
      <4>2. Without(list, m) \in [1 .. 0 -> Monitor]
        BY <4>1 DEF Without
      <4> QED BY <4>2 DEF list
    <3>3. CASE Len(list) > 0
      <4>1. Len(list) - 1 \in Nat
        BY <3>1, <3>3
      <4>2. \A i \in 1 .. Len(list) - 1 : list[i] \in Monitor /\ list[i + 1] \in Monitor
        BY <3>1
      <4>3. Without(list, m) \in [1 .. Len(list) - 1 -> Monitor]
        BY <4>2 DEF Without
      <4> QED BY <4>1, <4>3 DEF list
    <3> QED BY <3>1, <3>2, <3>3
  <2>3. monitors' \in [Coro -> Seq(Monitor)]
    BY <1>0, <1>5, <2>1, <2>2 DEF bio_unmonitor, TypeOK
  <2> QED BY <1>0, <1>5, <2>3 DEF bio_unmonitor, TypeOK
<1>6. CASE bio_yield
  <2>1. Running \in Coro
    BY <1>6, <1>r, <1>p DEF bio_yield
  <2>2. next_ready_coros' \in Seq(Coro)
    BY <1>0, <1>6, <2>1, AppendProperties DEF bio_yield, TypeOK
  <2> QED BY <1>0, <1>6, <2>1, <2>2 DEF bio_yield, SwitchToLoop, TypeOK, Alive, PC
<1>7. ASSUME NEW array \in WaitArrays, NEW wait_all \in BOOLEAN,
             bio_wait_for_signals(array, wait_all)
      PROVE  TypeOK'
  <2> DEFINE entries == OwnEntries(array)
             own == {array[i] : i \in entries}
             n == Cardinality(entries)
  <2>1. Running \in Coro
    BY <1>7, <1>r, <1>p DEF bio_wait_for_signals
  <2>2. entries \subseteq 1 .. Len(array) /\ Len(array) \in Nat /\ own \subseteq Signal
    BY WaitArraysAssumption DEF OwnEntries
  <2>3. n \in Nat
    <3>1. IsFiniteSet(1 .. Len(array))
      BY <2>2, FS_Interval
    <3>2. IsFiniteSet(entries)
      BY <2>2, <3>1, FS_Subset
    <3> QED BY <3>2, FS_CardinalityType
  <2>4. NextCounter(Running) \in Nat
    BY <1>0, <2>1 DEF NextCounter, TypeOK
  <2>5. /\ wait_counter' \in [Coro -> Nat]
        /\ signal_counter' \in [Signal -> Int]
    BY <1>0, <1>7, <2>1, <2>4 DEF bio_wait_for_signals, TypeOK
  <2>6. UNCHANGED <<daemon, signal_state, signal_owner, monitorVars, countVars, exitVars,
                    started, current_ready_coros, next_ready_coros>>
    BY <1>7 DEF bio_wait_for_signals
  <2>7. CASE Block(IF wait_all THEN n ELSE 1, own, wait_all)
    <3>1. (IF wait_all THEN n ELSE 1) \in Nat
      BY <2>3
    <3> HIDE DEF n, own
    <3> QED BY <1>0, <2>1, <2>2, <2>5, <2>6, <2>7, <3>1
        DEF Block, SwitchToLoop, TypeOK, Alive, PC
  <2>8. CASE UNCHANGED <<coro_state, num_blocking_signals, awaited, waits_for_all, pc, coro_index>>
    BY <1>0, <2>5, <2>6, <2>8 DEF TypeOK
  <2> QED BY <1>7, <2>7, <2>8 DEF bio_wait_for_signals
<1>8. ASSUME NEW s \in Signal, bio_wait_for_exit(s)
      PROVE  TypeOK'
  <2>1. Running \in Coro
    BY <1>8, <1>r, <1>p DEF bio_wait_for_exit
  <2>2. exit_handlers' \in Seq(Signal)
    BY <1>0, <1>8, AppendProperties DEF bio_wait_for_exit, TypeOK
  <2>3. NextCounter(Running) \in Nat
    BY <1>0, <2>1 DEF NextCounter, TypeOK
  <2>4. num_daemons' \in Nat
    BY <1>0, <1>8 DEF bio_wait_for_exit, TypeOK
  <2>5. /\ coro_state' \in [Coro -> Alive \cup {"UNBORN", "DEAD"}]
        /\ num_blocking_signals' \in [Coro -> Nat]
        /\ awaited' \in [Coro -> SUBSET Signal]
        /\ waits_for_all' \in [Coro -> BOOLEAN]
        /\ pc' \in PC
        /\ coro_index' \in Nat \ {0}
    BY <1>0, <1>8, <2>1 DEF bio_wait_for_exit, Block, SwitchToLoop, TypeOK, Alive, PC
  <2>6. /\ signal_state' \in [Signal -> {"unmade", "live", "closed"}]
        /\ signal_owner' \in [Signal -> Coro \cup {NoCoro}]
        /\ daemon' \in [Coro -> BOOLEAN]
        /\ exit_signal_blocked' \in BOOLEAN
    BY <1>0, <1>8, <2>1 DEF bio_wait_for_exit, TypeOK
  <2>7. /\ wait_counter' \in [Coro -> Nat]
        /\ signal_counter' \in [Signal -> Int]
    BY <1>0, <1>8, <2>1, <2>3 DEF bio_wait_for_exit, TypeOK
  <2>8. UNCHANGED <<monitorVars, num_coros, is_terminating, started,
                    current_ready_coros, next_ready_coros>>
    BY <1>8 DEF bio_wait_for_exit
  <2> QED BY <1>0, <2>2, <2>4, <2>5, <2>6, <2>7, <2>8 DEF TypeOK
<1>9. CASE Return \/ EnterLoop \/ bio_handle_exit_signal \/ bio_terminate \/ TerminateLoop
           \/ DispatchDone
  <2>1. /\ UNCHANGED <<coroVars, signalVars, monitorVars, countVars, exit_handlers, auxVars,
                       current_ready_coros, next_ready_coros>>
        /\ pc' \in PC
    BY <1>9 DEF Return, EnterLoop, bio_handle_exit_signal, bio_terminate,
                TerminateLoop, DispatchDone, PC
  <2>2. /\ is_terminating' = is_terminating \/ is_terminating' = TRUE
        /\ exit_signal_blocked' = exit_signal_blocked \/ exit_signal_blocked' = FALSE
    BY <1>9 DEF Return, EnterLoop, bio_handle_exit_signal, bio_terminate,
                TerminateLoop, DispatchDone, BlockedAfterDispatch
  <2>3. coro_index' = coro_index \/ coro_index' = 1
    BY <1>9 DEF Return, EnterLoop, bio_handle_exit_signal, bio_terminate,
                TerminateLoop, DispatchDone
  <2>4. is_terminating' \in BOOLEAN /\ exit_signal_blocked' \in BOOLEAN
    <3>1. is_terminating \in BOOLEAN /\ exit_signal_blocked \in BOOLEAN
      BY <1>0 DEF TypeOK
    <3> QED BY <2>2, <3>1, Zenon
  <2>5. coro_index' \in Nat \ {0}
    BY <1>0, <2>3 DEF TypeOK
  <2> QED BY <1>0, <2>1, <2>4, <2>5 DEF TypeOK
<1>10. CASE Resume
  <2>1. Running \in Coro
    BY <1>0, <1>10 DEF Resume, Running, TypeOK
  <2> QED BY <1>0, <1>10, <2>1 DEF Resume, TypeOK, Alive, PC
<1>11. CASE DestroySignals
  BY <1>0, <1>11 DEF DestroySignals, PendingSignalsClosed, TypeOK, PC
<1>12. CASE TriggerMonitor
  <2>1. Running \in Coro
    BY <1>12, <1>r, <1>p DEF TriggerMonitor
  <2>2. /\ monitors[Running] \in Seq(Monitor)
        /\ Head(monitors[Running]) \in Monitor
        /\ Tail(monitors[Running]) \in Seq(Monitor)
    BY <1>0, <1>12, <2>1, HeadTailProperties DEF TriggerMonitor, TypeOK
  <2> DEFINE s == monitor_signal[Head(monitors[Running])]
  <2>3. s \in Signal \cup {NoSignal} /\ RaiseEffect(s)
    BY <1>0, <1>12, <2>2 DEF TriggerMonitor, TypeOK
  <2>4. monitors' \in [Coro -> Seq(Monitor)]
        /\ monitor_state' \in [Monitor -> {"unmade", "live", "fired", "cancelled"}]
    BY <1>0, <1>12, <2>1, <2>2 DEF TriggerMonitor, TypeOK
  <2>5. CASE s \in Signal /\ signal_state[s] = "live" /\ RaiseLive(s)
    <3> HIDE DEF s
    <3> QED BY <1>0, <1>12, <2>4, <2>5, RaiseFacts DEF TriggerMonitor, UnchangedByRaise, TypeOK
  <2>6. CASE UNCHANGED <<signal_state, num_blocking_signals, next_ready_coros, coro_state>>
    BY <1>0, <1>12, <2>4, <2>6 DEF TriggerMonitor, UnchangedByRaise, TypeOK
  <2> QED BY <2>3, <2>5, <2>6 DEF RaiseEffect
<1>13. CASE DestroyCoro
  <2>1. Running \in Coro /\ coro_state[Running] = "RUNNING"
    BY <1>0, <1>13, <1>r, <1>p DEF DestroyCoro, RunningExact
  <2>2. num_coros' \in Nat
    <3>1. Running \in AliveCoros
      BY <2>1 DEF AliveCoros, Alive
    <3>2. num_coros = Cardinality(AliveCoros) /\ IsFiniteSet(AliveCoros)
      BY <1>0 DEF CountersExact, AliveFinite, AliveCoros
    <3>3. num_coros - 1 = Cardinality(AliveCoros \ {Running})
      BY <3>1, <3>2, FS_RemoveElement
    <3>4. IsFiniteSet(AliveCoros \ {Running})
      BY <3>1, <3>2, FS_RemoveElement
    <3> QED BY <1>13, <3>3, <3>4, FS_CardinalityType DEF DestroyCoro
  <2>3. num_daemons' \in Nat
    <3>1. CASE daemon[Running]
      <4>1. Running \in AliveDaemons
        BY <2>1, <3>1 DEF AliveDaemons, Alive
      <4>2. num_daemons = Cardinality(AliveDaemons) /\ IsFiniteSet(AliveDaemons)
        BY <1>0 DEF CountersExact, AliveFinite, AliveDaemons
      <4>3. num_daemons - 1 = Cardinality(AliveDaemons \ {Running})
        BY <4>1, <4>2, FS_RemoveElement
      <4>4. IsFiniteSet(AliveDaemons \ {Running})
        BY <4>1, <4>2, FS_RemoveElement
      <4> QED BY <1>13, <3>1, <4>3, <4>4, FS_CardinalityType DEF DestroyCoro, DaemonsAfterDeath
    <3>2. CASE ~daemon[Running]
      BY <1>0, <1>13, <3>2 DEF DestroyCoro, DaemonsAfterDeath, TypeOK
    <3> QED BY <3>1, <3>2
  <2>4. coro_state' \in [Coro -> Alive \cup {"UNBORN", "DEAD"}]
    BY <1>0, <1>13 DEF DestroyCoro, TypeOK
  <2>5. pc' \in PC /\ coro_index' \in Nat \ {0}
    BY <1>0, <1>13 DEF DestroyCoro, SwitchToLoop, TypeOK, PC
  <2>6. UNCHANGED <<daemon, num_blocking_signals, wait_counter, signalVars, monitorVars,
                    exitVars, auxVars, current_ready_coros, next_ready_coros>>
    BY <1>13 DEF DestroyCoro
  <2> QED BY <1>0, <2>2, <2>3, <2>4, <2>5, <2>6 DEF TypeOK
<1>14. CASE EndOfList
  BY <1>0, <1>14 DEF EndOfList, TypeOK, PC
<1>15. CASE DispatchOne
  <2>1. Head(exit_handlers) \in Signal /\ Tail(exit_handlers) \in Seq(Signal)
    BY <1>0, <1>15, HeadTailProperties DEF DispatchOne, TypeOK
  <2> DEFINE s == Head(exit_handlers)
  <2>2. RaiseEffect(s)
    BY <1>15 DEF DispatchOne
  <2>3. CASE signal_state[s] = "live" /\ RaiseLive(s)
    <3>1. s \in Signal
      BY <2>1
    <3> HIDE DEF s
    <3> QED BY <1>0, <1>15, <2>1, <2>3, <3>1, RaiseFacts DEF DispatchOne, TypeOK
  <2>4. CASE UNCHANGED <<signal_state, num_blocking_signals, next_ready_coros, coro_state>>
    BY <1>0, <1>15, <2>1, <2>4 DEF DispatchOne, TypeOK
  <2> QED BY <2>2, <2>3, <2>4 DEF RaiseEffect
<1>16. CASE SwapLists
  BY <1>0, <1>16 DEF SwapLists, TypeOK, PC
<1>17. CASE UNCHANGED vars
  BY <1>0, <1>17 DEF vars, TypeOK
<1> QED
  BY <1>1, <1>2, <1>3, <1>4, <1>5, <1>6, <1>7, <1>8, <1>9, <1>10, <1>11, <1>12, <1>13,
     <1>14, <1>15, <1>16, <1>17 DEF Next, UserCode, Suspend, Loop, Done

(***************************************************************************)
(* Every action keeps what waiting coroutines, signals and monitors point   *)
(* to, and the current list empty outside the loop.                         *)
(***************************************************************************)
\* What Blocked says of coroutines and signals survives a raise or no raise.
LEMMA RaiseEffectBlocked ==
    ASSUME TypeOK, Blocked,
           NEW s \in Signal \cup {NoSignal}, RaiseEffect(s), UNCHANGED signal_owner
    PROVE  /\ \A c \in Coro : coro_state'[c] = "WAITING" => num_blocking_signals'[c] > 0
           /\ \A t \in LiveSignals' : signal_owner'[t] \in Coro
<1>1. CASE s \in Signal /\ signal_state[s] = "live" /\ RaiseLive(s)
  BY <1>1, RaiseFacts DEF Blocked
<1>2. CASE UNCHANGED <<signal_state, num_blocking_signals, next_ready_coros, coro_state>>
  BY <1>2 DEF Blocked, LiveSignals
<1> QED BY <1>1, <1>2 DEF RaiseEffect

\* Every action keeps a reason for each wait and an owner for each live signal.
LEMMA BlockedStep ==
    ASSUME IInv, [Next]_vars
    PROVE  Blocked'
<1> USE DEF coroVars, signalVars, monitorVars, countVars, exitVars, auxVars
<1>0. TypeOK /\ Blocked /\ RunningExact
  BY DEF IInv, ScheduledOnce
<1>r. InCoro => Running \in Coro
  BY <1>0 DEF RunningExact, Running, TypeOK
<1>p. pc \in {"coro", "cls", "monitors"} => InCoro
  BY DEF InCoro
<1>1. ASSUME NEW c \in Coro, NEW is_daemon \in BOOLEAN, bio_spawn_ex(c, is_daemon)
      PROVE  Blocked'
  BY <1>0, <1>1 DEF bio_spawn_ex, Blocked, LiveSignals, TypeOK
<1>2. ASSUME NEW s \in Signal, bio_make_signal(s)
      PROVE  Blocked'
  BY <1>0, <1>2, <1>r, <1>p DEF bio_make_signal, Blocked, LiveSignals, TypeOK
<1>3. ASSUME NEW s \in Signal, bio_raise_signal(s)
      PROVE  Blocked'
  <2>1. RaiseEffect(s) /\ UNCHANGED <<signal_owner, monitorVars>>
    BY <1>3, NoneAssumption DEF bio_raise_signal, RaiseEffect, UnchangedByRaise
  <2> QED BY <1>0, <2>1, RaiseEffectBlocked DEF Blocked
<1>4. ASSUME NEW c \in Coro, NEW s \in Signal, NEW m \in Monitor, bio_monitor(c, s, m)
      PROVE  Blocked'
  <2>0. UNCHANGED signal_owner
    BY <1>4 DEF bio_monitor, UnchangedByRaise
  <2>1. CASE /\ monitor_state' = [monitor_state EXCEPT ![m] = "live"]
             /\ monitor_target' = [monitor_target EXCEPT ![m] = c]
             /\ UNCHANGED <<signal_state, num_blocking_signals, next_ready_coros, coro_state>>
    BY <1>0, <2>0, <2>1 DEF Blocked, LiveSignals, TypeOK
  <2>2. CASE RaiseEffect(s) /\ UNCHANGED monitorVars
    BY <1>0, <2>0, <2>2, RaiseEffectBlocked DEF Blocked
  <2> QED BY <1>4, <2>1, <2>2 DEF bio_monitor
<1>5. ASSUME NEW m \in Monitor, bio_unmonitor(m)
      PROVE  Blocked'
  BY <1>0, <1>5 DEF bio_unmonitor, Blocked, LiveSignals, TypeOK
<1>6. CASE bio_yield
  BY <1>0, <1>6, <1>r, <1>p DEF bio_yield, Blocked, LiveSignals, TypeOK
<1>7. ASSUME NEW array \in WaitArrays, NEW wait_all \in BOOLEAN,
             bio_wait_for_signals(array, wait_all)
      PROVE  Blocked'
  <2> DEFINE n == Cardinality(OwnEntries(array))
             own == {array[i] : i \in OwnEntries(array)}
  <2>1. Running \in Coro
    BY <1>7, <1>r, <1>p DEF bio_wait_for_signals
  <2>2. UNCHANGED <<signal_state, signal_owner, monitorVars>>
    BY <1>7 DEF bio_wait_for_signals
  <2>3. CASE n > 0 /\ Block(IF wait_all THEN n ELSE 1, own, wait_all)
    <3>1. (IF wait_all THEN n ELSE 1) > 0
      BY <2>3
    <3> HIDE DEF n, own
    <3> QED BY <1>0, <2>1, <2>2, <2>3, <3>1 DEF Block, Blocked, LiveSignals, TypeOK
  <2>4. CASE UNCHANGED <<coro_state, num_blocking_signals>>
    BY <1>0, <2>2, <2>4 DEF Blocked, LiveSignals
  <2> QED BY <1>7, <2>3, <2>4 DEF bio_wait_for_signals
<1>8. ASSUME NEW s \in Signal, bio_wait_for_exit(s)
      PROVE  Blocked'
  BY <1>0, <1>8, <1>r, <1>p DEF bio_wait_for_exit, Block, Blocked, LiveSignals, TypeOK
<1>9. CASE Return \/ EnterLoop \/ bio_handle_exit_signal \/ bio_terminate \/ TerminateLoop
           \/ DispatchDone \/ EndOfList \/ SwapLists \/ UNCHANGED vars
  <2>1. UNCHANGED <<coro_state, num_blocking_signals, signal_state, signal_owner, monitorVars>>
    BY <1>9 DEF Return, EnterLoop, bio_handle_exit_signal, bio_terminate, TerminateLoop,
                DispatchDone, EndOfList, SwapLists, vars
  <2> QED BY <1>0, <2>1 DEF Blocked, LiveSignals
<1>10. CASE Resume
  <2>1. Running \in Coro
    BY <1>0, <1>10 DEF Resume, Running, TypeOK
  <2> QED BY <1>0, <1>10, <2>1 DEF Resume, Blocked, LiveSignals, TypeOK
<1>11. CASE DestroySignals
  BY <1>0, <1>11 DEF DestroySignals, PendingSignalsClosed, Blocked, LiveSignals, TypeOK
<1>12. CASE TriggerMonitor
  <2>1. Running \in Coro
    BY <1>12, <1>r, <1>p DEF TriggerMonitor
  <2>2. Head(monitors[Running]) \in Monitor
    BY <1>0, <1>12, <2>1, HeadTailProperties DEF TriggerMonitor, TypeOK
  <2> DEFINE m == Head(monitors[Running])
  <2>3. monitor_signal[m] \in Signal \cup {NoSignal} /\ RaiseEffect(monitor_signal[m])
        /\ UNCHANGED <<signal_owner, monitor_target>>
        /\ monitor_state' = [monitor_state EXCEPT ![m] = "fired"]
    BY <1>0, <1>12, <2>2 DEF TriggerMonitor, UnchangedByRaise, TypeOK
  <2> HIDE DEF m
  <2>4. \A k \in Monitor : monitor_state'[k] = "live" => monitor_target'[k] \in Coro
    BY <1>0, <2>3 DEF Blocked, TypeOK
  <2> QED BY <1>0, <2>3, <2>4, RaiseEffectBlocked DEF Blocked
<1>13. CASE DestroyCoro
  BY <1>0, <1>13, <1>r, <1>p DEF DestroyCoro, Blocked, LiveSignals, TypeOK
<1>15. CASE DispatchOne
  <2>1. Head(exit_handlers) \in Signal
    BY <1>0, <1>15, HeadTailProperties DEF DispatchOne, TypeOK
  <2>2. RaiseEffect(Head(exit_handlers)) /\ UNCHANGED <<signal_owner, monitorVars>>
    BY <1>15 DEF DispatchOne
  <2> QED BY <1>0, <2>1, <2>2, RaiseEffectBlocked DEF Blocked
<1> QED
  BY <1>1, <1>2, <1>3, <1>4, <1>5, <1>6, <1>7, <1>8, <1>9, <1>10, <1>11, <1>12, <1>13,
     <1>15 DEF Next, UserCode, Suspend, Loop, Done

\* Every action that leaves the loop leaves the current list empty.
LEMMA ListsIdleStep ==
    ASSUME IInv, [Next]_vars
    PROVE  ListsIdle'
<1> USE DEF coroVars, signalVars, monitorVars, countVars, exitVars, auxVars
<1>0. ListsIdle
  BY DEF IInv
<1>1. CASE UNCHANGED <<pc, current_ready_coros, coro_index>>
  BY <1>0, <1>1 DEF ListsIdle
<1>2. CASE pc' \in {"run", "coro", "cls", "monitors"}
  BY <1>2 DEF ListsIdle
<1>3. CASE EndOfList
  BY <1>3 DEF EndOfList, ListsIdle
<1>4. CASE bio_handle_exit_signal \/ DispatchDone \/ bio_terminate \/ TerminateLoop
  BY <1>0, <1>4 DEF bio_handle_exit_signal, DispatchDone, bio_terminate, TerminateLoop, ListsIdle
<1>5. CASE UserCode \/ (\E s \in Signal : bio_raise_signal(s)) \/ TriggerMonitor \/ DispatchOne
  BY <1>1, <1>5 DEF UserCode, bio_spawn_ex, bio_make_signal, bio_monitor, bio_unmonitor,
                    bio_raise_signal, TriggerMonitor, DispatchOne, UnchangedByRaise
<1>6. CASE Suspend
  BY <1>1, <1>2, <1>6 DEF Suspend, bio_yield, bio_wait_for_signals, bio_wait_for_exit, Return,
                          Block, SwitchToLoop
<1>7. CASE EnterLoop \/ Resume \/ DestroySignals \/ DestroyCoro \/ SwapLists
  BY <1>2, <1>7 DEF EnterLoop, Resume, DestroySignals, DestroyCoro, SwapLists, SwitchToLoop
<1>8. CASE UNCHANGED vars
  BY <1>1, <1>8 DEF vars
<1> QED BY <1>3, <1>4, <1>5, <1>6, <1>7, <1>8 DEF Next, Loop, Done

\* A raise, or a raise of nothing, keeps the schedule.
LEMMA RaiseEffectKeepsSchedule ==
    ASSUME TypeOK, ScheduledOnce, Blocked,
           NEW s \in Signal \cup {NoSignal}, RaiseEffect(s),
           UNCHANGED <<current_ready_coros, pc, coro_index>>
    PROVE  ScheduledOnce'
<1>1. CASE s \in Signal /\ signal_state[s] = "live" /\ RaiseLive(s)
  BY <1>1, RaiseKeepsSchedule
<1>2. CASE UNCHANGED <<next_ready_coros, coro_state>>
  <2>1. Pending' = Pending /\ InCoro' = InCoro /\ QueuedOnce /\ RunningExact
    BY PendingSame DEF InCoro, ScheduledOnce
  <2>2. Queued' = Queued /\ QueuedOnce'
    BY <1>2, <2>1, QueueSame
  <2>3. RunningExact'
    BY <1>2, <2>1 DEF RunningExact, Running
  <2> QED BY <1>2, <2>1, <2>2, <2>3 DEF ScheduledOnce
<1> QED BY <1>1, <1>2 DEF RaiseEffect

\* The running coroutine leaves: it is in no list and nobody is RUNNING after it.
LEMMA RunningLeaves ==
    ASSUME TypeOK, ScheduledOnce, InCoro, SwitchToLoop,
           UNCHANGED current_ready_coros,
           NEW state \in {"READY", "WAITING", "DEAD"},
           coro_state' = [coro_state EXCEPT ![Running] = state]
    PROVE  /\ Running \in Coro
           /\ Running \notin Queued
           /\ Pending' = Pending
           /\ RunningExact'
           /\ \A c \in Coro : c # Running => coro_state'[c] = coro_state[c]
           /\ coro_state'[Running] = state
<1>1. /\ coro_state \in [Coro -> Alive \cup {"UNBORN", "DEAD"}]
      /\ current_ready_coros \in Seq(Coro)
      /\ coro_index \in DOMAIN current_ready_coros
      /\ \A c \in Coro : coro_state[c] = "RUNNING" <=> c = Running
  BY DEF TypeOK, ScheduledOnce, RunningExact
<1>2. Running \in Coro
  BY <1>1 DEF Running
<1>3. Running \notin Queued
  BY <1>1, <1>2 DEF ScheduledOnce
<1>4. Pending' = Pending
  BY PendingSame
<1>5. ~InCoro'
  BY DEF SwitchToLoop, InCoro
<1>6. /\ \A c \in Coro : c # Running => coro_state'[c] = coro_state[c]
      /\ coro_state'[Running] = state
  BY <1>1, <1>2
<1>7. RunningExact'
  BY <1>1, <1>2, <1>5, <1>6 DEF RunningExact
<1> QED BY <1>2, <1>3, <1>4, <1>6, <1>7

\* The running coroutine is suspended on signals or dies: the queue is as it was.
LEMMA LeaveUnqueued ==
    ASSUME TypeOK, ScheduledOnce, InCoro, SwitchToLoop,
           UNCHANGED <<current_ready_coros, next_ready_coros>>,
           NEW state \in {"WAITING", "DEAD"},
           coro_state' = [coro_state EXCEPT ![Running] = state]
    PROVE  ScheduledOnce'
<1>1. /\ Running \in Coro
      /\ Running \notin Queued
      /\ Pending' = Pending
      /\ RunningExact'
      /\ \A c \in Coro : c # Running => coro_state'[c] = coro_state[c]
      /\ coro_state'[Running] = state
  BY RunningLeaves
<1>2. Queued' = Queued /\ QueuedOnce'
  BY <1>1, QueueSame DEF ScheduledOnce
<1>3. \A c \in Coro : coro_state'[c] = "READY" <=> c \in Queued'
  BY <1>1, <1>2 DEF ScheduledOnce
<1> QED BY <1>1, <1>2, <1>3 DEF ScheduledOnce

\* A step outside the lists: same states, same lists, same place in the loop.
LEMMA ScheduleSame ==
    ASSUME TypeOK, ScheduledOnce,
           UNCHANGED <<coro_state, current_ready_coros, next_ready_coros, coro_index>>,
           InCoro' = InCoro
    PROVE  ScheduledOnce'
<1>1. Pending' = Pending /\ QueuedOnce /\ RunningExact
  BY DEF Pending, ScheduledOnce
<1>2. Queued' = Queued /\ QueuedOnce'
  BY <1>1, QueueSame
<1>3. RunningExact'
  BY <1>1 DEF RunningExact, Running
<1> QED BY <1>2, <1>3 DEF ScheduledOnce

\* bio_loop takes the next coroutine of the current list.
LEMMA ResumeKeepsSchedule ==
    ASSUME TypeOK, ScheduledOnce, Resume
    PROVE  ScheduledOnce'
<1>0. /\ coro_state \in [Coro -> Alive \cup {"UNBORN", "DEAD"}]
      /\ current_ready_coros \in Seq(Coro)
      /\ coro_index \in Nat \ {0}
      /\ coro_index \in DOMAIN current_ready_coros
      /\ DOMAIN current_ready_coros \subseteq Nat
      /\ UNCHANGED <<current_ready_coros, next_ready_coros, coro_index>>
  BY SMTT(20) DEF TypeOK, Resume
<1>1. ~InCoro /\ InCoro'
  BY DEF Resume, InCoro
<1>2. /\ Running \in Coro
      /\ Running' = Running
  BY <1>0 DEF Running
<1>3. /\ coro_index \in Pending
      /\ Pending' = Pending \ {coro_index}
  BY <1>0, <1>1 DEF Pending
<1>4. QueuedOnce'
  BY <1>0, <1>3 DEF ScheduledOnce, QueuedOnce
<1>5. Queued' = Queued \ {Running}
  <2>1. \A i \in Pending' : current_ready_coros[i] # Running
    BY <1>3 DEF Running, ScheduledOnce, QueuedOnce
  <2>2. \A i \in DOMAIN next_ready_coros : next_ready_coros[i] # Running
    BY <1>3 DEF Running, ScheduledOnce, QueuedOnce
  <2>3. {current_ready_coros[i] : i \in Pending}
           = {current_ready_coros[i] : i \in Pending'} \cup {Running}
    BY <1>3 DEF Running
  <2> QED BY <1>0, <2>1, <2>2, <2>3 DEF Queued
<1>6. coro_state' = [coro_state EXCEPT ![Running] = "RUNNING"]
  BY DEF Resume
<1>7. \A c \in Coro : coro_state[c] # "RUNNING"
  BY <1>1 DEF ScheduledOnce, RunningExact
<1>8. RunningExact'
  BY <1>0, <1>1, <1>2, <1>6, <1>7 DEF RunningExact
<1>9. \A c \in Coro : coro_state'[c] = "READY" <=> c \in Queued'
  BY <1>0, <1>2, <1>5, <1>6 DEF ScheduledOnce
<1> QED BY <1>4, <1>8, <1>9 DEF ScheduledOnce

\* The list is exhausted and cleared.
LEMMA EndOfListKeepsSchedule ==
    ASSUME TypeOK, ScheduledOnce, EndOfList
    PROVE  ScheduledOnce'
<1>0. /\ current_ready_coros \in Seq(Coro)
      /\ coro_index \in Nat
      /\ coro_index > Len(current_ready_coros)
      /\ Len(current_ready_coros) \in Nat
      /\ DOMAIN current_ready_coros = 1 .. Len(current_ready_coros)
      /\ current_ready_coros' = <<>>
      /\ UNCHANGED <<next_ready_coros, coro_state>>
  BY DEF TypeOK, EndOfList, coroVars
<1>1. ~InCoro /\ ~InCoro'
  BY DEF EndOfList, InCoro
<1>2. Pending = {}
  BY <1>0, <1>1 DEF Pending
<1>3. Pending' = {}
  BY <1>0 DEF Pending
<1>4. Queued' = Queued
  BY <1>0, <1>2, <1>3 DEF Queued
<1>5. QueuedOnce'
  BY <1>0, <1>3 DEF ScheduledOnce, QueuedOnce
<1>6. RunningExact'
  BY <1>0, <1>1 DEF ScheduledOnce, RunningExact
<1> QED BY <1>0, <1>4, <1>5, <1>6 DEF ScheduledOnce

\* The next list becomes the current one.
LEMMA SwapKeepsSchedule ==
    ASSUME TypeOK, ScheduledOnce, ListsIdle, SwapLists
    PROVE  ScheduledOnce'
<1>0. /\ next_ready_coros \in Seq(Coro)
      /\ current_ready_coros = <<>>
      /\ current_ready_coros' = next_ready_coros
      /\ next_ready_coros' = <<>>
      /\ coro_index' = 1
      /\ UNCHANGED coro_state
  BY DEF TypeOK, SwapLists, ListsIdle, coroVars
<1>1. ~InCoro /\ ~InCoro'
  BY DEF SwapLists, InCoro
<1>2. Pending = {}
  BY <1>0 DEF Pending
<1>3. Pending' = DOMAIN next_ready_coros
  <2>1. \A i \in DOMAIN next_ready_coros : i >= 1
    BY <1>0
  <2> QED BY <1>0, <1>1, <2>1 DEF Pending
<1>4. Queued' = Queued
  BY <1>0, <1>2, <1>3 DEF Queued
<1>5. QueuedOnce'
  BY <1>0, <1>3 DEF ScheduledOnce, QueuedOnce
<1>6. RunningExact'
  BY <1>0, <1>1 DEF ScheduledOnce, RunningExact
<1> QED BY <1>0, <1>4, <1>5, <1>6 DEF ScheduledOnce

\* Every action keeps each READY coroutine queued exactly once.
LEMMA ScheduleStep ==
    ASSUME IInv, [Next]_vars
    PROVE  ScheduledOnce'
<1> USE DEF coroVars, signalVars, monitorVars, countVars, exitVars, auxVars
<1>0. TypeOK /\ ScheduledOnce /\ Blocked /\ ListsIdle
  BY DEF IInv
<1>p. pc \in {"coro", "cls", "monitors"} => InCoro
  BY DEF InCoro
<1>1. ASSUME NEW c \in Coro, NEW is_daemon \in BOOLEAN, bio_spawn_ex(c, is_daemon)
      PROVE  ScheduledOnce'
  <2>1. /\ coro_state \in [Coro -> Alive \cup {"UNBORN", "DEAD"}]
        /\ coro_state[c] = "UNBORN"
        /\ coro_state' = [coro_state EXCEPT ![c] = "READY"]
        /\ next_ready_coros' = Append(next_ready_coros, c)
        /\ UNCHANGED <<current_ready_coros, pc, coro_index>>
    BY <1>0, <1>1 DEF bio_spawn_ex, TypeOK
  <2>2. c \notin Queued /\ QueuedOnce /\ RunningExact
    BY <1>0, <2>1 DEF ScheduledOnce
  <2>3. Pending' = Pending /\ InCoro' = InCoro
    BY <1>0, <2>1, PendingSame DEF InCoro
  <2>4. Queued' = Queued \cup {c} /\ QueuedOnce'
    BY <1>0, <2>1, <2>2, <2>3, PushNext
  <2>5. RunningExact'
    BY <2>1, <2>2, <2>3 DEF RunningExact, Running
  <2>6. \A d \in Coro : coro_state'[d] = "READY" <=> d \in Queued'
    BY <1>0, <2>1, <2>4 DEF ScheduledOnce
  <2> QED BY <2>4, <2>5, <2>6 DEF ScheduledOnce
<1>2. ASSUME NEW s \in Signal, bio_raise_signal(s)
      PROVE  ScheduledOnce'
  BY <1>0, <1>2, RaiseKeepsSchedule DEF bio_raise_signal, UnchangedByRaise
<1>3. ASSUME NEW c \in Coro, NEW s \in Signal, NEW m \in Monitor, bio_monitor(c, s, m)
      PROVE  ScheduledOnce'
  <2>0. UNCHANGED <<current_ready_coros, pc, coro_index>>
    BY <1>3 DEF bio_monitor, UnchangedByRaise
  <2>1. CASE UNCHANGED <<signal_state, num_blocking_signals, next_ready_coros, coro_state>>
    BY <1>0, <2>0, <2>1, ScheduleSame DEF InCoro
  <2>2. CASE RaiseEffect(s)
    BY <1>0, <2>0, <2>2, RaiseEffectKeepsSchedule
  <2> QED BY <1>3, <2>1, <2>2 DEF bio_monitor
<1>4. CASE bio_yield
  <2>1. /\ InCoro
        /\ SwitchToLoop
        /\ coro_state' = [coro_state EXCEPT ![Running] = "READY"]
        /\ next_ready_coros' = Append(next_ready_coros, Running)
        /\ UNCHANGED current_ready_coros
    BY <1>4, <1>p DEF bio_yield
  <2>2. /\ Running \in Coro
        /\ Running \notin Queued
        /\ Pending' = Pending
        /\ RunningExact'
        /\ \A c \in Coro : c # Running => coro_state'[c] = coro_state[c]
        /\ coro_state'[Running] = "READY"
    BY <1>0, <2>1, RunningLeaves
  <2>3. Queued' = Queued \cup {Running} /\ QueuedOnce'
    BY <1>0, <2>1, <2>2, PushNext DEF ScheduledOnce
  <2>4. \A c \in Coro : coro_state'[c] = "READY" <=> c \in Queued'
    BY <1>0, <2>2, <2>3 DEF ScheduledOnce
  <2> QED BY <2>2, <2>3, <2>4 DEF ScheduledOnce
<1>5. ASSUME NEW array \in WaitArrays, NEW wait_all \in BOOLEAN,
             bio_wait_for_signals(array, wait_all)
      PROVE  ScheduledOnce'
  <2>0. InCoro /\ UNCHANGED <<current_ready_coros, next_ready_coros>>
    BY <1>5, <1>p DEF bio_wait_for_signals
  <2>1. CASE SwitchToLoop /\ coro_state' = [coro_state EXCEPT ![Running] = "WAITING"]
    BY <1>0, <2>0, <2>1, LeaveUnqueued
  <2>2. CASE UNCHANGED <<coro_state, pc, coro_index>>
    BY <1>0, <2>0, <2>2, ScheduleSame DEF InCoro
  <2> QED BY <1>5, <2>1, <2>2 DEF bio_wait_for_signals, Block
<1>6. ASSUME NEW s \in Signal, bio_wait_for_exit(s)
      PROVE  ScheduledOnce'
  <2>0. /\ InCoro
        /\ SwitchToLoop
        /\ coro_state' = [coro_state EXCEPT ![Running] = "WAITING"]
        /\ UNCHANGED <<current_ready_coros, next_ready_coros>>
    BY <1>6, <1>p DEF bio_wait_for_exit, Block
  <2> QED BY <1>0, <2>0, LeaveUnqueued
<1>7. CASE Resume
  BY <1>0, <1>7, ResumeKeepsSchedule
<1>8. CASE TriggerMonitor
  <2>1. Running \in Coro
    BY <1>0, <1>8, <1>p DEF TriggerMonitor, ScheduledOnce, RunningExact, Running, TypeOK
  <2>2. Head(monitors[Running]) \in Monitor
    BY <1>0, <1>8, <2>1, HeadTailProperties DEF TriggerMonitor, TypeOK
  <2> DEFINE s == monitor_signal[Head(monitors[Running])]
  <2>3. /\ s \in Signal \cup {NoSignal}
        /\ RaiseEffect(s)
        /\ UNCHANGED <<current_ready_coros, pc, coro_index>>
    BY <1>0, <1>8, <2>2 DEF TriggerMonitor, UnchangedByRaise, TypeOK
  <2> QED BY <1>0, <2>3, RaiseEffectKeepsSchedule
<1>9. CASE DestroyCoro
  <2>0. /\ InCoro
        /\ SwitchToLoop
        /\ coro_state' = [coro_state EXCEPT ![Running] = "DEAD"]
        /\ UNCHANGED <<current_ready_coros, next_ready_coros>>
    BY <1>9, <1>p DEF DestroyCoro
  <2> QED BY <1>0, <2>0, LeaveUnqueued
<1>10. CASE EndOfList
  BY <1>0, <1>10, EndOfListKeepsSchedule
<1>11. CASE DispatchOne
  <2>1. Head(exit_handlers) \in Signal
    BY <1>0, <1>11, HeadTailProperties DEF DispatchOne, TypeOK
  <2>2. /\ RaiseEffect(Head(exit_handlers))
        /\ UNCHANGED <<current_ready_coros, pc, coro_index>>
    BY <1>11 DEF DispatchOne
  <2> QED BY <1>0, <2>1, <2>2, RaiseEffectKeepsSchedule
<1>12. CASE SwapLists
  BY <1>0, <1>12, SwapKeepsSchedule
<1>13. CASE \/ \E s \in Signal : bio_make_signal(s)
            \/ \E m \in Monitor : bio_unmonitor(m)
            \/ Return \/ DestroySignals \/ bio_handle_exit_signal \/ bio_terminate
            \/ DispatchDone \/ UNCHANGED vars
  <2>1. UNCHANGED <<coro_state, current_ready_coros, next_ready_coros, coro_index>>
    BY <1>13 DEF bio_make_signal, bio_unmonitor, Return, DestroySignals,
                 bio_handle_exit_signal, bio_terminate, DispatchDone, vars
  <2>2. InCoro' = InCoro
    BY <1>13 DEF bio_make_signal, bio_unmonitor, Return, DestroySignals,
                 bio_handle_exit_signal, bio_terminate, DispatchDone, vars, InCoro
  <2> QED BY <1>0, <2>1, <2>2, ScheduleSame
<1>14. CASE EnterLoop \/ TerminateLoop
  <2>1. /\ UNCHANGED <<coro_state, current_ready_coros, next_ready_coros>>
        /\ coro_index' = coro_index
        /\ InCoro' = InCoro
    BY <1>0, <1>14 DEF EnterLoop, TerminateLoop, ListsIdle, InCoro
  <2> QED BY <1>0, <2>1, ScheduleSame
<1> QED
  BY <1>1, <1>2, <1>3, <1>4, <1>5, <1>6, <1>7, <1>8, <1>9, <1>10, <1>11, <1>12, <1>13,
     <1>14 DEF Next, UserCode, Suspend, Loop, Done

\* What the steps that create, daemonize and destroy a coroutine count.
LEMMA CountStep ==
    ASSUME IInv, [Next]_vars
    PROVE  CountersExact' /\ AliveFinite'
<1> USE DEF coroVars, signalVars, monitorVars, countVars, exitVars, auxVars
<1>0. /\ TypeOK /\ Blocked /\ CountersExact /\ AliveFinite /\ RunningExact
      /\ coro_state \in [Coro -> Alive \cup {"UNBORN", "DEAD"}]
      /\ daemon \in [Coro -> BOOLEAN]
      /\ num_coros = Cardinality(AliveCoros) /\ IsFiniteSet(AliveCoros)
      /\ num_daemons = Cardinality(AliveDaemons) /\ IsFiniteSet(AliveDaemons)
  BY DEF IInv, ScheduledOnce, CountersExact, AliveFinite, AliveCoros, AliveDaemons, TypeOK
<1>c. ASSUME /\ num_coros' = Cardinality(AliveCoros') /\ IsFiniteSet(AliveCoros')
             /\ num_daemons' = Cardinality(AliveDaemons') /\ IsFiniteSet(AliveDaemons')
      PROVE  CountersExact' /\ AliveFinite'
  BY <1>c DEF CountersExact, AliveFinite, AliveCoros, AliveDaemons
<1>r. InCoro => Running \in Coro /\ coro_state[Running] = "RUNNING"
  BY <1>0 DEF RunningExact, Running, TypeOK
<1>p. pc \in {"coro", "cls", "monitors"} => InCoro
  BY DEF InCoro
<1>1. ASSUME NEW c \in Coro, NEW is_daemon \in BOOLEAN, bio_spawn_ex(c, is_daemon)
      PROVE  CountersExact' /\ AliveFinite'
  <2>1. /\ coro_state[c] = "UNBORN"
        /\ coro_state' = [coro_state EXCEPT ![c] = "READY"]
        /\ daemon' = [daemon EXCEPT ![c] = is_daemon]
        /\ num_coros' = num_coros + 1
        /\ is_daemon => num_daemons' = num_daemons + 1
        /\ ~is_daemon => num_daemons' = num_daemons
    BY <1>1 DEF bio_spawn_ex
  <2>2. c \notin AliveCoros /\ c \notin AliveDaemons
    BY <2>1 DEF AliveCoros, AliveDaemons, Alive
  <2>3. AliveCoros' = AliveCoros \cup {c}
    BY <1>0, <2>1 DEF AliveCoros, Alive
  <2>4. num_coros' = Cardinality(AliveCoros') /\ IsFiniteSet(AliveCoros')
    BY <1>0, <2>1, <2>2, <2>3, FS_AddElement
  <2>5. CASE is_daemon
    <3>1. AliveDaemons' = AliveDaemons \cup {c}
      BY <1>0, <2>1, <2>5 DEF AliveDaemons, Alive
    <3>2. num_daemons' = Cardinality(AliveDaemons') /\ IsFiniteSet(AliveDaemons')
      BY <1>0, <2>1, <2>2, <2>5, <3>1, FS_AddElement
    <3> QED BY <1>c, <2>4, <3>2
  <2>6. CASE ~is_daemon
    <3>1. AliveDaemons' = AliveDaemons
      BY <1>0, <2>1, <2>2, <2>6 DEF AliveDaemons, Alive
    <3> QED BY <1>0, <1>c, <2>1, <2>4, <2>6, <3>1
  <2> QED BY <2>5, <2>6
<1>2. ASSUME NEW s \in Signal \cup {NoSignal}, RaiseEffect(s), UNCHANGED <<daemon, countVars>>
      PROVE  CountersExact' /\ AliveFinite'
  <2>1. CASE s \in Signal /\ signal_state[s] = "live" /\ RaiseLive(s)
    BY <1>0, <1>2, <2>1, RaiseFacts, CountsSame
  <2>2. CASE UNCHANGED coro_state
    BY <1>0, <1>2, <2>2, CountsSame
  <2> QED BY <1>2, <2>1, <2>2 DEF RaiseEffect
<1>3. ASSUME NEW s \in Signal, bio_raise_signal(s)
      PROVE  CountersExact' /\ AliveFinite'
  <2>1. RaiseEffect(s) /\ UNCHANGED <<daemon, countVars>>
    BY <1>3, NoneAssumption DEF bio_raise_signal, RaiseEffect, UnchangedByRaise
  <2> QED BY <1>2, <2>1
<1>4. ASSUME NEW c \in Coro, NEW s \in Signal, NEW m \in Monitor, bio_monitor(c, s, m)
      PROVE  CountersExact' /\ AliveFinite'
  <2>0. UNCHANGED <<daemon, countVars>>
    BY <1>4 DEF bio_monitor, UnchangedByRaise
  <2>1. CASE RaiseEffect(s)
    BY <1>2, <2>0, <2>1
  <2>2. CASE UNCHANGED coro_state
    BY <1>0, <2>0, <2>2, CountsSame
  <2> QED BY <1>4, <2>1, <2>2 DEF bio_monitor
<1>5. CASE /\ InCoro
           /\ \E state \in Alive : coro_state' = [coro_state EXCEPT ![Running] = state]
           /\ UNCHANGED <<daemon, countVars>>
  <2>1. \A c \in Coro : coro_state'[c] \in Alive <=> coro_state[c] \in Alive
    BY <1>0, <1>5, <1>r DEF Alive
  <2> QED BY <1>0, <1>5, <2>1, CountsSame
<1>6. CASE UNCHANGED <<coro_state, daemon, countVars>>
  BY <1>0, <1>6, CountsSame
<1>7. CASE bio_yield \/ (\E array \in WaitArrays, wait_all \in BOOLEAN :
                             bio_wait_for_signals(array, wait_all))
  BY <1>5, <1>6, <1>7, <1>p DEF bio_yield, bio_wait_for_signals, Block, Alive
<1>8. ASSUME NEW s \in Signal, bio_wait_for_exit(s)
      PROVE  CountersExact' /\ AliveFinite'
  <2>1. Running \in Coro /\ coro_state[Running] = "RUNNING"
    BY <1>8, <1>r, <1>p DEF bio_wait_for_exit
  <2>2. /\ coro_state' = [coro_state EXCEPT ![Running] = "WAITING"]
        /\ daemon' = [daemon EXCEPT ![Running] = TRUE]
        /\ num_coros' = num_coros
        /\ daemon[Running] => num_daemons' = num_daemons
        /\ ~daemon[Running] => num_daemons' = num_daemons + 1
    BY <1>8 DEF bio_wait_for_exit, Block
  <2>3. AliveCoros' = AliveCoros
    BY <1>0, <2>1, <2>2 DEF AliveCoros, Alive
  <2>4. CASE daemon[Running]
    <3>1. AliveDaemons' = AliveDaemons
      BY <1>0, <2>1, <2>2, <2>4 DEF AliveDaemons, Alive
    <3> QED BY <1>0, <1>c, <2>2, <2>3, <2>4, <3>1
  <2>5. CASE ~daemon[Running]
    <3>1. Running \notin AliveDaemons /\ AliveDaemons' = AliveDaemons \cup {Running}
      BY <1>0, <2>1, <2>2, <2>5 DEF AliveDaemons, Alive
    <3>2. num_daemons' = Cardinality(AliveDaemons') /\ IsFiniteSet(AliveDaemons')
      BY <1>0, <2>2, <2>5, <3>1, FS_AddElement
    <3> QED BY <1>0, <1>c, <2>2, <2>3, <3>2
  <2> QED BY <2>4, <2>5
<1>9. CASE Resume
  <2>1. Running \in Coro /\ coro_state[Running] = "READY"
    <3>1. /\ coro_index \in DOMAIN current_ready_coros
          /\ Running \in Coro
          /\ ~InCoro
      BY <1>0, <1>9 DEF Resume, Running, TypeOK, InCoro
    <3>2. coro_index \in Pending
      BY <1>0, <3>1 DEF Pending, TypeOK
    <3>3. Running \in Queued
      BY <3>2 DEF Queued, Running
    <3> QED BY <3>1, <3>3 DEF IInv, ScheduledOnce
  <2>2. \A c \in Coro : coro_state'[c] \in Alive <=> coro_state[c] \in Alive
    BY <1>0, <1>9, <2>1 DEF Resume, Alive
  <2> QED BY <1>0, <1>9, <2>2, CountsSame DEF Resume
<1>10. CASE TriggerMonitor
  <2>1. Running \in Coro
    BY <1>10, <1>r, <1>p DEF TriggerMonitor
  <2>2. Head(monitors[Running]) \in Monitor
    BY <1>0, <1>10, <2>1, HeadTailProperties DEF TriggerMonitor, TypeOK
  <2> DEFINE s == monitor_signal[Head(monitors[Running])]
  <2>3. s \in Signal \cup {NoSignal} /\ RaiseEffect(s) /\ UNCHANGED <<daemon, countVars>>
    BY <1>0, <1>10, <2>2 DEF TriggerMonitor, UnchangedByRaise, TypeOK
  <2> HIDE DEF s
  <2> QED BY <1>2, <2>3
<1>11. CASE DispatchOne
  <2>1. Head(exit_handlers) \in Signal
    BY <1>0, <1>11, HeadTailProperties DEF DispatchOne, TypeOK
  <2>2. RaiseEffect(Head(exit_handlers)) /\ UNCHANGED <<daemon, countVars>>
    BY <1>11 DEF DispatchOne
  <2> QED BY <1>2, <2>1, <2>2
<1>12. CASE DestroyCoro
  <2>1. Running \in Coro /\ coro_state[Running] = "RUNNING"
    BY <1>12, <1>r, <1>p DEF DestroyCoro
  <2>2. /\ coro_state' = [coro_state EXCEPT ![Running] = "DEAD"]
        /\ UNCHANGED daemon
        /\ num_coros' = num_coros - 1
        /\ daemon[Running] => num_daemons' = num_daemons - 1
        /\ ~daemon[Running] => num_daemons' = num_daemons
    BY <1>12 DEF DestroyCoro, DaemonsAfterDeath
  <2>3. Running \in AliveCoros /\ AliveCoros' = AliveCoros \ {Running}
    BY <1>0, <2>1, <2>2 DEF AliveCoros, Alive
  <2>4. num_coros' = Cardinality(AliveCoros') /\ IsFiniteSet(AliveCoros')
    BY <1>0, <2>2, <2>3, FS_RemoveElement
  <2>5. CASE daemon[Running]
    <3>1. Running \in AliveDaemons /\ AliveDaemons' = AliveDaemons \ {Running}
      BY <1>0, <2>1, <2>2, <2>5 DEF AliveDaemons, Alive
    <3>2. num_daemons' = Cardinality(AliveDaemons') /\ IsFiniteSet(AliveDaemons')
      BY <1>0, <2>2, <2>5, <3>1, FS_RemoveElement
    <3> QED BY <1>c, <2>4, <3>2
  <2>6. CASE ~daemon[Running]
    <3>1. AliveDaemons' = AliveDaemons
      BY <1>0, <2>1, <2>2, <2>6 DEF AliveDaemons, Alive
    <3> QED BY <1>0, <1>c, <2>2, <2>4, <2>6, <3>1
  <2> QED BY <2>5, <2>6
<1>13. CASE \/ \E s \in Signal : bio_make_signal(s)
            \/ \E m \in Monitor : bio_unmonitor(m)
            \/ Return \/ EnterLoop \/ DestroySignals \/ EndOfList \/ bio_handle_exit_signal
            \/ bio_terminate \/ TerminateLoop \/ DispatchDone \/ SwapLists \/ UNCHANGED vars
  BY <1>6, <1>13 DEF bio_make_signal, bio_unmonitor, Return, EnterLoop, DestroySignals,
                     EndOfList, bio_handle_exit_signal, bio_terminate, TerminateLoop,
                     DispatchDone, SwapLists, vars
<1> QED
  BY <1>1, <1>3, <1>4, <1>7, <1>8, <1>9, <1>10, <1>11, <1>12, <1>13
     DEF Next, UserCode, Suspend, Loop, Done

\* The program starts with no coroutine, no signal and empty lists.
LEMMA InitInvariant ==
    ASSUME Init
    PROVE  IInv
<1>1. TypeOK
  <2>1. /\ <<>> \in Seq(Monitor) /\ <<>> \in Seq(Coro) /\ <<>> \in Seq(Signal)
        /\ {} \in SUBSET Signal
    OBVIOUS
  <2>2. /\ monitors \in [Coro -> Seq(Monitor)]
        /\ current_ready_coros \in Seq(Coro)
        /\ next_ready_coros \in Seq(Coro)
        /\ exit_handlers \in Seq(Signal)
        /\ awaited \in [Coro -> SUBSET Signal]
    BY <2>1, Zenon DEF Init
  <2>3. /\ num_blocking_signals \in [Coro -> Nat]
        /\ wait_counter \in [Coro -> Nat]
        /\ signal_counter \in [Signal -> Int]
        /\ num_coros \in Nat
        /\ num_daemons \in Nat
        /\ coro_index \in Nat \ {0}
    BY DEF Init
  <2>4. /\ coro_state \in [Coro -> Alive \cup {"UNBORN", "DEAD"}]
        /\ daemon \in [Coro -> BOOLEAN]
        /\ signal_state \in [Signal -> {"unmade", "live", "closed"}]
        /\ signal_owner \in [Signal -> Coro \cup {NoCoro}]
        /\ monitor_state \in [Monitor -> {"unmade", "live", "fired", "cancelled"}]
        /\ monitor_signal \in [Monitor -> Signal \cup {NoSignal}]
        /\ monitor_target \in [Monitor -> Coro \cup {NoCoro}]
        /\ is_terminating \in BOOLEAN
        /\ exit_signal_blocked \in BOOLEAN
        /\ pc \in PC
        /\ waits_for_all \in [Coro -> BOOLEAN]
        /\ started \in [Coro -> BOOLEAN]
    BY DEF Init, PC
  <2> QED BY <2>2, <2>3, <2>4 DEF TypeOK
<1>2. Pending = {} /\ Queued = {} /\ ~InCoro
  BY DEF Init, Pending, Queued, InCoro
<1>3. ScheduledOnce
  BY <1>2 DEF Init, ScheduledOnce, RunningExact, QueuedOnce
<1>4. AliveCoros = {} /\ AliveDaemons = {}
  BY DEF Init, AliveCoros, AliveDaemons, Alive
<1>5. AliveFinite /\ CountersExact
  BY <1>4, FS_EmptySet DEF Init, AliveFinite, CountersExact, AliveCoros, AliveDaemons
<1>6. ListsIdle /\ Blocked
  BY DEF Init, ListsIdle, Blocked, LiveSignals
<1> QED BY <1>1, <1>3, <1>5, <1>6 DEF IInv

\* The inductive invariant of the scheduler.
THEOREM Invariance == Spec => []IInv
<1>1. Init => IInv
  BY InitInvariant
<1>2. IInv /\ [Next]_vars => IInv'
  BY TypeStep, ScheduleStep, CountStep, ListsIdleStep, BlockedStep DEF IInv
<1> QED BY <1>1, <1>2, PTL DEF Spec

\* Every variable of the scheduler keeps its type; the two counters in
\* particular never go below zero when a coroutine is destroyed.
THEOREM TypeCorrect == Spec => []TypeOK
<1>1. IInv => TypeOK
  BY DEF IInv
<1> QED BY <1>1, Invariance, PTL

\* bio_loop resumes each READY coroutine once and never one that waits, runs or
\* is freed, whatever user code, timers, threads and I/O raise and when.
THEOREM ScheduledOnceCorrect == Spec => []ScheduledOnce
<1>1. IInv => ScheduledOnce
  BY DEF IInv
<1> QED BY <1>1, Invariance, PTL

\* num_coros and num_daemons, which decide when bio_loop returns, are exact.
THEOREM CountersCorrect == Spec => []CountersExact
<1>1. IInv => CountersExact
  BY DEF IInv
<1> QED BY <1>1, Invariance, PTL
-----------------------------------------------------------------------------
(***************************************************************************)
(* The second layer: what coroutines wait for, who is told of their death   *)
(* and how the program ends.  It rests on the invariant above.              *)
(***************************************************************************)
\* No array passed to bio_wait_for_signals holds a signal twice.
NoRepeats ==
    \A array \in WaitArrays : \A i, j \in DOMAIN array :
        array[i] = array[j] /\ array[i] # NoSignal => i = j

\* No signal carries the number of a wait that is yet to come.
Stamped == \A s \in LiveSignals : signal_counter[s] <= wait_counter[signal_owner[s]]

\* The wait of c is over no sooner than promised and, if no array repeats a signal,
\* no later.
Accounted(c) ==
    /\ Counted(c) = awaited[c] \cap LiveSignals
    /\ \A s \in awaited[c] : signal_state[s] # "unmade"
    /\ waits_for_all[c] =>
          /\ IsFiniteSet(Counted(c))
          /\ Cardinality(Counted(c)) <= num_blocking_signals[c]
          /\ NoRepeats => Cardinality(Counted(c)) = num_blocking_signals[c]
    /\ ~waits_for_all[c] =>
          /\ num_blocking_signals[c] = 1
          /\ awaited[c] \subseteq LiveSignals
          /\ awaited[c] # {}

Waits == Stamped /\ \A c \in Coro : coro_state[c] = "WAITING" => Accounted(c)

(***************************************************************************)
(* Steps by what they do to signals and waits.                              *)
(***************************************************************************)
waitVars == <<coro_state, num_blocking_signals, wait_counter, signal_state, signal_owner,
              signal_counter, awaited, waits_for_all>>

\* A live signal is raised.
Raised(s) ==
    /\ signal_state[s] = "live" /\ RaiseLive(s)
    /\ UNCHANGED <<wait_counter, signal_owner, signal_counter, awaited, waits_for_all>>

\* The actions that may raise one signal.
Raising ==
    \/ \E s \in Signal : bio_raise_signal(s)
    \/ \E c \in Coro, s \in Signal, m \in Monitor : bio_monitor(c, s, m)
    \/ TriggerMonitor
    \/ DispatchOne

\* The actions that do nothing to signals and waits.
Quiet ==
    \/ \E m \in Monitor : bio_unmonitor(m)
    \/ Return \/ EnterLoop \/ EndOfList \/ bio_handle_exit_signal \/ DispatchDone
    \/ SwapLists \/ bio_terminate \/ TerminateLoop \/ UNCHANGED vars

\* The actions that change the state of one coroutine that does not wait.
Moving ==
    \/ \E c \in Coro, is_daemon \in BOOLEAN : bio_spawn_ex(c, is_daemon)
    \/ bio_yield \/ Resume \/ DestroyCoro

Waiting ==
    \/ \E array \in WaitArrays, wait_all \in BOOLEAN : bio_wait_for_signals(array, wait_all)
    \/ \E s \in Signal : bio_wait_for_exit(s)

\* These, making a signal and destroying those of a dead coroutine are all there is.
LEMMA Kinds ==
    ASSUME [Next]_vars
    PROVE  \/ Raising \/ Quiet \/ Moving \/ Waiting
           \/ (\E s \in Signal : bio_make_signal(s)) \/ DestroySignals
BY DEF Next, UserCode, Suspend, Loop, Done, Raising, Quiet, Moving, Waiting

\* The coroutine bio_loop executes, or is about to.
LEMMA RunningFacts ==
    ASSUME IInv
    PROVE  /\ InCoro => Running \in Coro /\ coro_state[Running] = "RUNNING"
           /\ Resume => Running \in Coro /\ coro_state[Running] = "READY"
<1>0. TypeOK /\ ScheduledOnce /\ RunningExact
  BY DEF IInv, ScheduledOnce
<1>1. InCoro => Running \in Coro /\ coro_state[Running] = "RUNNING"
  BY <1>0 DEF RunningExact, Running, TypeOK
<1>2. ASSUME Resume PROVE Running \in Coro /\ coro_state[Running] = "READY"
  <2>1. coro_index \in DOMAIN current_ready_coros /\ Running \in Coro /\ ~InCoro
    BY <1>0, <1>2 DEF Resume, Running, TypeOK, InCoro
  <2>2. coro_index \in Pending
    BY <1>0, <2>1 DEF Pending, TypeOK
  <2>3. Running \in Queued
    BY <2>2 DEF Queued, Running
  <2> QED BY <1>0, <2>1, <2>3 DEF ScheduledOnce
<1> QED BY <1>1, <1>2

\* An action that may raise a signal raises one, or nothing happens to any.
LEMMA RaiseKinds ==
    ASSUME IInv, Raising
    PROVE  (\E s \in Signal : Raised(s)) \/ UNCHANGED waitVars
<1> USE DEF coroVars, signalVars, monitorVars, countVars, exitVars, auxVars
<1>0. TypeOK
  BY DEF IInv
<1>1. ASSUME NEW s \in Signal \cup {NoSignal}, RaiseEffect(s),
             UNCHANGED <<wait_counter, signal_owner, signal_counter, awaited, waits_for_all>>
      PROVE  (\E t \in Signal : Raised(t)) \/ UNCHANGED waitVars
  BY <1>1 DEF RaiseEffect, Raised, waitVars
<1>2. ASSUME NEW s \in Signal, bio_raise_signal(s)
      PROVE  Raised(s)
  BY <1>2 DEF bio_raise_signal, Raised, UnchangedByRaise
<1>3. ASSUME NEW c \in Coro, NEW s \in Signal, NEW m \in Monitor, bio_monitor(c, s, m)
      PROVE  (\E t \in Signal : Raised(t)) \/ UNCHANGED waitVars
  <2>0. UNCHANGED <<wait_counter, signal_owner, signal_counter, awaited, waits_for_all>>
    BY <1>3 DEF bio_monitor, UnchangedByRaise
  <2>1. CASE RaiseEffect(s)
    BY <1>1, <2>0, <2>1
  <2>2. CASE UNCHANGED <<signal_state, num_blocking_signals, next_ready_coros, coro_state>>
    BY <2>0, <2>2 DEF waitVars
  <2> QED BY <1>3, <2>1, <2>2 DEF bio_monitor
<1>4. CASE TriggerMonitor
  <2>1. Running \in Coro
    BY <1>4, RunningFacts DEF TriggerMonitor, InCoro
  <2>2. Head(monitors[Running]) \in Monitor
    BY <1>0, <1>4, <2>1, HeadTailProperties DEF TriggerMonitor, TypeOK
  <2> DEFINE s == monitor_signal[Head(monitors[Running])]
  <2>3. /\ s \in Signal \cup {NoSignal} /\ RaiseEffect(s)
        /\ UNCHANGED <<wait_counter, signal_owner, signal_counter, awaited, waits_for_all>>
    BY <1>0, <1>4, <2>2 DEF TriggerMonitor, UnchangedByRaise, TypeOK
  <2> HIDE DEF s
  <2> QED BY <1>1, <2>3
<1>5. CASE DispatchOne
  <2>1. Head(exit_handlers) \in Signal
    BY <1>0, <1>5, HeadTailProperties DEF DispatchOne, TypeOK
  <2>2. /\ RaiseEffect(Head(exit_handlers))
        /\ UNCHANGED <<wait_counter, signal_owner, signal_counter, awaited, waits_for_all>>
    BY <1>5 DEF DispatchOne
  <2> QED BY <1>1, <2>1, <2>2
<1> QED BY <1>2, <1>3, <1>4, <1>5 DEF Raising

\* The quiet actions are quiet.
LEMMA QuietFacts ==
    ASSUME Quiet
    PROVE  UNCHANGED waitVars
BY DEF Quiet, bio_unmonitor, Return, EnterLoop, EndOfList, bio_handle_exit_signal,
       DispatchDone, SwapLists, bio_terminate, TerminateLoop, vars, waitVars,
       coroVars, signalVars, monitorVars, countVars, exitVars, auxVars

\* A coroutine that moves did not wait, and its signals stay what they are.
LEMMA MoveFacts ==
    ASSUME IInv, Moving
    PROVE  /\ UNCHANGED <<signal_state, signal_owner, signal_counter, wait_counter, awaited,
                          waits_for_all>>
           /\ \E c \in Coro :
                 /\ coro_state[c] # "WAITING" /\ coro_state'[c] # "WAITING"
                 /\ \A d \in Coro \ {c} : /\ coro_state'[d] = coro_state[d]
                                          /\ num_blocking_signals'[d] = num_blocking_signals[d]
                 /\ coro_state[c] \in Alive /\ coro_state'[c] \notin Alive =>
                       DestroyCoro /\ c = Running
<1> USE DEF coroVars, signalVars, monitorVars, countVars, exitVars, auxVars
<1>0. TypeOK
  BY DEF IInv
<1>1. UNCHANGED <<signal_state, signal_owner, signal_counter, wait_counter, awaited,
                  waits_for_all>>
  BY DEF Moving, bio_spawn_ex, bio_yield, Resume, DestroyCoro
<1>2. ASSUME NEW c \in Coro, NEW is_daemon \in BOOLEAN, bio_spawn_ex(c, is_daemon)
      PROVE  /\ coro_state[c] # "WAITING" /\ coro_state'[c] # "WAITING"
             /\ \A d \in Coro \ {c} : /\ coro_state'[d] = coro_state[d]
                                      /\ num_blocking_signals'[d] = num_blocking_signals[d]
             /\ coro_state[c] \notin Alive
  BY <1>0, <1>2 DEF bio_spawn_ex, TypeOK, Alive
<1>3. CASE bio_yield \/ Resume
  <2>1. Running \in Coro /\ coro_state[Running] \in {"RUNNING", "READY"}
    BY <1>3, RunningFacts DEF bio_yield, InCoro
  <2>2. /\ coro_state'[Running] \in {"RUNNING", "READY"}
        /\ \A d \in Coro \ {Running} : /\ coro_state'[d] = coro_state[d]
                                       /\ num_blocking_signals'[d] = num_blocking_signals[d]
    BY <1>0, <1>3, <2>1 DEF bio_yield, Resume, TypeOK
  <2> QED BY <1>1, <2>1, <2>2 DEF Alive
<1>4. CASE DestroyCoro
  <2>1. Running \in Coro /\ coro_state[Running] = "RUNNING"
    BY <1>4, RunningFacts DEF DestroyCoro, InCoro
  <2>2. /\ coro_state'[Running] = "DEAD"
        /\ \A d \in Coro \ {Running} : /\ coro_state'[d] = coro_state[d]
                                       /\ num_blocking_signals'[d] = num_blocking_signals[d]
    BY <1>0, <1>4, <2>1 DEF DestroyCoro, TypeOK
  <2> QED BY <1>1, <1>4, <2>1, <2>2 DEF Alive
<1> QED BY <1>1, <1>2, <1>3, <1>4 DEF Moving
-----------------------------------------------------------------------------
(***************************************************************************)
(* The owners of live signals.                                              *)
(***************************************************************************)
\* No signal is made, nobody dies and nobody's monitors begin to fire.
LEMMA OwnersKept ==
    ASSUME SignalsHaveLivingOwner, LiveSignals' \subseteq LiveSignals, UNCHANGED signal_owner,
           \A c \in Coro : coro_state[c] \in Alive => coro_state'[c] \in Alive,
           pc' # "monitors" \/ UNCHANGED <<pc, current_ready_coros, coro_index>>
    PROVE  SignalsHaveLivingOwner'
BY DEF SignalsHaveLivingOwner, Running

\* A signal dies no later than its owner.
LEMMA OwnerStep ==
    ASSUME IInv, SignalsHaveLivingOwner, [Next]_vars
    PROVE  SignalsHaveLivingOwner'
<1> USE DEF coroVars, signalVars, monitorVars, countVars, exitVars, auxVars
<1>0. TypeOK /\ Blocked
  BY DEF IInv
<1>1. CASE Raising
  <2>1. UNCHANGED <<pc, current_ready_coros, coro_index>>
    BY <1>1 DEF Raising, bio_raise_signal, bio_monitor, TriggerMonitor, DispatchOne,
                UnchangedByRaise
  <2>2. CASE UNCHANGED waitVars
    BY <2>1, <2>2, OwnersKept DEF waitVars, LiveSignals
  <2>3. ASSUME NEW s \in Signal, Raised(s)
        PROVE  SignalsHaveLivingOwner'
    BY <1>0, <2>1, <2>3, RaiseFacts, OwnersKept DEF Raised
  <2> QED BY <1>1, <2>2, <2>3, RaiseKinds
<1>2. CASE Quiet
  <2>1. pc' # "monitors" \/ UNCHANGED <<pc, current_ready_coros, coro_index>>
    BY <1>2 DEF Quiet, bio_unmonitor, Return, EnterLoop, EndOfList, bio_handle_exit_signal,
                DispatchDone, SwapLists, bio_terminate, TerminateLoop, vars
  <2> QED BY <1>2, <2>1, QuietFacts, OwnersKept DEF waitVars, LiveSignals
<1>3. CASE Moving
  <2>1. PICK c \in Coro :
             /\ \A d \in Coro \ {c} : coro_state'[d] = coro_state[d]
             /\ coro_state[c] \in Alive /\ coro_state'[c] \notin Alive =>
                   DestroyCoro /\ c = Running
    BY <1>3, MoveFacts
  <2>2. UNCHANGED <<signal_state, signal_owner>> /\ LiveSignals' = LiveSignals
    BY <1>3, MoveFacts DEF LiveSignals
  <2>3. pc' # "monitors" \/ UNCHANGED <<pc, current_ready_coros, coro_index>>
    BY <1>3 DEF Moving, bio_spawn_ex, bio_yield, Resume, DestroyCoro, SwitchToLoop
  <2>4. CASE DestroyCoro /\ c = Running
    <3>1. pc = "monitors" /\ pc' = "run"
      BY <2>4 DEF DestroyCoro, SwitchToLoop
    <3> QED BY <2>1, <2>2, <2>4, <3>1 DEF SignalsHaveLivingOwner
  <2>5. CASE coro_state[c] \in Alive => coro_state'[c] \in Alive
    BY <2>1, <2>2, <2>3, <2>5, OwnersKept
  <2> QED BY <2>1, <2>4, <2>5
<1>4. CASE Waiting
  <2>1. InCoro /\ Running \in Coro
    BY <1>4, RunningFacts DEF Waiting, bio_wait_for_signals, bio_wait_for_exit, InCoro
  <2>2. /\ pc' # "monitors"
        /\ \A c \in Coro : coro_state[c] \in Alive => coro_state'[c] \in Alive
    BY <1>0, <1>4, <2>1, SMTT(60)
    DEF Waiting, bio_wait_for_signals, bio_wait_for_exit, Block, SwitchToLoop, TypeOK, Alive
  <2>3. CASE UNCHANGED <<signal_state, signal_owner>>
    BY <2>2, <2>3, OwnersKept DEF LiveSignals
  <2>4. ASSUME NEW s \in Signal, bio_wait_for_exit(s)
        PROVE  SignalsHaveLivingOwner'
    <3>1. signal_owner'[s] = Running /\ coro_state[Running] \in Alive
      BY <1>0, <2>1, <2>4, RunningFacts DEF bio_wait_for_exit, TypeOK, Alive
    <3>2. \A t \in LiveSignals' : t # s => t \in LiveSignals /\ signal_owner'[t] = signal_owner[t]
      BY <1>0, <2>4 DEF bio_wait_for_exit, TypeOK, LiveSignals
    <3> QED BY <2>1, <2>2, <3>1, <3>2 DEF SignalsHaveLivingOwner
  <2> QED BY <1>4, <2>3, <2>4 DEF Waiting, bio_wait_for_signals
<1>5. ASSUME NEW s \in Signal, bio_make_signal(s)
      PROVE  SignalsHaveLivingOwner'
  <2>1. /\ pc' = "coro" /\ UNCHANGED coro_state
        /\ Running \in Coro /\ coro_state[Running] \in Alive
    BY <1>5, RunningFacts DEF bio_make_signal, InCoro, Alive
  <2>2. /\ signal_owner'[s] = Running
        /\ \A t \in LiveSignals' : t # s => t \in LiveSignals /\ signal_owner'[t] = signal_owner[t]
    BY <1>0, <1>5 DEF bio_make_signal, TypeOK, LiveSignals
  <2> QED BY <2>1, <2>2 DEF SignalsHaveLivingOwner
<1>6. CASE DestroySignals
  <2>1. /\ UNCHANGED <<coro_state, signal_owner, current_ready_coros, coro_index>>
        /\ signal_state' = PendingSignalsClosed
    BY <1>6 DEF DestroySignals
  <2>2. LiveSignals' \subseteq LiveSignals /\ \A s \in LiveSignals' : signal_owner[s] # Running
    BY <1>0, <2>1 DEF PendingSignalsClosed, LiveSignals, TypeOK
  <2> QED BY <2>1, <2>2 DEF SignalsHaveLivingOwner, Running
<1> QED BY <1>1, <1>2, <1>3, <1>4, <1>5, <1>6, Kinds
-----------------------------------------------------------------------------
(***************************************************************************)
(* The account of each wait.                                                *)
(***************************************************************************)
\* What a step must leave alone so that the wait of c is as it was.
WaitKept(c) ==
    /\ num_blocking_signals'[c] = num_blocking_signals[c]
    /\ wait_counter'[c] = wait_counter[c]
    /\ awaited'[c] = awaited[c]
    /\ waits_for_all'[c] = waits_for_all[c]
    /\ Counted(c) \subseteq LiveSignals'
    /\ \A s \in LiveSignals' \cap LiveSignals :
          /\ signal_owner'[s] = signal_owner[s]
          /\ signal_owner[s] = c => signal_counter'[s] = signal_counter[s]
    /\ \A s \in LiveSignals' \ LiveSignals : signal_state[s] = "unmade" /\ signal_owner'[s] # c
    /\ \A s \in Signal : signal_state[s] # "unmade" => signal_state'[s] # "unmade"

\* Then its account is right as well.
LEMMA AccountKept ==
    ASSUME TypeOK, NEW c \in Coro, Accounted(c), WaitKept(c)
    PROVE  Accounted(c)'
<1>0. awaited[c] \subseteq Signal /\ LiveSignals \subseteq Signal /\ LiveSignals' \subseteq Signal
  BY DEF TypeOK, LiveSignals
<1>1. Counted(c)' = Counted(c)
  <2>1. Counted(c) \subseteq Counted(c)'
    BY DEF WaitKept, Counted
  <2>2. Counted(c)' \subseteq Counted(c)
    BY DEF WaitKept, Counted
  <2> QED BY <2>1, <2>2
<1>2. awaited[c] \cap LiveSignals' = awaited[c] \cap LiveSignals
  <2>1. awaited[c] \cap LiveSignals \subseteq LiveSignals'
    BY DEF WaitKept, Accounted
  <2>2. ASSUME NEW s \in awaited[c] \cap LiveSignals', s \notin LiveSignals
        PROVE  FALSE
    BY <2>2 DEF WaitKept, Accounted
  <2> QED BY <2>1, <2>2
<1>3. \A s \in awaited[c] : signal_state'[s] # "unmade"
  BY <1>0 DEF WaitKept, Accounted
<1> QED BY <1>1, <1>2, <1>3 DEF WaitKept, Accounted

\* A wait that begins counts the signals that carry its number.
LEMMA NewCounted ==
    ASSUME TypeOK, Blocked, Stamped, NEW r \in Coro, NEW own \in SUBSET Signal,
           \A s \in own : /\ s \in LiveSignals' /\ signal_owner'[s] = r
                          /\ signal_counter'[s] = NextCounter(r),
           \A s \in LiveSignals' \ own : /\ s \in LiveSignals
                                         /\ signal_owner'[s] = signal_owner[s]
                                         /\ signal_counter'[s] = signal_counter[s],
           wait_counter' = [wait_counter EXCEPT ![r] = NextCounter(r)]
    PROVE  Counted(r)' = own /\ Stamped'
<1>1. /\ wait_counter \in [Coro -> Nat] /\ signal_counter \in [Signal -> Int]
      /\ signal_owner \in [Signal -> Coro \cup {NoCoro}] /\ LiveSignals \subseteq Signal
      /\ \A s \in LiveSignals : signal_counter[s] <= wait_counter[signal_owner[s]]
  BY DEF TypeOK, LiveSignals, Stamped
<1>2. /\ wait_counter'[r] = wait_counter[r] + 1 /\ wait_counter[r] \in Nat
      /\ NextCounter(r) = wait_counter[r] + 1
      /\ \A c \in Coro \ {r} : wait_counter'[c] = wait_counter[c]
  BY <1>1 DEF NextCounter
<1>3. ASSUME NEW s \in LiveSignals' \ own
      PROVE  /\ signal_owner'[s] = r => signal_counter'[s] # wait_counter'[r]
             /\ signal_counter'[s] <= wait_counter'[signal_owner'[s]]
  <2>1. /\ s \in LiveSignals /\ signal_counter[s] \in Int
        /\ signal_owner'[s] = signal_owner[s] /\ signal_counter'[s] = signal_counter[s]
        /\ signal_counter[s] <= wait_counter[signal_owner[s]]
    BY <1>1, <1>3
  <2>2. CASE signal_owner[s] = r
    BY <1>2, <2>1, <2>2
  <2>3. CASE signal_owner[s] # r
    <3>1. wait_counter'[signal_owner[s]] = wait_counter[signal_owner[s]]
      BY <1>2, <2>1, <2>3 DEF Blocked
    <3> QED BY <2>1, <2>3, <3>1
  <2> QED BY <2>2, <2>3
<1>4. Counted(r)' = own
  BY <1>2, <1>3 DEF Counted, LiveSignals
<1>5. Stamped'
  <2> SUFFICES ASSUME NEW s \in LiveSignals'
               PROVE  signal_counter'[s] <= wait_counter'[signal_owner'[s]]
    BY DEF Stamped
  <2> QED BY <1>2, <1>3
<1> QED BY <1>4, <1>5

\* A raise is counted against the wait it belongs to, and no other.
LEMMA RaiseAccount ==
    ASSUME IInv, Waits, NEW s \in Signal, Raised(s)
    PROVE  Waits'
<1>a. /\ TypeOK /\ Blocked /\ Stamped
      /\ \A c \in Coro : coro_state[c] = "WAITING" => Accounted(c)
      /\ s \in LiveSignals
  BY DEF IInv, Waits, Raised, LiveSignals
<1>b. PICK o \in Coro : o = signal_owner[s]
  BY <1>a DEF Blocked
<1>0. /\ TypeOK /\ Blocked /\ Stamped
      /\ \A c \in Coro : coro_state[c] = "WAITING" => Accounted(c)
      /\ s \in LiveSignals /\ o = signal_owner[s]
  BY <1>a, <1>b
<1>1. /\ LiveSignals' = LiveSignals \ {s}
      /\ \A t \in Signal : signal_state[t] # "unmade" => signal_state'[t] # "unmade"
      /\ UNCHANGED <<wait_counter, signal_owner, signal_counter, awaited, waits_for_all>>
  BY <1>0 DEF Raised, RaiseLive, LiveSignals, TypeOK
<1>2. Stamped'
  BY <1>0, <1>1 DEF Stamped
<1>3. \A c \in Coro \ {o} : /\ coro_state'[c] = coro_state[c]
                            /\ num_blocking_signals'[c] = num_blocking_signals[c]
  BY <1>0 DEF Raised, RaiseLive, TypeOK
<1>4. ASSUME NEW c \in Coro \ {o}, coro_state'[c] = "WAITING"
      PROVE  Accounted(c)'
  <2>1. s \notin Counted(c) /\ Counted(c) \subseteq LiveSignals
    BY <1>0, <1>4 DEF Counted
  <2>2. WaitKept(c)
    BY <1>1, <1>3, <1>4, <2>1 DEF WaitKept
  <2> QED BY <1>0, <1>3, <1>4, <2>2, AccountKept
<1>5. ASSUME coro_state'[o] = "WAITING"
      PROVE  Accounted(o)'
  <2>1. coro_state[o] = "WAITING"
    BY <1>0, <1>5 DEF Raised, RaiseLive, TypeOK
  <2>2. CASE ~ConcernsWait(s)
    <3>1. s \notin Counted(o) /\ Counted(o) \subseteq LiveSignals
      BY <1>0, <2>1, <2>2 DEF ConcernsWait, Counted
    <3>2. UNCHANGED num_blocking_signals
      BY <2>2 DEF Raised, RaiseLive
    <3>3. WaitKept(o)
      BY <1>1, <3>1, <3>2 DEF WaitKept
    <3> QED BY <1>0, <2>1, <3>3, AccountKept
  <2>3. CASE ConcernsWait(s)
    <3>1. s \in Counted(o)
      BY <1>0, <2>3 DEF ConcernsWait, Counted
    <3>2. /\ num_blocking_signals' = [num_blocking_signals EXCEPT ![o] = @ - 1]
          /\ num_blocking_signals[o] # 1
      <4>1. num_blocking_signals[o] = 1 => coro_state' = [coro_state EXCEPT ![o] = "READY"]
        BY <1>0, <2>3 DEF Raised, RaiseLive
      <4>2. num_blocking_signals[o] # 1
        BY <1>0, <1>5, <4>1 DEF TypeOK
      <4> QED BY <1>0, <2>3, <4>2 DEF Raised, RaiseLive
    <3>3. num_blocking_signals'[o] = num_blocking_signals[o] - 1 /\ num_blocking_signals[o] \in Nat
      BY <1>0, <3>2 DEF TypeOK
    <3>4. /\ Accounted(o) /\ waits_for_all[o]
          /\ IsFiniteSet(Counted(o))
          /\ Cardinality(Counted(o)) <= num_blocking_signals[o]
          /\ NoRepeats => Cardinality(Counted(o)) = num_blocking_signals[o]
      BY <1>0, <2>1, <3>2 DEF Accounted
    <3>5. Counted(o)' = Counted(o) \ {s}
      BY <1>1 DEF Counted
    <3>6. /\ IsFiniteSet(Counted(o)') /\ Cardinality(Counted(o)) \in Nat
          /\ Cardinality(Counted(o)') = Cardinality(Counted(o)) - 1
      BY <3>1, <3>4, <3>5, FS_RemoveElement, FS_CardinalityType
    <3>7. /\ Cardinality(Counted(o)') <= num_blocking_signals'[o]
          /\ NoRepeats => Cardinality(Counted(o)') = num_blocking_signals'[o]
      BY <3>3, <3>4, <3>6
    <3>8. /\ Counted(o)' = awaited[o] \cap LiveSignals'
          /\ \A t \in awaited[o] : signal_state'[t] # "unmade"
      <4>1. awaited[o] \subseteq Signal
        BY <1>0 DEF TypeOK
      <4> QED BY <1>1, <3>4, <3>5, <4>1 DEF Accounted
    <3> QED BY <1>1, <3>4, <3>6, <3>7, <3>8 DEF Accounted
  <2> QED BY <2>2, <2>3
<1> QED BY <1>2, <1>4, <1>5 DEF Waits

\* A step whose waiting coroutines all waited before, and were left alone.
LEMMA WaitsKept ==
    ASSUME TypeOK, Waits, Stamped',
           \A c \in Coro : coro_state'[c] = "WAITING" => coro_state[c] = "WAITING" /\ WaitKept(c)
    PROVE  Waits'
<1> SUFFICES ASSUME NEW c \in Coro, coro_state'[c] = "WAITING"
             PROVE  Accounted(c)'
  BY DEF Waits
<1> QED BY AccountKept DEF Waits

\* The distinct signals behind the entries of an array.
LEMMA EntriesCount ==
    ASSUME NEW array \in WaitArrays, NEW entries \in SUBSET DOMAIN array,
           NEW own, own = {array[i] : i \in entries},
           \A i \in entries : array[i] # NoSignal
    PROVE  /\ IsFiniteSet(own) /\ IsFiniteSet(entries) /\ Cardinality(entries) \in Nat
           /\ Cardinality(own) <= Cardinality(entries)
           /\ NoRepeats => Cardinality(own) = Cardinality(entries)
           /\ Cardinality(entries) > 0 => own # {}
<1> DEFINE f == [i \in entries |-> array[i]]
<1>1. DOMAIN array = 1 .. Len(array) /\ Len(array) \in Nat
  BY WaitArraysAssumption, LenProperties
<1>2. IsFiniteSet(entries) /\ Cardinality(entries) \in Nat
  <2>1. IsFiniteSet(1 .. Len(array))
    BY <1>1, FS_Interval
  <2>2. IsFiniteSet(entries)
    BY <1>1, <2>1, FS_Subset
  <2> QED BY <2>2, FS_CardinalityType
<1>3. f \in Surjection(entries, own)
  BY DEF Surjection
<1>4. ASSUME NoRepeats PROVE f \in Injection(entries, own)
  <2>1. f \in [entries -> own]
    OBVIOUS
  <2>2. ASSUME NEW i \in entries, NEW j \in entries, f[i] = f[j]
        PROVE  i = j
    <3>1. i \in DOMAIN array /\ j \in DOMAIN array /\ array[i] = array[j] /\ array[i] # NoSignal
      BY <2>2
    <3> QED BY <1>4, <3>1 DEF NoRepeats
  <2> QED BY <2>1, <2>2 DEF Injection, IsInjective
<1> HIDE DEF f
<1>5. /\ IsFiniteSet(own)
      /\ Cardinality(own) <= Cardinality(entries)
      /\ Cardinality(own) = Cardinality(entries) <=> f \in Injection(entries, own)
  BY <1>2, <1>3, FS_Surjection
<1>6. Cardinality(entries) > 0 => own # {}
  <2>1. Cardinality(entries) > 0 => entries # {}
    BY <1>2, FS_EmptySet
  <2> QED BY <2>1
<1> QED BY <1>2, <1>4, <1>5, <1>6

\* A call of bio_wait_for_signals begins a wait with its own account, or returns.
LEMMA WaitAccount ==
    ASSUME IInv, Waits, NEW array \in WaitArrays, NEW wait_all \in BOOLEAN,
           bio_wait_for_signals(array, wait_all)
    PROVE  Waits'
<1>0. TypeOK /\ Blocked /\ Stamped
  BY DEF IInv, Waits
<1>1. PICK r \in Coro : r = Running /\ coro_state[r] = "RUNNING"
  BY RunningFacts DEF bio_wait_for_signals, InCoro
<1>2. PICK entries \in SUBSET DOMAIN array : entries = OwnEntries(array)
  BY DEF OwnEntries
<1>3. PICK own \in SUBSET Signal : own = {array[i] : i \in entries}
  <2>1. \A i \in DOMAIN array : array[i] \in Signal \cup {NoSignal}
    BY WaitArraysAssumption, ElementOfSeq
  <2>2. {array[i] : i \in entries} \subseteq Signal
    BY <1>2, <2>1 DEF OwnEntries
  <2> QED BY <2>2
<1>4. \A s \in own : s \in LiveSignals /\ signal_owner[s] = r
  BY <1>1, <1>2, <1>3 DEF OwnEntries, LiveSignals
<1>5. /\ IsFiniteSet(own) /\ Cardinality(entries) \in Nat
      /\ Cardinality(own) <= Cardinality(entries)
      /\ NoRepeats => Cardinality(own) = Cardinality(entries)
      /\ Cardinality(entries) > 0 => own # {}
  BY <1>2, <1>3, EntriesCount DEF OwnEntries
<1>6. /\ wait_counter' = [wait_counter EXCEPT ![r] = NextCounter(r)]
      /\ signal_counter' = [s \in Signal |-> IF s \in own THEN NextCounter(r) ELSE signal_counter[s]]
      /\ UNCHANGED <<signal_state, signal_owner>>
  BY <1>1, <1>2, <1>3 DEF bio_wait_for_signals
<1>7. LiveSignals' = LiveSignals /\ LiveSignals \subseteq Signal
  BY <1>6 DEF LiveSignals
<1>8. Counted(r)' = own /\ Stamped'
  <2>1. \A s \in own : /\ s \in LiveSignals' /\ signal_owner'[s] = r
                       /\ signal_counter'[s] = NextCounter(r)
    BY <1>4, <1>6, <1>7
  <2>2. \A s \in LiveSignals' \ own : /\ s \in LiveSignals
                                      /\ signal_owner'[s] = signal_owner[s]
                                      /\ signal_counter'[s] = signal_counter[s]
    BY <1>6, <1>7
  <2> QED BY <1>0, <1>6, <2>1, <2>2, NewCounted
<1>9. ASSUME NEW c \in Coro \ {r},
             num_blocking_signals'[c] = num_blocking_signals[c],
             awaited'[c] = awaited[c], waits_for_all'[c] = waits_for_all[c]
      PROVE  WaitKept(c)
  <2>1. wait_counter'[c] = wait_counter[c]
    BY <1>0, <1>6 DEF TypeOK
  <2>2. \A s \in LiveSignals : signal_owner[s] = c => signal_counter'[s] = signal_counter[s]
    BY <1>4, <1>6, <1>7
  <2> QED BY <1>6, <1>7, <1>9, <2>1, <2>2 DEF WaitKept, Counted
<1>10. CASE UNCHANGED <<coro_state, num_blocking_signals, awaited, waits_for_all>>
  <2>1. \A c \in Coro : coro_state'[c] = "WAITING" => c \in Coro \ {r} /\ coro_state[c] = "WAITING"
    BY <1>1, <1>10
  <2>2. \A c \in Coro : coro_state'[c] = "WAITING" => WaitKept(c)
    BY <1>9, <1>10, <2>1
  <2> QED BY <1>0, <1>8, <2>1, <2>2, WaitsKept
<1>11. CASE /\ Cardinality(entries) > 0
            /\ Block(IF wait_all THEN Cardinality(entries) ELSE 1, own, wait_all)
  <2>1. /\ num_blocking_signals'[r] = (IF wait_all THEN Cardinality(entries) ELSE 1)
        /\ awaited'[r] = own /\ waits_for_all'[r] = wait_all
        /\ \A c \in Coro \ {r} : /\ num_blocking_signals'[c] = num_blocking_signals[c]
                                 /\ coro_state'[c] = coro_state[c]
                                 /\ awaited'[c] = awaited[c]
                                 /\ waits_for_all'[c] = waits_for_all[c]
    BY <1>0, <1>1, <1>11 DEF Block, TypeOK
  <2>2. Accounted(r)'
    <3>1. Counted(r)' = own /\ own = own \cap LiveSignals' /\ own \subseteq LiveSignals'
      BY <1>4, <1>7, <1>8
    <3>2. \A s \in own : signal_state'[s] # "unmade"
      BY <1>4, <1>6 DEF LiveSignals
    <3>3. CASE wait_all
      BY <1>5, <2>1, <3>1, <3>2, <3>3 DEF Accounted
    <3>4. CASE ~wait_all
      BY <1>5, <1>11, <2>1, <3>1, <3>2, <3>4 DEF Accounted
    <3> QED BY <3>3, <3>4
  <2>3. ASSUME NEW c \in Coro \ {r}, coro_state'[c] = "WAITING"
        PROVE  Accounted(c)'
    BY <1>0, <1>9, <2>1, <2>3, AccountKept DEF Waits
  <2> QED BY <1>8, <2>2, <2>3 DEF Waits
<1> QED BY <1>2, <1>3, <1>10, <1>11 DEF bio_wait_for_signals

\* bio_wait_for_exit begins a wait for one new signal.
LEMMA ExitAccount ==
    ASSUME IInv, Waits, NEW s \in Signal, bio_wait_for_exit(s)
    PROVE  Waits'
<1>0. TypeOK /\ Blocked /\ Stamped
  BY DEF IInv, Waits
<1>1. PICK r \in Coro : r = Running /\ coro_state[r] = "RUNNING"
  BY RunningFacts DEF bio_wait_for_exit, InCoro
<1>2. /\ signal_state[s] = "unmade"
      /\ signal_state' = [signal_state EXCEPT ![s] = "live"]
      /\ signal_owner' = [signal_owner EXCEPT ![s] = r]
      /\ signal_counter' = [signal_counter EXCEPT ![s] = NextCounter(r)]
      /\ wait_counter' = [wait_counter EXCEPT ![r] = NextCounter(r)]
  BY <1>1 DEF bio_wait_for_exit
<1>3. /\ LiveSignals' = LiveSignals \cup {s} /\ s \notin LiveSignals
      /\ signal_owner'[s] = r /\ signal_counter'[s] = NextCounter(r)
      /\ \A t \in LiveSignals : /\ signal_owner'[t] = signal_owner[t]
                                /\ signal_counter'[t] = signal_counter[t]
      /\ \A t \in Signal : signal_state[t] # "unmade" => signal_state'[t] # "unmade"
      /\ signal_state'[s] # "unmade"
  BY <1>0, <1>2 DEF LiveSignals, TypeOK
<1>4. Counted(r)' = {s} /\ Stamped'
  <2>1. {s} \in SUBSET Signal
    OBVIOUS
  <2>2. \A t \in {s} : /\ t \in LiveSignals' /\ signal_owner'[t] = r
                       /\ signal_counter'[t] = NextCounter(r)
    BY <1>3
  <2>3. \A t \in LiveSignals' \ {s} : /\ t \in LiveSignals
                                      /\ signal_owner'[t] = signal_owner[t]
                                      /\ signal_counter'[t] = signal_counter[t]
    BY <1>3
  <2> QED BY <1>0, <1>2, <2>1, <2>2, <2>3, NewCounted
<1>5. /\ num_blocking_signals'[r] = 1 /\ awaited'[r] = {s} /\ waits_for_all'[r] = TRUE
      /\ \A c \in Coro \ {r} : /\ num_blocking_signals'[c] = num_blocking_signals[c]
                               /\ coro_state'[c] = coro_state[c]
                               /\ awaited'[c] = awaited[c]
                               /\ waits_for_all'[c] = waits_for_all[c]
                               /\ wait_counter'[c] = wait_counter[c]
  BY <1>0, <1>1, <1>2 DEF bio_wait_for_exit, Block, TypeOK
<1>6. Accounted(r)'
  <2>1. Counted(r)' = awaited'[r] \cap LiveSignals' /\ \A t \in awaited'[r] : signal_state'[t] # "unmade"
    BY <1>3, <1>4, <1>5
  <2>2. IsFiniteSet(Counted(r)') /\ Cardinality(Counted(r)') = 1
    BY <1>4, FS_Singleton
  <2> QED BY <1>5, <2>1, <2>2 DEF Accounted
<1>7. ASSUME NEW c \in Coro \ {r}, coro_state'[c] = "WAITING"
      PROVE  Accounted(c)'
  <2>1. WaitKept(c)
    BY <1>2, <1>3, <1>5, <1>7 DEF WaitKept, Counted
  <2> QED BY <1>0, <1>5, <1>7, <2>1, AccountKept DEF Waits
<1> QED BY <1>4, <1>6, <1>7 DEF Waits

\* Every action keeps the account of every wait.
LEMMA WaitsStep ==
    ASSUME IInv, Waits, [Next]_vars
    PROVE  Waits'
<1>0. TypeOK /\ Stamped /\ \A c \in Coro : coro_state[c] = "WAITING" => Accounted(c)
  BY DEF IInv, Waits
<1>1. ASSUME UNCHANGED <<wait_counter, signal_state, signal_owner, signal_counter, awaited,
                         waits_for_all>>,
             \A c \in Coro : coro_state'[c] = "WAITING" =>
                 /\ coro_state[c] = "WAITING"
                 /\ num_blocking_signals'[c] = num_blocking_signals[c]
      PROVE  Waits'
  <2>1. LiveSignals' = LiveSignals /\ Stamped'
    BY <1>0, <1>1 DEF LiveSignals, Stamped
  <2>2. \A c \in Coro : coro_state'[c] = "WAITING" => WaitKept(c)
    BY <1>1, <2>1 DEF WaitKept, Counted
  <2> QED BY <1>0, <1>1, <2>1, <2>2, WaitsKept
<1>2. CASE UNCHANGED waitVars
  BY <1>1, <1>2 DEF waitVars
<1>3. CASE Raising
  BY <1>2, <1>3, RaiseKinds, RaiseAccount
<1>4. CASE Quiet
  BY <1>2, <1>4, QuietFacts
<1>5. CASE Moving
  <2>1. PICK c \in Coro : /\ coro_state'[c] # "WAITING"
                          /\ \A d \in Coro \ {c} :
                                /\ coro_state'[d] = coro_state[d]
                                /\ num_blocking_signals'[d] = num_blocking_signals[d]
    BY <1>5, MoveFacts
  <2>2. \A d \in Coro : coro_state'[d] = "WAITING" =>
            /\ coro_state[d] = "WAITING"
            /\ num_blocking_signals'[d] = num_blocking_signals[d]
    BY <2>1
  <2> QED BY <1>1, <1>5, <2>2, MoveFacts
<1>6. CASE Waiting
  BY <1>6, WaitAccount, ExitAccount DEF Waiting
<1>7. ASSUME NEW s \in Signal, bio_make_signal(s)
      PROVE  Waits'
  <2> USE DEF coroVars, signalVars, monitorVars, countVars, exitVars, auxVars
  <2>1. PICK r \in Coro : r = Running /\ coro_state[r] = "RUNNING"
    BY <1>7, RunningFacts DEF bio_make_signal, InCoro
  <2>2. /\ UNCHANGED <<coro_state, num_blocking_signals, wait_counter, awaited, waits_for_all>>
        /\ signal_state[s] = "unmade"
        /\ signal_state' = [signal_state EXCEPT ![s] = "live"]
        /\ signal_owner' = [signal_owner EXCEPT ![s] = r]
        /\ signal_counter' = [signal_counter EXCEPT ![s] = wait_counter[r] - 1]
    BY <1>7, <2>1 DEF bio_make_signal
  <2>3. /\ LiveSignals' = LiveSignals \cup {s} /\ s \notin LiveSignals
        /\ signal_owner'[s] = r /\ signal_counter'[s] = wait_counter[r] - 1
        /\ \A t \in LiveSignals : /\ signal_owner'[t] = signal_owner[t]
                                  /\ signal_counter'[t] = signal_counter[t]
        /\ \A t \in Signal : signal_state[t] # "unmade" => signal_state'[t] # "unmade"
    BY <1>0, <2>2 DEF LiveSignals, TypeOK
  <2>4. Stamped'
    <3>1. wait_counter[r] \in Nat
      BY <1>0 DEF TypeOK
    <3>2. wait_counter[r] - 1 <= wait_counter[r]
      BY <3>1
    <3> QED BY <1>0, <2>2, <2>3, <3>2 DEF Stamped
  <2>5. \A c \in Coro : coro_state'[c] = "WAITING" => coro_state[c] = "WAITING" /\ WaitKept(c)
    BY <2>1, <2>2, <2>3 DEF WaitKept, Counted
  <2> QED BY <1>0, <2>4, <2>5, WaitsKept
<1>8. CASE DestroySignals
  <2> USE DEF coroVars, signalVars, monitorVars, countVars, exitVars, auxVars
  <2>1. PICK r \in Coro : r = Running /\ coro_state[r] = "RUNNING"
    BY <1>8, RunningFacts DEF DestroySignals, InCoro
  <2>2. UNCHANGED <<coro_state, num_blocking_signals, wait_counter, signal_owner,
                    signal_counter, awaited, waits_for_all>>
    BY <1>8 DEF DestroySignals
  <2>3. /\ LiveSignals' = {s \in LiveSignals : signal_owner[s] # r}
        /\ \A t \in Signal : signal_state[t] # "unmade" => signal_state'[t] # "unmade"
    BY <1>0, <1>8, <2>1 DEF DestroySignals, PendingSignalsClosed, LiveSignals, TypeOK
  <2>4. Stamped'
    BY <1>0, <2>2, <2>3 DEF Stamped
  <2>5. \A c \in Coro : coro_state'[c] = "WAITING" => coro_state[c] = "WAITING" /\ WaitKept(c)
    BY <2>1, <2>2, <2>3 DEF WaitKept, Counted
  <2> QED BY <1>0, <2>4, <2>5, WaitsKept
<1> QED BY <1>3, <1>4, <1>5, <1>6, <1>7, <1>8, Kinds
-----------------------------------------------------------------------------
(***************************************************************************)
(* Lists without repetitions: the monitors of a coroutine and the exit      *)
(* handlers.                                                                *)
(***************************************************************************)
Elements(seq) == {seq[i] : i \in 1 .. Len(seq)}
NoneTwice(seq) == \A i, j \in 1 .. Len(seq) : seq[i] = seq[j] => i = j

\* Append adds one element at the end.
LEMMA AppendElements ==
    ASSUME NEW S, NEW seq \in Seq(S), NEW x \in S, NoneTwice(seq), x \notin Elements(seq)
    PROVE  /\ Elements(Append(seq, x)) = Elements(seq) \cup {x}
           /\ NoneTwice(Append(seq, x))
<1>1. /\ Len(Append(seq, x)) = Len(seq) + 1 /\ Len(seq) \in Nat
      /\ \A i \in 1 .. Len(seq) : Append(seq, x)[i] = seq[i]
      /\ Append(seq, x)[Len(seq) + 1] = x
  BY AppendProperties, LenProperties
<1>2. PICK new \in Seq(S) : new = Append(seq, x)
  BY AppendProperties
<1>3. /\ Len(new) = Len(seq) + 1
      /\ \A i \in 1 .. Len(seq) : new[i] = seq[i]
      /\ new[Len(seq) + 1] = x
  BY <1>1, <1>2
<1>4. Elements(new) = Elements(seq) \cup {x}
  <2>1. Elements(new) \subseteq Elements(seq) \cup {x}
    BY <1>1, <1>3 DEF Elements
  <2>2. Elements(seq) \cup {x} \subseteq Elements(new)
    BY <1>1, <1>3 DEF Elements
  <2> QED BY <2>1, <2>2
<1>5. \A i \in 1 .. Len(seq) : seq[i] # x
  BY DEF Elements
<1>6. NoneTwice(new)
  <2> SUFFICES ASSUME NEW i \in 1 .. Len(new), NEW j \in 1 .. Len(new), new[i] = new[j]
               PROVE  i = j
    BY DEF NoneTwice
  <2>1. CASE i \in 1 .. Len(seq) /\ j \in 1 .. Len(seq)
    BY <1>3, <2>1 DEF NoneTwice
  <2>2. CASE i \notin 1 .. Len(seq) \/ j \notin 1 .. Len(seq)
    BY <1>1, <1>3, <1>5, <2>2
  <2> QED BY <2>1, <2>2
<1> QED BY <1>2, <1>4, <1>6

\* Leaving out position p of a list leaves out its element.
LEMMA OmitElements ==
    ASSUME NEW S, NEW seq \in Seq(S), NoneTwice(seq), NEW p \in 1 .. Len(seq),
           NEW new, Len(new) = Len(seq) - 1,
           \A i \in 1 .. Len(seq) - 1 : new[i] = IF i < p THEN seq[i] ELSE seq[i + 1]
    PROVE  Elements(new) = Elements(seq) \ {seq[p]} /\ NoneTwice(new)
<1>1. Len(seq) \in Nat
  BY LenProperties
<1>2. \A i \in 1 .. Len(seq) - 1 :
          \E k \in 1 .. Len(seq) : k # p /\ new[i] = seq[k] /\ k = (IF i < p THEN i ELSE i + 1)
  BY <1>1
<1>3. Elements(new) \subseteq Elements(seq) \ {seq[p]}
  BY <1>2 DEF Elements, NoneTwice
<1>4. Elements(seq) \ {seq[p]} \subseteq Elements(new)
  <2> SUFFICES ASSUME NEW k \in 1 .. Len(seq), seq[k] # seq[p]
               PROVE  \E i \in 1 .. Len(new) : new[i] = seq[k]
    BY DEF Elements
  <2>1. CASE k < p
    BY <1>1, <2>1
  <2>2. CASE k > p
    <3>1. k - 1 \in 1 .. Len(new) /\ ~(k - 1 < p) /\ (k - 1) + 1 = k
      BY <1>1, <2>2
    <3> QED BY <3>1
  <2> QED BY <1>1, <2>1, <2>2
<1>5. NoneTwice(new)
  <2> SUFFICES ASSUME NEW i \in 1 .. Len(new), NEW j \in 1 .. Len(new), new[i] = new[j]
               PROVE  i = j
    BY DEF NoneTwice
  <2>1. PICK k \in 1 .. Len(seq) : new[i] = seq[k] /\ k = (IF i < p THEN i ELSE i + 1)
    BY <1>2
  <2>2. PICK l \in 1 .. Len(seq) : new[j] = seq[l] /\ l = (IF j < p THEN j ELSE j + 1)
    BY <1>2
  <2>3. k = l
    BY <2>1, <2>2 DEF NoneTwice
  <2> QED BY <1>1, <2>1, <2>2, <2>3
<1> QED BY <1>3, <1>4, <1>5

\* Tail leaves out the first element.
LEMMA TailElements ==
    ASSUME NEW S, NEW seq \in Seq(S), NoneTwice(seq), seq # <<>>
    PROVE  /\ Head(seq) \in Elements(seq)
           /\ Elements(Tail(seq)) = Elements(seq) \ {Head(seq)}
           /\ NoneTwice(Tail(seq))
<1>1. /\ Tail(seq) \in Seq(S) /\ Head(seq) = seq[1] /\ Len(seq) \in Nat /\ Len(seq) > 0
      /\ Len(Tail(seq)) = Len(seq) - 1
      /\ \A i \in 1 .. Len(Tail(seq)) : Tail(seq)[i] = seq[i + 1]
  BY HeadTailProperties, LenProperties, EmptySeq
<1>2. 1 \in 1 .. Len(seq) /\ \A i \in 1 .. Len(seq) - 1 : ~(i < 1)
  BY <1>1
<1>3. PICK new : new = Tail(seq)
  OBVIOUS
<1>4. /\ Len(new) = Len(seq) - 1
      /\ \A i \in 1 .. Len(seq) - 1 : new[i] = IF i < 1 THEN seq[i] ELSE seq[i + 1]
  BY <1>1, <1>2, <1>3
<1>5. Elements(new) = Elements(seq) \ {seq[1]} /\ NoneTwice(new)
  BY <1>2, <1>4, OmitElements
<1> QED BY <1>1, <1>2, <1>3, <1>5 DEF Elements

\* BIO_LIST_REMOVE leaves out the element it is given.
LEMMA WithoutElements ==
    ASSUME NEW S, NEW seq \in Seq(S), NoneTwice(seq), NEW x \in Elements(seq)
    PROVE  /\ Elements(Without(seq, x)) = Elements(seq) \ {x}
           /\ NoneTwice(Without(seq, x))
<1>1. PICK p \in 1 .. Len(seq) : seq[p] = x
  BY DEF Elements
<1>2. Len(seq) \in Nat /\ Len(seq) - 1 \in Nat
  BY <1>1, LenProperties
<1>3. \A i \in 1 .. Len(seq) - 1 : (\E j \in 1 .. i : seq[j] = x) <=> ~(i < p)
  BY <1>1, <1>2 DEF NoneTwice
<1>4. PICK new : new = Without(seq, x)
  OBVIOUS
<1>5. \A i \in 1 .. Len(seq) - 1 : new[i] = IF i < p THEN seq[i] ELSE seq[i + 1]
  BY <1>3, <1>4 DEF Without
<1>6. Len(new) = Len(seq) - 1
  <2>1. \A i \in 1 .. Len(seq) - 1 : i \in 1 .. Len(seq) /\ i + 1 \in 1 .. Len(seq)
    BY <1>2
  <2>2. \A i \in 1 .. Len(seq) : seq[i] \in S
    BY ElementOfSeq
  <2>3. new \in [1 .. Len(seq) - 1 -> S]
    BY <1>4, <2>1, <2>2 DEF Without
  <2> QED BY <1>2, <2>3
<1>7. Elements(new) = Elements(seq) \ {seq[p]} /\ NoneTwice(new)
  BY <1>5, <1>6, OmitElements
<1> QED BY <1>1, <1>4, <1>7
-----------------------------------------------------------------------------
(***************************************************************************)
(* Monitors.                                                                *)
(***************************************************************************)
LiveMonitors(c) == {m \in Monitor : monitor_state[m] = "live" /\ monitor_target[m] = c}

\* The list of a coroutine holds its live monitors, once each; their target lives,
\* and a signal that was reported on is not made again.
Monitored ==
    /\ \A c \in Coro : Elements(monitors[c]) = LiveMonitors(c) /\ NoneTwice(monitors[c])
    /\ \A m \in Monitor : monitor_state[m] = "live" => coro_state[monitor_target[m]] \in Alive
    /\ \A m \in Monitor : monitor_state[m] \in {"live", "fired"} =>
          monitor_signal[m] \in Signal /\ signal_state[monitor_signal[m]] # "unmade"
    /\ \A m \in Monitor : monitor_state[m] = "fired" => monitor_signal[m] \notin LiveSignals

\* That is what MonitorsExact says.
LEMMA MonitoredExact ==
    ASSUME TypeOK, Blocked, Monitored
    PROVE  MonitorsExact
<1>1. \A c \in Coro : monitors[c] \in Seq(Monitor) /\ DOMAIN monitors[c] = 1 .. Len(monitors[c])
  BY DEF TypeOK
<1>2. ASSUME NEW c \in Coro, NEW i \in DOMAIN monitors[c]
      PROVE  monitor_state[monitors[c][i]] = "live" /\ monitor_target[monitors[c][i]] = c
  <2>1. monitors[c][i] \in Elements(monitors[c])
    BY <1>1, <1>2 DEF Elements
  <2> QED BY <2>1 DEF Monitored, LiveMonitors
<1>3. \A c \in Coro : \A i, j \in DOMAIN monitors[c] : monitors[c][i] = monitors[c][j] => i = j
  BY <1>1 DEF Monitored, NoneTwice
<1>4. ASSUME NEW m \in Monitor, monitor_state[m] = "live"
      PROVE  \E i \in DOMAIN monitors[monitor_target[m]] : monitors[monitor_target[m]][i] = m
  <2>1. PICK c \in Coro : c = monitor_target[m]
    BY <1>4 DEF Blocked
  <2>2. m \in Elements(monitors[c])
    BY <1>4, <2>1 DEF Monitored, LiveMonitors
  <2>3. PICK i \in 1 .. Len(monitors[c]) : monitors[c][i] = m
    BY <2>2 DEF Elements
  <2> QED BY <1>1, <2>1, <2>3
<1> QED BY <1>2, <1>3, <1>4 DEF MonitorsExact, Monitored

\* A signal is made once and raised or destroyed once.
LEMMA SignalsAdvance ==
    ASSUME IInv, [Next]_vars
    PROVE  \A s \in Signal : /\ signal_state[s] # "unmade" => signal_state'[s] # "unmade"
                             /\ signal_state[s] = "closed" => signal_state'[s] = "closed"
<1> USE DEF coroVars, signalVars, monitorVars, countVars, exitVars, auxVars
<1>0. TypeOK
  BY DEF IInv
<1>1. CASE UNCHANGED signal_state
  BY <1>1
<1>2. ASSUME NEW s \in Signal, signal_state' = [signal_state EXCEPT ![s] = "closed"],
             signal_state[s] # "unmade"
      PROVE  \A t \in Signal : /\ signal_state[t] # "unmade" => signal_state'[t] # "unmade"
                               /\ signal_state[t] = "closed" => signal_state'[t] = "closed"
  BY <1>0, <1>2 DEF TypeOK
<1>3. CASE Raising
  BY <1>1, <1>2, <1>3, RaiseKinds DEF Raised, RaiseLive, waitVars
<1>4. CASE Quiet
  BY <1>1, <1>4, QuietFacts DEF waitVars
<1>5. CASE Moving
  BY <1>1, <1>5, MoveFacts
<1>6. ASSUME NEW s \in Signal, signal_state[s] = "unmade",
             signal_state' = [signal_state EXCEPT ![s] = "live"]
      PROVE  \A t \in Signal : /\ signal_state[t] # "unmade" => signal_state'[t] # "unmade"
                               /\ signal_state[t] = "closed" => signal_state'[t] = "closed"
  BY <1>0, <1>6 DEF TypeOK
<1>7. CASE Waiting \/ \E s \in Signal : bio_make_signal(s)
  BY <1>1, <1>6, <1>7 DEF Waiting, bio_wait_for_signals, bio_wait_for_exit, bio_make_signal
<1>8. CASE DestroySignals
  BY <1>0, <1>8 DEF DestroySignals, PendingSignalsClosed, TypeOK
<1> QED BY <1>3, <1>4, <1>5, <1>7, <1>8, Kinds

\* Outside the three operations on monitors, nobody dies before its monitors fired.
LEMMA MonitorsKept ==
    ASSUME IInv, Monitored, [Next]_vars, UNCHANGED monitorVars,
           \A c \in Coro : coro_state[c] \in Alive /\ coro_state'[c] \notin Alive =>
               monitors[c] = <<>>
    PROVE  Monitored'
<1>0. /\ TypeOK /\ Blocked
      /\ UNCHANGED <<monitor_state, monitor_signal, monitors, monitor_target>>
  BY DEF IInv, monitorVars
<1>1. \A c \in Coro : Elements(monitors'[c]) = LiveMonitors(c)' /\ NoneTwice(monitors'[c])
  BY <1>0 DEF Monitored, LiveMonitors
<1>2. ASSUME NEW m \in Monitor, monitor_state[m] = "live"
      PROVE  coro_state'[monitor_target[m]] \in Alive
  <2>1. PICK c \in Coro : c = monitor_target[m]
    BY <1>0, <1>2 DEF Blocked
  <2>2. m \in Elements(monitors[c]) /\ coro_state[c] \in Alive
    BY <1>2, <2>1 DEF Monitored, LiveMonitors
  <2>3. monitors[c] # <<>>
    BY <2>2 DEF Elements
  <2> QED BY <2>1, <2>2, <2>3
<1>3. \A m \in Monitor : monitor_state[m] \in {"live", "fired"} =>
          monitor_signal[m] \in Signal /\ signal_state'[monitor_signal[m]] # "unmade"
  BY SignalsAdvance DEF Monitored
<1>4. ASSUME NEW m \in Monitor, monitor_state[m] = "fired"
      PROVE  monitor_signal[m] \notin LiveSignals'
  <2>1. monitor_signal[m] \in Signal /\ signal_state[monitor_signal[m]] = "closed"
    BY <1>0, <1>4 DEF Monitored, LiveSignals, TypeOK
  <2>2. signal_state'[monitor_signal[m]] = "closed"
    BY <2>1, SignalsAdvance
  <2> QED BY <2>2 DEF LiveSignals
<1> QED BY <1>0, <1>1, <1>2, <1>3, <1>4 DEF Monitored

\* The living stay alive in every step but DestroyCoro.
LEMMA NobodyDies ==
    ASSUME IInv, [Next]_vars, NEW c \in Coro,
           coro_state[c] \in Alive, coro_state'[c] \notin Alive
    PROVE  DestroyCoro /\ c = Running
<1>0. TypeOK /\ Blocked
  BY DEF IInv
<1>1. CASE UNCHANGED coro_state
  BY <1>1
<1>2. CASE Raising
  BY <1>0, <1>1, <1>2, RaiseKinds, RaiseFacts DEF Raised, waitVars
<1>3. CASE Quiet
  BY <1>1, <1>3, QuietFacts DEF waitVars
<1>4. CASE Moving
  BY <1>4, MoveFacts
<1>5. CASE Waiting
  <2>1. Running \in Coro
    BY <1>5, RunningFacts DEF Waiting, bio_wait_for_signals, bio_wait_for_exit, InCoro
  <2> QED BY <1>0, <1>5, <2>1
          DEF Waiting, bio_wait_for_signals, bio_wait_for_exit, Block, TypeOK, Alive
<1>6. CASE DestroySignals \/ \E s \in Signal : bio_make_signal(s)
  BY <1>1, <1>6 DEF DestroySignals, bio_make_signal, coroVars
<1> QED BY <1>2, <1>3, <1>4, <1>5, <1>6, Kinds

\* Every action keeps the lists of monitors exact.
LEMMA MonitoredStep ==
    ASSUME IInv, Monitored, [Next]_vars
    PROVE  Monitored'
<1> USE DEF coroVars, signalVars, monitorVars, countVars, exitVars, auxVars
<1>0. TypeOK /\ Blocked
  BY DEF IInv
<1>1. CASE UNCHANGED monitorVars
  <2>1. \A c \in Coro : coro_state[c] \in Alive /\ coro_state'[c] \notin Alive =>
            monitors[c] = <<>>
    BY NobodyDies DEF DestroyCoro
  <2> QED BY <1>1, <2>1, MonitorsKept
<1>2. ASSUME NEW c \in Coro, NEW s \in Signal, NEW m \in Monitor, bio_monitor(c, s, m),
             monitor_state[m] = "unmade",
             coro_state[c] \in Alive, signal_state[s] = "live",
             monitor_state' = [monitor_state EXCEPT ![m] = "live"],
             monitor_signal' = [monitor_signal EXCEPT ![m] = s],
             monitor_target' = [monitor_target EXCEPT ![m] = c],
             monitors' = [monitors EXCEPT ![c] = Append(@, m)],
             UNCHANGED <<signal_state, coro_state>>
      PROVE  Monitored'
  <2>1. /\ monitor_state'[m] = "live" /\ monitor_signal'[m] = s /\ monitor_target'[m] = c
        /\ \A k \in Monitor \ {m} : /\ monitor_state'[k] = monitor_state[k]
                                    /\ monitor_signal'[k] = monitor_signal[k]
                                    /\ monitor_target'[k] = monitor_target[k]
        /\ monitors'[c] = Append(monitors[c], m)
        /\ \A d \in Coro \ {c} : monitors'[d] = monitors[d]
    BY <1>0, <1>2 DEF TypeOK
  <2>2. monitors[c] \in Seq(Monitor) /\ NoneTwice(monitors[c]) /\ m \notin Elements(monitors[c])
    BY <1>0, <1>2 DEF TypeOK, Monitored, LiveMonitors
  <2>3. Elements(monitors'[c]) = Elements(monitors[c]) \cup {m} /\ NoneTwice(monitors'[c])
    BY <2>1, <2>2, AppendElements
  <2>4. /\ LiveMonitors(c)' = LiveMonitors(c) \cup {m}
        /\ \A d \in Coro \ {c} : LiveMonitors(d)' = LiveMonitors(d)
    BY <1>2, <2>1 DEF LiveMonitors
  <2>5. \A d \in Coro : Elements(monitors'[d]) = LiveMonitors(d)' /\ NoneTwice(monitors'[d])
    BY <2>1, <2>3, <2>4, ZenonT(30) DEF Monitored
  <2>6. LiveSignals' = LiveSignals
    BY <1>2 DEF LiveSignals
  <2> QED BY <1>2, <2>1, <2>5, <2>6 DEF Monitored
<1>3. ASSUME NEW m \in Monitor, monitor_state[m] = "live",
             NEW over \in {"fired", "cancelled"}, NEW c \in Coro, c = monitor_target[m],
             monitor_state' = [monitor_state EXCEPT ![m] = over],
             UNCHANGED <<monitor_signal, monitor_target>>,
             \A d \in Coro \ {c} : monitors'[d] = monitors[d],
             Elements(monitors'[c]) = Elements(monitors[c]) \ {m}, NoneTwice(monitors'[c]),
             \A d \in Coro : coro_state[d] \in Alive => coro_state'[d] \in Alive,
             over = "fired" => monitor_signal[m] \notin LiveSignals'
      PROVE  Monitored'
  <2>1. /\ monitor_state'[m] = over
        /\ \A k \in Monitor \ {m} : monitor_state'[k] = monitor_state[k]
    BY <1>0, <1>3 DEF TypeOK
  <2>2. /\ LiveMonitors(c)' = LiveMonitors(c) \ {m}
        /\ \A d \in Coro \ {c} : LiveMonitors(d)' = LiveMonitors(d)
    BY <1>3, <2>1 DEF LiveMonitors
  <2>3. \A d \in Coro : Elements(monitors'[d]) = LiveMonitors(d)' /\ NoneTwice(monitors'[d])
    BY <1>3, <2>2 DEF Monitored
  <2>4. \A k \in Monitor : monitor_state'[k] = "live" => coro_state'[monitor_target'[k]] \in Alive
    BY <1>0, <1>3, <2>1 DEF Monitored, Blocked
  <2>5. \A k \in Monitor : monitor_state'[k] \in {"live", "fired"} =>
            monitor_signal'[k] \in Signal /\ signal_state'[monitor_signal'[k]] # "unmade"
    BY <1>3, <2>1, SignalsAdvance DEF Monitored
  <2>6. ASSUME NEW k \in Monitor, monitor_state'[k] = "fired"
        PROVE  monitor_signal[k] \notin LiveSignals'
    <3>1. CASE k = m
      BY <1>3, <2>1, <2>6, <3>1
    <3>2. CASE k # m
      <4>1. monitor_signal[k] \in Signal /\ signal_state[monitor_signal[k]] = "closed"
        BY <1>0, <2>1, <2>6, <3>2 DEF Monitored, LiveSignals, TypeOK
      <4>2. signal_state'[monitor_signal[k]] = "closed"
        BY <4>1, SignalsAdvance
      <4> QED BY <4>2 DEF LiveSignals
    <3> QED BY <3>1, <3>2
  <2> QED BY <1>3, <2>3, <2>4, <2>5, <2>6 DEF Monitored
<1>4. ASSUME NEW m \in Monitor, bio_unmonitor(m)
      PROVE  Monitored'
  <2>1. PICK c \in Coro : c = monitor_target[m]
    BY <1>0, <1>4 DEF bio_unmonitor, Blocked
  <2>2. /\ monitor_state[m] = "live"
        /\ monitor_state' = [monitor_state EXCEPT ![m] = "cancelled"]
        /\ monitors' = [monitors EXCEPT ![c] = Without(@, m)]
        /\ UNCHANGED <<monitor_signal, monitor_target, coro_state>>
    BY <1>4, <2>1 DEF bio_unmonitor
  <2>3. /\ monitors'[c] = Without(monitors[c], m)
        /\ \A d \in Coro \ {c} : monitors'[d] = monitors[d]
    BY <1>0, <2>2 DEF TypeOK
  <2>4. monitors[c] \in Seq(Monitor) /\ NoneTwice(monitors[c]) /\ m \in Elements(monitors[c])
    BY <1>0, <2>1, <2>2 DEF TypeOK, Monitored, LiveMonitors
  <2>5. Elements(monitors'[c]) = Elements(monitors[c]) \ {m} /\ NoneTwice(monitors'[c])
    BY <2>3, <2>4, WithoutElements
  <2> QED BY <1>3, <2>1, <2>2, <2>3, <2>5
<1>5. CASE TriggerMonitor
  <2>1. PICK c \in Coro : c = Running
    BY <1>5, RunningFacts DEF TriggerMonitor, InCoro
  <2>2. monitors[c] \in Seq(Monitor) /\ NoneTwice(monitors[c]) /\ monitors[c] # <<>>
    BY <1>0, <1>5, <2>1 DEF TriggerMonitor, TypeOK, Monitored
  <2>3. PICK m \in Monitor : m = Head(monitors[c])
    BY <2>2, HeadTailProperties
  <2>4. /\ monitor_state' = [monitor_state EXCEPT ![m] = "fired"]
        /\ monitors' = [monitors EXCEPT ![c] = Tail(@)]
        /\ UNCHANGED <<monitor_signal, monitor_target>>
        /\ RaiseEffect(monitor_signal[m])
    BY <1>5, <2>1, <2>3 DEF TriggerMonitor
  <2>5. /\ monitors'[c] = Tail(monitors[c])
        /\ \A d \in Coro \ {c} : monitors'[d] = monitors[d]
    BY <1>0, <2>4 DEF TypeOK
  <2>6. /\ m \in Elements(monitors[c])
        /\ Elements(monitors'[c]) = Elements(monitors[c]) \ {m} /\ NoneTwice(monitors'[c])
    BY <2>2, <2>3, <2>5, TailElements
  <2>7. monitor_state[m] = "live" /\ monitor_target[m] = c
    BY <2>6 DEF Monitored, LiveMonitors
  <2>8. \A d \in Coro : coro_state[d] \in Alive => coro_state'[d] \in Alive
    <3>1. ~DestroyCoro
      BY <1>5 DEF TriggerMonitor, DestroyCoro
    <3> QED BY <3>1, NobodyDies
  <2>9. monitor_signal[m] \notin LiveSignals'
    <3>1. PICK s \in Signal : s = monitor_signal[m] /\ RaiseEffect(s)
      BY <2>4, <2>7 DEF Monitored
    <3>2. signal_state'[s] # "live"
      BY <1>0, <3>1, NoneAssumption DEF RaiseEffect, RaiseLive, TypeOK
    <3> QED BY <3>1, <3>2 DEF LiveSignals
  <2> QED BY <1>3, <2>4, <2>5, <2>6, <2>7, <2>8, <2>9
<1>6. CASE Raising
  <2>1. ASSUME NEW c \in Coro, NEW s \in Signal, NEW m \in Monitor, bio_monitor(c, s, m)
        PROVE  Monitored'
    BY <1>1, <1>2, <2>1 DEF bio_monitor
  <2> QED BY <1>1, <1>5, <1>6, <2>1 DEF Raising, bio_raise_signal, DispatchOne
<1>7. CASE Quiet
  BY <1>1, <1>4, <1>7 DEF Quiet, Return, EnterLoop, EndOfList, bio_handle_exit_signal,
                          DispatchDone, SwapLists, bio_terminate, TerminateLoop, vars
<1>8. CASE Moving \/ Waiting \/ DestroySignals \/ \E s \in Signal : bio_make_signal(s)
  BY <1>1, <1>8 DEF Moving, Waiting, bio_spawn_ex, bio_yield, Resume, DestroyCoro,
                    bio_wait_for_signals, bio_wait_for_exit, DestroySignals, bio_make_signal
<1> QED BY <1>6, <1>7, <1>8, Kinds
-----------------------------------------------------------------------------
(***************************************************************************)
(* Exit handlers.                                                           *)
(***************************************************************************)
\* Each handler is registered once by a coroutine that waits for nothing else, and
\* no monitor raises its signal.
Handlers ==
    /\ Elements(exit_handlers) \subseteq LiveSignals
    /\ \A h \in Elements(exit_handlers) : /\ coro_state[signal_owner[h]] = "WAITING"
                                          /\ awaited[signal_owner[h]] = {h}
    /\ NoneTwice(exit_handlers)
    /\ pc # "dispatch" => (exit_signal_blocked <=> exit_handlers # <<>>)
    /\ \A m \in Monitor : monitor_state[m] = "live" => monitor_signal[m] \notin Elements(exit_handlers)

\* That is what ExitHandlersValid says.
LEMMA HandlersValid ==
    ASSUME TypeOK, Handlers
    PROVE  ExitHandlersValid
<1>1. DOMAIN exit_handlers = 1 .. Len(exit_handlers)
  BY DEF TypeOK
<1>2. \A i \in DOMAIN exit_handlers : exit_handlers[i] \in Elements(exit_handlers)
  BY <1>1 DEF Elements
<1> QED BY <1>2 DEF Handlers, ExitHandlersValid

\* The list as bio_raise_signal's callers see it.
LEMMA ExitSignals ==
    ASSUME TypeOK, NEW s \in Signal
    PROVE  IsExitSignal(s) <=> s \in Elements(exit_handlers)
<1>1. DOMAIN exit_handlers = 1 .. Len(exit_handlers)
  BY DEF TypeOK
<1> QED BY <1>1 DEF IsExitSignal, Elements

\* A handler that is still valid after a step.
HandlerKept(h) ==
    /\ h \in LiveSignals'
    /\ coro_state'[signal_owner'[h]] = "WAITING"
    /\ awaited'[signal_owner'[h]] = {h}

\* Raising another signal does not end the wait in bio_wait_for_exit.
LEMMA RaiseKeepsHandler ==
    ASSUME IInv, Waits, Handlers, NEW s \in Signal, Raised(s),
           NEW h \in Elements(exit_handlers), h # s
    PROVE  HandlerKept(h)
<1>0. TypeOK /\ Blocked
  BY DEF IInv
<1>1. h \in LiveSignals /\ s \in LiveSignals
  BY DEF Handlers, Raised, LiveSignals
<1>2. PICK o \in Coro : o = signal_owner[h]
  BY <1>0, <1>1 DEF Blocked
<1>3. coro_state[o] = "WAITING" /\ awaited[o] = {h}
  BY <1>2 DEF Handlers
<1>4. Counted(o) = {h}
  BY <1>1, <1>3 DEF Waits, Accounted
<1>5. ~(ConcernsWait(s) /\ signal_owner[s] = o)
  BY <1>1, <1>4 DEF ConcernsWait, Counted
<1>6. coro_state'[o] = coro_state[o]
  BY <1>0, <1>5 DEF Raised, RaiseLive, TypeOK
<1>7. h \in LiveSignals' /\ UNCHANGED <<signal_owner, awaited>>
  BY <1>0, <1>1 DEF Raised, RaiseLive, LiveSignals, TypeOK
<1> QED BY <1>2, <1>3, <1>6, <1>7 DEF HandlerKept

\* A raise of s, or of nothing.
LEMMA EffectKeepsHandler ==
    ASSUME IInv, Waits, Handlers, NEW s \in Signal \cup {NoSignal}, RaiseEffect(s),
           UNCHANGED <<wait_counter, signal_owner, signal_counter, awaited, waits_for_all>>,
           NEW h \in Elements(exit_handlers), h # s
    PROVE  HandlerKept(h)
<1>1. CASE s \in Signal /\ signal_state[s] = "live" /\ RaiseLive(s)
  <2>1. Raised(s)
    BY <1>1 DEF Raised
  <2> QED BY <1>1, <2>1, RaiseKeepsHandler
<1>2. CASE UNCHANGED <<signal_state, coro_state>>
  BY <1>2 DEF Handlers, HandlerKept, LiveSignals
<1> QED BY <1>1, <1>2 DEF RaiseEffect

\* Only bio_dispatch_exit_signal touches a handler.
LEMMA HandlerStep ==
    ASSUME IInv, Waits, Monitored, Handlers, [Next]_vars, ~DispatchOne,
           NEW h \in Elements(exit_handlers)
    PROVE  HandlerKept(h)
<1> USE DEF coroVars, signalVars, monitorVars, countVars, exitVars, auxVars
<1>0. TypeOK /\ Blocked
  BY DEF IInv
<1>1. PICK o \in Coro : o = signal_owner[h]
  BY <1>0 DEF Blocked, Handlers
<1>2. h \in LiveSignals /\ coro_state[o] = "WAITING" /\ awaited[o] = {h}
  BY <1>1 DEF Handlers
<1>3. ASSUME h \in LiveSignals', signal_owner'[h] = o, coro_state'[o] = "WAITING",
             awaited'[o] = {h}
      PROVE  HandlerKept(h)
  BY <1>3 DEF HandlerKept
<1>4. CASE Raising
  <2>1. ASSUME NEW s \in Signal, bio_raise_signal(s)
        PROVE  HandlerKept(h)
    <3>1. Raised(s) /\ h # s
      BY <1>0, <2>1, ExitSignals DEF bio_raise_signal, Raised, UnchangedByRaise
    <3> QED BY <3>1, RaiseKeepsHandler
  <2>2. ASSUME NEW c \in Coro, NEW s \in Signal, NEW m \in Monitor, bio_monitor(c, s, m)
        PROVE  HandlerKept(h)
    <3>1. /\ h # s
          /\ UNCHANGED <<wait_counter, signal_owner, signal_counter, awaited, waits_for_all>>
      BY <1>0, <2>2, ExitSignals DEF bio_monitor, UnchangedByRaise
    <3>2. CASE RaiseEffect(s)
      BY <3>1, <3>2, EffectKeepsHandler
    <3>3. CASE UNCHANGED <<signal_state, coro_state>>
      BY <1>1, <1>2, <1>3, <3>1, <3>3 DEF LiveSignals
    <3> QED BY <2>2, <3>2, <3>3 DEF bio_monitor
  <2>3. ASSUME TriggerMonitor
        PROVE  HandlerKept(h)
    <3>1. PICK c \in Coro : c = Running
      BY <2>3, RunningFacts DEF TriggerMonitor, InCoro
    <3>2. monitors[c] \in Seq(Monitor) /\ NoneTwice(monitors[c]) /\ monitors[c] # <<>>
      BY <1>0, <2>3, <3>1 DEF TriggerMonitor, TypeOK, Monitored
    <3>3. PICK m \in Monitor : m = Head(monitors[c])
      BY <3>2, HeadTailProperties
    <3>4. m \in Elements(monitors[c])
      BY <3>2, <3>3, TailElements
    <3>5. monitor_state[m] = "live"
      BY <2>3, <3>4 DEF Monitored, LiveMonitors
    <3>6. PICK s \in Signal \cup {NoSignal} : s = monitor_signal[m]
      BY <1>0 DEF TypeOK
    <3>7. /\ RaiseEffect(s) /\ h # s
          /\ UNCHANGED <<wait_counter, signal_owner, signal_counter, awaited, waits_for_all>>
      BY <2>3, <3>1, <3>3, <3>5, <3>6 DEF TriggerMonitor, UnchangedByRaise, Handlers
    <3> QED BY <3>7, EffectKeepsHandler
  <2> QED BY <1>4, <2>1, <2>2, <2>3 DEF Raising
<1>5. CASE Quiet
  BY <1>1, <1>2, <1>3, <1>5, QuietFacts DEF waitVars, LiveSignals
<1>6. CASE Moving
  <2>1. coro_state'[o] = "WAITING"
    BY <1>2, <1>6, MoveFacts
  <2> QED BY <1>1, <1>2, <1>3, <1>6, <2>1, MoveFacts DEF LiveSignals
<1>7. CASE Waiting
  <2>1. PICK r \in Coro : r = Running /\ r # o
    BY <1>2, <1>7, RunningFacts DEF Waiting, bio_wait_for_signals, bio_wait_for_exit, InCoro
  <2>2. coro_state'[o] = coro_state[o] /\ awaited'[o] = awaited[o]
    BY <1>0, <1>7, <2>1
    DEF Waiting, bio_wait_for_signals, bio_wait_for_exit, Block, TypeOK
  <2>3. h \in LiveSignals' /\ signal_owner'[h] = signal_owner[h]
    <3>1. CASE UNCHANGED <<signal_state, signal_owner>>
      BY <1>2, <3>1 DEF LiveSignals
    <3>2. CASE \E s \in Signal : bio_wait_for_exit(s)
      BY <1>0, <1>2, <3>2 DEF bio_wait_for_exit, TypeOK, LiveSignals
    <3>3. ASSUME NEW a \in WaitArrays, NEW wait_all \in BOOLEAN, bio_wait_for_signals(a, wait_all)
          PROVE  UNCHANGED <<signal_state, signal_owner>>
      BY <3>3 DEF bio_wait_for_signals
    <3> QED BY <1>7, <3>1, <3>2, <3>3 DEF Waiting
  <2> QED BY <1>1, <1>2, <1>3, <2>2, <2>3
<1>8. CASE \E s \in Signal : bio_make_signal(s)
  <2>1. h \in LiveSignals' /\ signal_owner'[h] = signal_owner[h]
    BY <1>0, <1>2, <1>8 DEF bio_make_signal, TypeOK, LiveSignals
  <2>2. UNCHANGED <<coro_state, awaited>>
    BY <1>8 DEF bio_make_signal
  <2> QED BY <1>1, <1>2, <1>3, <2>1, <2>2
<1>9. CASE DestroySignals
  <2>1. Running # o
    BY <1>2, <1>9, RunningFacts DEF DestroySignals, InCoro
  <2>2. h \in LiveSignals' /\ UNCHANGED <<coro_state, awaited, signal_owner>>
    BY <1>0, <1>1, <1>2, <1>9, <2>1
    DEF DestroySignals, PendingSignalsClosed, TypeOK, LiveSignals
  <2> QED BY <1>1, <1>2, <1>3, <2>2
<1> QED BY <1>4, <1>5, <1>6, <1>7, <1>8, <1>9, Kinds

\* Every action keeps the exit handlers valid.
LEMMA HandlersStep ==
    ASSUME IInv, Waits, Monitored, Handlers, [Next]_vars
    PROVE  Handlers'
<1> USE DEF coroVars, signalVars, monitorVars, countVars, exitVars, auxVars
<1>0. TypeOK /\ Blocked /\ exit_handlers \in Seq(Signal)
  BY DEF IInv, TypeOK
<1>1. ASSUME UNCHANGED exit_handlers, ~DispatchOne,
             pc' # "dispatch" => (exit_signal_blocked' <=> exit_handlers # <<>>),
             \A m \in Monitor : monitor_state'[m] = "live" =>
                 \/ monitor_state[m] = "live" /\ monitor_signal'[m] = monitor_signal[m]
                 \/ monitor_signal'[m] \notin Elements(exit_handlers)
      PROVE  Handlers'
  <2>1. \A h \in Elements(exit_handlers) : HandlerKept(h)
    BY <1>1, HandlerStep
  <2>2. \A m \in Monitor : monitor_state'[m] = "live" =>
            monitor_signal'[m] \notin Elements(exit_handlers)
    BY <1>1 DEF Handlers
  <2> QED BY <1>1, <2>1, <2>2 DEF Handlers, HandlerKept
<1>2. CASE DispatchOne
  <2>1. /\ NoneTwice(exit_handlers) /\ exit_handlers # <<>>
        /\ exit_handlers' = Tail(exit_handlers) /\ pc' = "dispatch"
        /\ UNCHANGED monitorVars
        /\ UNCHANGED <<wait_counter, signal_owner, signal_counter, awaited, waits_for_all>>
    BY <1>2 DEF DispatchOne, Handlers
  <2>2. PICK s \in Signal : s = Head(exit_handlers) /\ RaiseEffect(s)
    BY <1>0, <1>2, <2>1, HeadTailProperties DEF DispatchOne
  <2>3. Elements(exit_handlers') = Elements(exit_handlers) \ {s} /\ NoneTwice(exit_handlers')
    BY <1>0, <2>1, <2>2, TailElements
  <2>4. \A h \in Elements(exit_handlers') : HandlerKept(h)
    BY <2>1, <2>2, <2>3, EffectKeepsHandler
  <2> QED BY <2>1, <2>3, <2>4 DEF Handlers, HandlerKept
<1>3. ASSUME NEW s \in Signal, bio_wait_for_exit(s)
      PROVE  Handlers'
  <2>1. PICK r \in Coro : r = Running
    BY <1>3, RunningFacts DEF bio_wait_for_exit, InCoro
  <2>2. /\ signal_state[s] = "unmade" /\ exit_handlers' = Append(exit_handlers, s)
        /\ exit_signal_blocked' = TRUE /\ UNCHANGED monitorVars
        /\ ~DispatchOne
    BY <1>3 DEF bio_wait_for_exit, DispatchOne
  <2>3. s \in LiveSignals' /\ signal_owner'[s] = r /\ coro_state'[r] = "WAITING" /\ awaited'[r] = {s}
    BY <1>0, <1>3, <2>1 DEF bio_wait_for_exit, Block, TypeOK, LiveSignals
  <2>4. s \notin Elements(exit_handlers)
    BY <2>2 DEF Handlers, LiveSignals
  <2>5. Elements(exit_handlers') = Elements(exit_handlers) \cup {s} /\ NoneTwice(exit_handlers')
    BY <1>0, <2>2, <2>4, AppendElements DEF Handlers
  <2>6. \A h \in Elements(exit_handlers') : HandlerKept(h)
    BY <2>2, <2>3, <2>5, HandlerStep DEF HandlerKept
  <2>7. \A m \in Monitor : monitor_state'[m] = "live" =>
            monitor_signal'[m] \notin Elements(exit_handlers')
    <3>1. \A m \in Monitor : monitor_state[m] = "live" => monitor_signal[m] # s
      BY <2>2 DEF Monitored
    <3> QED BY <2>2, <2>5, <3>1 DEF Handlers
  <2>8. exit_handlers' # <<>>
    <3>1. s \in Elements(exit_handlers')
      BY <2>5
    <3> QED BY <3>1 DEF Elements
  <2> QED BY <2>2, <2>5, <2>6, <2>7, <2>8 DEF Handlers, HandlerKept
<1>4. ASSUME ~DispatchOne, UNCHANGED <<exit_handlers, exit_signal_blocked>>,
             UNCHANGED monitorVars, pc # "dispatch" \/ pc' = "dispatch"
      PROVE  Handlers'
  BY <1>1, <1>4 DEF Handlers
<1>5. ASSUME NEW c \in Coro, NEW s \in Signal, NEW m \in Monitor, bio_monitor(c, s, m)
      PROVE  Handlers'
  <2>1. /\ ~DispatchOne /\ UNCHANGED <<exit_handlers, exit_signal_blocked, pc>>
        /\ pc # "dispatch" /\ s \notin Elements(exit_handlers)
    BY <1>0, <1>5, ExitSignals DEF bio_monitor, UnchangedByRaise, InUserCode, DispatchOne
  <2>2. CASE UNCHANGED monitorVars
    BY <1>4, <2>1, <2>2
  <2>3. CASE /\ monitor_state' = [monitor_state EXCEPT ![m] = "live"]
             /\ monitor_signal' = [monitor_signal EXCEPT ![m] = s]
    <3>1. \A k \in Monitor : monitor_state'[k] = "live" =>
              \/ monitor_state[k] = "live" /\ monitor_signal'[k] = monitor_signal[k]
              \/ monitor_signal'[k] \notin Elements(exit_handlers)
      BY <1>0, <2>1, <2>3 DEF TypeOK
    <3> QED BY <1>1, <2>1, <3>1 DEF Handlers
  <2> QED BY <1>5, <2>2, <2>3 DEF bio_monitor
<1>6. ASSUME TriggerMonitor \/ \E m \in Monitor : bio_unmonitor(m)
      PROVE  Handlers'
  <2>1. /\ ~DispatchOne /\ UNCHANGED <<exit_handlers, exit_signal_blocked, pc>>
        /\ pc # "dispatch" /\ UNCHANGED monitor_signal
    BY <1>6 DEF TriggerMonitor, bio_unmonitor, UnchangedByRaise, InUserCode, DispatchOne
  <2>2. ASSUME NEW k \in Monitor, monitor_state'[k] = "live"
        PROVE  monitor_state[k] = "live"
    <3>1. CASE \E m \in Monitor : monitor_state' = [monitor_state EXCEPT ![m] = "cancelled"]
      BY <1>0, <2>2, <3>1 DEF TypeOK
    <3>2. CASE \E m : monitor_state' = [monitor_state EXCEPT ![m] = "fired"]
      BY <1>0, <2>2, <3>2 DEF TypeOK
    <3> QED BY <1>6, <3>1, <3>2 DEF TriggerMonitor, bio_unmonitor
  <2> QED BY <1>1, <2>1, <2>2 DEF Handlers
<1>7. CASE DispatchDone
  BY <1>1, <1>7 DEF DispatchDone, DispatchOne, BlockedAfterDispatch
<1>8. CASE \/ \E s \in Signal : bio_raise_signal(s)
           \/ Return \/ EnterLoop \/ EndOfList \/ bio_handle_exit_signal
           \/ SwapLists \/ bio_terminate \/ TerminateLoop
           \/ Moving \/ DestroySignals \/ \E s \in Signal : bio_make_signal(s)
           \/ \E array \in WaitArrays, wait_all \in BOOLEAN : bio_wait_for_signals(array, wait_all)
  BY <1>4, <1>8 DEF bio_raise_signal, Return, EnterLoop, EndOfList, bio_handle_exit_signal,
       SwapLists, bio_terminate, TerminateLoop, Moving, bio_spawn_ex, bio_yield, Resume,
       DestroyCoro, DestroySignals, bio_make_signal, bio_wait_for_signals, DispatchOne,
       InUserCode, UnchangedByRaise
<1>9. CASE UNCHANGED vars /\ ~DispatchOne
  BY <1>4, <1>9 DEF vars
<1> QED BY <1>2, <1>3, <1>5, <1>6, <1>7, <1>8, <1>9, Kinds DEF Raising, Quiet, Waiting
-----------------------------------------------------------------------------
(***************************************************************************)
(* The end of the program.                                                  *)
(***************************************************************************)
\* bio_terminate is called with nothing but daemons and newborns alive, and from
\* then on nobody registers a handler.
Terminating ==
    /\ is_terminating => pc # "main" /\ (pc # "dispatch" => exit_handlers = <<>>)
    /\ pc = "cleanup" => is_terminating
    /\ \A c \in Coro : coro_state[c] = "UNBORN" => ~started[c]
    /\ pc \in {"main", "cleanup"} \/ (pc = "dispatch" /\ is_terminating) =>
          \A c \in Coro : coro_state[c] \in Alive => daemon[c] \/ ~started[c]
    /\ NothingAbandoned

\* Nobody comes to life but by bio_spawn_ex.
LEMMA NobodyBorn ==
    ASSUME IInv, [Next]_vars, NEW c \in Coro
    PROVE  /\ coro_state'[c] = "UNBORN" => coro_state[c] = "UNBORN"
           /\ coro_state[c] = "UNBORN" /\ coro_state'[c] # "UNBORN" =>
                 \E is_daemon \in BOOLEAN : bio_spawn_ex(c, is_daemon)
           /\ coro_state[c] = "DEAD" => coro_state'[c] = "DEAD"
<1> USE DEF coroVars, signalVars, monitorVars, countVars, exitVars, auxVars
<1>0. TypeOK /\ Blocked
  BY DEF IInv
<1>1. CASE UNCHANGED coro_state
  BY <1>1
<1>2. ASSUME NEW r \in Coro, coro_state[r] \in Alive,
             NEW state \in Alive \cup {"DEAD"}, coro_state' = [coro_state EXCEPT ![r] = state]
      PROVE  /\ coro_state'[c] = "UNBORN" => coro_state[c] = "UNBORN"
             /\ coro_state[c] = "UNBORN" => coro_state'[c] = "UNBORN"
             /\ coro_state[c] = "DEAD" => coro_state'[c] = "DEAD"
  BY <1>0, <1>2 DEF TypeOK, Alive
<1>3. CASE Raising
  <2>1. ASSUME NEW s \in Signal, Raised(s), coro_state' # coro_state
        PROVE  /\ signal_owner[s] \in Coro /\ coro_state[signal_owner[s]] \in Alive
               /\ coro_state' = [coro_state EXCEPT ![signal_owner[s]] = "READY"]
    BY <1>0, <2>1 DEF Raised, RaiseLive, ConcernsWait, Blocked, LiveSignals, Alive
  <2>2. "READY" \in Alive \cup {"DEAD"}
    BY DEF Alive
  <2> QED BY <1>1, <1>2, <1>3, <2>1, <2>2, RaiseKinds DEF waitVars
<1>4. CASE Quiet \/ DestroySignals \/ \E s \in Signal : bio_make_signal(s)
  BY <1>1, <1>4, QuietFacts DEF waitVars, DestroySignals, bio_make_signal
<1>5. CASE bio_yield \/ Resume \/ DestroyCoro \/ Waiting
  <2>1. Running \in Coro /\ coro_state[Running] \in Alive
    BY <1>5, RunningFacts DEF bio_yield, DestroyCoro, Waiting, bio_wait_for_signals,
                              bio_wait_for_exit, InCoro, Alive
  <2>2. \/ UNCHANGED coro_state
        \/ \E state \in Alive \cup {"DEAD"} : coro_state' = [coro_state EXCEPT ![Running] = state]
    BY <1>5 DEF bio_yield, Resume, DestroyCoro, Waiting, bio_wait_for_signals,
                bio_wait_for_exit, Block, Alive
  <2> QED BY <1>1, <1>2, <2>1, <2>2
<1>6. ASSUME NEW d \in Coro, NEW is_daemon \in BOOLEAN, bio_spawn_ex(d, is_daemon)
      PROVE  /\ coro_state'[c] = "UNBORN" => coro_state[c] = "UNBORN"
             /\ coro_state[c] = "UNBORN" /\ coro_state'[c] # "UNBORN" =>
                   \E b \in BOOLEAN : bio_spawn_ex(c, b)
             /\ coro_state[c] = "DEAD" => coro_state'[c] = "DEAD"
  <2>1. CASE d = c
    BY <1>0, <1>6, <2>1 DEF bio_spawn_ex, TypeOK
  <2>2. CASE d # c
    BY <1>0, <1>6, <2>2 DEF bio_spawn_ex, TypeOK
  <2> QED BY <2>1, <2>2
<1> QED BY <1>3, <1>4, <1>5, <1>6, Kinds DEF Moving

\* bio_loop returns, outside bio_terminate, with nothing but daemons alive, and
\* inside it with nobody.
LEMMA AtTheEnd ==
    ASSUME TypeOK, CountersExact, AliveFinite
    PROVE  /\ num_coros = num_daemons => \A c \in Coro : coro_state[c] \in Alive => daemon[c]
           /\ num_coros = 0 => \A c \in Coro : coro_state[c] \notin Alive
           /\ num_daemons = 0 => \A c \in Coro : ~(coro_state[c] \in Alive /\ daemon[c])
<1>1. /\ num_coros = Cardinality(AliveCoros) /\ IsFiniteSet(AliveCoros)
      /\ num_daemons = Cardinality(AliveDaemons) /\ IsFiniteSet(AliveDaemons)
      /\ AliveDaemons \subseteq AliveCoros
  BY DEF CountersExact, AliveFinite, AliveCoros, AliveDaemons
<1>2. num_coros = num_daemons => AliveCoros = AliveDaemons
  BY <1>1, FS_Subset
<1>3. (num_coros = 0 => AliveCoros = {}) /\ (num_daemons = 0 => AliveDaemons = {})
  BY <1>1, FS_EmptySet
<1> QED BY <1>2, <1>3 DEF AliveCoros, AliveDaemons

\* Every action keeps the order of termination.
LEMMA TerminatingStep ==
    ASSUME IInv, Handlers, Terminating, [Next]_vars
    PROVE  Terminating'
<1> USE DEF coroVars, signalVars, monitorVars, countVars, exitVars, auxVars
<1>0. TypeOK /\ CountersExact /\ AliveFinite /\ Blocked
  BY DEF IInv
<1>u. ASSUME \A c \in Coro : started'[c] => started[c] \/ coro_state[c] # "UNBORN"
      PROVE  \A c \in Coro : coro_state'[c] = "UNBORN" => ~started'[c]
  BY <1>u, NobodyBorn DEF Terminating
<1>1. ASSUME UNCHANGED <<is_terminating, daemon, started, pc>>,
             UNCHANGED exit_handlers \/ pc = "dispatch",
             \A c \in Coro : coro_state'[c] \in Alive => coro_state[c] \in Alive
      PROVE  Terminating'
  <2>1. \A c \in Coro : coro_state'[c] = "UNBORN" => ~started'[c]
    BY <1>1, <1>u
  <2> QED BY <1>1, <2>1 DEF Terminating, NothingAbandoned
<1>2. ASSUME UNCHANGED is_terminating, pc' \in {"run", "coro", "cls", "monitors", "poll"},
             is_terminating => UNCHANGED exit_handlers /\ pc # "dispatch",
             \A c \in Coro : started'[c] => started[c] \/ coro_state[c] # "UNBORN"
      PROVE  Terminating'
  BY <1>2, <1>u DEF Terminating, NothingAbandoned
<1>3. ASSUME NEW c \in Coro, NEW is_daemon \in BOOLEAN, bio_spawn_ex(c, is_daemon)
      PROVE  Terminating'
  <2>1. /\ UNCHANGED <<is_terminating, started, pc, exit_handlers>>
        /\ coro_state[c] = "UNBORN" /\ pc \in {"main", "coro", "cls"}
        /\ \A d \in Coro \ {c} : coro_state'[d] = coro_state[d] /\ daemon'[d] = daemon[d]
    BY <1>0, <1>3 DEF bio_spawn_ex, InUserCode, TypeOK
  <2>2. ~started[c]
    BY <2>1 DEF Terminating
  <2>3. \A d \in Coro : coro_state'[d] = "UNBORN" => ~started'[d]
    BY <1>u, <2>1
  <2> QED BY <2>1, <2>2, <2>3 DEF Terminating, NothingAbandoned
<1>4. CASE Raising
  <2>1. /\ UNCHANGED <<is_terminating, daemon, started, pc>>
        /\ UNCHANGED exit_handlers \/ pc = "dispatch"
    BY <1>4 DEF Raising, bio_raise_signal, bio_monitor, TriggerMonitor, DispatchOne,
                UnchangedByRaise
  <2>2. \A c \in Coro : coro_state'[c] \in Alive => coro_state[c] \in Alive
    <3>1. ASSUME NEW s \in Signal, Raised(s)
          PROVE  \A c \in Coro : coro_state'[c] \in Alive => coro_state[c] \in Alive
      BY <1>0, <3>1, RaiseFacts DEF Raised
    <3>2. CASE UNCHANGED waitVars
      BY <3>2 DEF waitVars
    <3> QED BY <1>4, <3>1, <3>2, RaiseKinds
  <2> QED BY <1>1, <2>1, <2>2
<1>5. CASE \/ \E s \in Signal : bio_make_signal(s)
           \/ \E m \in Monitor : bio_unmonitor(m)
           \/ UNCHANGED vars
  BY <1>1, <1>5 DEF bio_make_signal, bio_unmonitor, vars
<1>6. CASE bio_yield \/ Resume \/ DestroyCoro \/ DestroySignals \/ Return \/ EnterLoop
           \/ SwapLists
  <2>1. /\ UNCHANGED <<is_terminating, exit_handlers>> /\ pc # "dispatch"
        /\ pc' \in {"run", "coro", "cls", "monitors", "poll"}
    BY <1>6 DEF bio_yield, Resume, DestroyCoro, DestroySignals, Return, EnterLoop, SwapLists,
                SwitchToLoop
  <2>2. \A c \in Coro : started'[c] => started[c] \/ coro_state[c] # "UNBORN"
    <3>1. CASE Resume
      <4>1. Running \in Coro /\ coro_state[Running] = "READY"
        BY <3>1, RunningFacts
      <4> QED BY <1>0, <3>1, <4>1 DEF Resume, TypeOK
    <3>2. CASE UNCHANGED started
      BY <3>2
    <3> QED BY <1>6, <3>1, <3>2
            DEF bio_yield, DestroyCoro, DestroySignals, Return, EnterLoop, SwapLists
  <2> QED BY <1>2, <2>1, <2>2
<1>7. ASSUME NEW array \in WaitArrays, NEW wait_all \in BOOLEAN,
             bio_wait_for_signals(array, wait_all)
      PROVE  Terminating'
  <2>1. /\ UNCHANGED <<is_terminating, exit_handlers, started>>
        /\ pc' \in {"run", "coro"} /\ pc # "dispatch"
    BY <1>7 DEF bio_wait_for_signals, Block, SwitchToLoop
  <2> QED BY <1>2, <2>1
<1>8. ASSUME NEW s \in Signal, bio_wait_for_exit(s)
      PROVE  Terminating'
  <2>1. UNCHANGED <<is_terminating, started>> /\ ~is_terminating /\ pc' = "run"
    BY <1>8 DEF bio_wait_for_exit, Block, SwitchToLoop
  <2> QED BY <1>2, <2>1
<1>9. CASE EndOfList
  <2>1. /\ UNCHANGED <<is_terminating, exit_handlers, daemon, started, coro_state, countVars>>
        /\ pc = "run"
        /\ pc' = IF ~ShouldTerminate THEN "poll" ELSE IF is_terminating THEN "exited" ELSE "main"
    BY <1>9 DEF EndOfList
  <2>2. CASE ~ShouldTerminate
    BY <1>2, <2>1, <2>2
  <2>3. CASE ShouldTerminate /\ is_terminating
    <3>1. num_coros = 0 /\ pc' = "exited"
      BY <2>1, <2>3 DEF ShouldTerminate
    <3>2. \A c \in Coro : coro_state[c] \notin Alive
      BY <1>0, <3>1, AtTheEnd
    <3> QED BY <2>1, <3>1, <3>2 DEF Terminating, NothingAbandoned
  <2>4. CASE ShouldTerminate /\ ~is_terminating
    <3>1. num_coros = num_daemons /\ pc' = "main"
      BY <2>1, <2>4 DEF ShouldTerminate
    <3>2. \A c \in Coro : coro_state[c] \in Alive => daemon[c]
      BY <1>0, <3>1, AtTheEnd
    <3> QED BY <2>1, <2>4, <3>1, <3>2 DEF Terminating, NothingAbandoned
  <2> QED BY <2>2, <2>3, <2>4
<1>10. CASE bio_handle_exit_signal
  <2>1. ~is_terminating
    BY <1>10 DEF bio_handle_exit_signal, Terminating, Handlers
  <2> QED BY <1>10, <2>1 DEF bio_handle_exit_signal, Terminating, NothingAbandoned
<1>11. CASE DispatchDone
  <2>1. /\ UNCHANGED <<is_terminating, daemon, started, coro_state, exit_handlers>>
        /\ pc = "dispatch" /\ exit_handlers = <<>>
        /\ pc' = IF is_terminating THEN "cleanup" ELSE "poll"
    BY <1>11 DEF DispatchDone
  <2> QED BY <2>1 DEF Terminating, NothingAbandoned
<1>12. CASE bio_terminate
  BY <1>12 DEF bio_terminate, Terminating, NothingAbandoned
<1>13. CASE TerminateLoop
  <2>1. /\ UNCHANGED <<is_terminating, daemon, started, coro_state, exit_handlers>>
        /\ pc = "cleanup"
        /\ pc' = IF num_daemons > 0 THEN "run" ELSE "exited"
    BY <1>13 DEF TerminateLoop
  <2>2. CASE num_daemons > 0
    BY <1>2, <2>1, <2>2
  <2>3. CASE ~(num_daemons > 0)
    <3>1. num_daemons = 0 /\ pc' = "exited"
      BY <1>0, <2>1, <2>3 DEF TypeOK
    <3>2. \A c \in Coro : coro_state[c] \in Alive => ~daemon[c] /\ ~started[c]
      BY <1>0, <2>1, <3>1, AtTheEnd DEF Terminating
    <3> QED BY <2>1, <3>1, <3>2 DEF Terminating, NothingAbandoned
  <2> QED BY <2>2, <2>3
<1> QED BY <1>3, <1>4, <1>5, <1>6, <1>7, <1>8, <1>9, <1>10, <1>11, <1>12, <1>13, Kinds
        DEF Quiet, Moving, Waiting
-----------------------------------------------------------------------------
JInv ==
    /\ IInv
    /\ SignalsHaveLivingOwner
    /\ Waits
    /\ Monitored
    /\ Handlers
    /\ Terminating

\* The second layer is inductive on top of the first.
THEOREM FullInvariance == Spec => []JInv
<1>1. Init => JInv
  <2> SUFFICES ASSUME Init PROVE JInv
    OBVIOUS
  <2>1. IInv
    BY InitInvariant
  <2>2. LiveSignals = {} /\ \A c \in Coro : coro_state[c] = "UNBORN" /\ ~started[c]
    BY DEF Init, LiveSignals
  <2>3. SignalsHaveLivingOwner /\ Waits
    BY <2>2 DEF SignalsHaveLivingOwner, Waits, Stamped
  <2>4. Monitored
    <3>1. \A m \in Monitor : monitor_state[m] = "unmade"
      BY DEF Init
    <3>2. \A c \in Coro : LiveMonitors(c) = {} /\ monitors[c] = <<>>
      BY <3>1 DEF Init, LiveMonitors
    <3>3. Elements(<<>>) = {} /\ NoneTwice(<<>>)
      BY DEF Elements, NoneTwice
    <3> QED BY <3>1, <3>2, <3>3 DEF Monitored
  <2>5. Handlers
    <3>1. Elements(<<>>) = {} /\ NoneTwice(<<>>)
      BY DEF Elements, NoneTwice
    <3> QED BY <3>1 DEF Init, Handlers
  <2>6. Terminating
    BY <2>2 DEF Init, Terminating, NothingAbandoned, Alive
  <2> QED BY <2>1, <2>3, <2>4, <2>5, <2>6 DEF JInv
<1>2. JInv /\ [Next]_vars => JInv'
  <2>1. IInv /\ [Next]_vars => IInv'
    BY TypeStep, ScheduleStep, CountStep, ListsIdleStep, BlockedStep DEF IInv
  <2> QED BY <2>1, OwnerStep, WaitsStep, MonitoredStep, HandlersStep, TerminatingStep DEF JInv
<1> QED BY <1>1, <1>2, PTL DEF Spec

\* bio_raise_signal never follows signal->owner into a freed coroutine: whoever
\* raises, a live signal has a living owner.
THEOREM OwnersCorrect == Spec => []SignalsHaveLivingOwner
<1>1. JInv => SignalsHaveLivingOwner
  BY DEF JInv
<1> QED BY <1>1, FullInvariance, PTL

\* num_blocking_signals is the number of raises that still wake a waiting coroutine,
\* as long as no array passed to bio_wait_for_signals repeats a signal (which it
\* would count twice and see raised once).
THEOREM AccountingCorrect ==
    ASSUME NoRepeats
    PROVE  Spec => []WakeAccounting
<1>1. JInv => WakeAccounting
  <2> SUFFICES ASSUME JInv, NEW c \in Coro, coro_state[c] = "WAITING"
               PROVE  /\ Counted(c) = awaited[c] \cap LiveSignals
                      /\ Counted(c) # {}
                      /\ IF waits_for_all[c]
                         THEN num_blocking_signals[c] = Cardinality(Counted(c))
                         ELSE num_blocking_signals[c] = 1 /\ awaited[c] \subseteq LiveSignals
    BY DEF WakeAccounting
  <2>1. Accounted(c) /\ num_blocking_signals[c] > 0
    BY DEF JInv, Waits, IInv, Blocked
  <2>2. Counted(c) # {}
    BY <2>1, NoRepeats, FS_EmptySet DEF Accounted
  <2> QED BY <2>1, <2>2, NoRepeats DEF Accounted
<1> QED BY <1>1, FullInvariance, PTL

\* A waiting coroutine is only disturbed by the raise that ends its wait.
LEMMA WakeStep ==
    ASSUME IInv, Waits, [Next]_vars, NEW c \in Coro,
           coro_state[c] = "WAITING", coro_state'[c] # "WAITING"
    PROVE  IF waits_for_all[c]
           THEN awaited[c] \cap LiveSignals' = {}
           ELSE \E s \in awaited[c] : s \notin LiveSignals'
<1>0. TypeOK /\ Blocked /\ Accounted(c)
  BY DEF IInv, Waits
<1>1. CASE UNCHANGED coro_state
  BY <1>1
<1>2. ASSUME NEW s \in Signal, Raised(s)
      PROVE  IF waits_for_all[c]
             THEN awaited[c] \cap LiveSignals' = {}
             ELSE \E t \in awaited[c] : t \notin LiveSignals'
  <2>1. signal_owner[s] = c /\ ConcernsWait(s) /\ num_blocking_signals[c] = 1
    BY <1>0, <1>2 DEF Raised, RaiseLive, TypeOK
  <2>2. s \in LiveSignals /\ LiveSignals' = LiveSignals \ {s}
    BY <1>0, <1>2 DEF Raised, RaiseLive, LiveSignals, TypeOK
  <2>3. s \in Counted(c) /\ Counted(c) = awaited[c] \cap LiveSignals
    BY <1>0, <2>1, <2>2 DEF ConcernsWait, Counted, Accounted
  <2>4. CASE waits_for_all[c]
    <3>1. IsFiniteSet(Counted(c)) /\ Cardinality(Counted(c)) <= 1
      BY <1>0, <2>1, <2>4 DEF Accounted
    <3>2. /\ Cardinality(Counted(c)) \in Nat
          /\ Cardinality(Counted(c) \ {s}) = Cardinality(Counted(c)) - 1
          /\ IsFiniteSet(Counted(c) \ {s}) /\ Cardinality(Counted(c) \ {s}) \in Nat
      BY <2>3, <3>1, FS_RemoveElement, FS_CardinalityType
    <3>3. Counted(c) \ {s} = {}
      BY <3>1, <3>2, FS_EmptySet
    <3> QED BY <2>2, <2>3, <2>4, <3>3
  <2>5. CASE ~waits_for_all[c]
    BY <2>2, <2>3, <2>5
  <2> QED BY <2>4, <2>5
<1>3. CASE Raising
  BY <1>1, <1>2, <1>3, RaiseKinds DEF waitVars
<1>4. CASE Quiet
  BY <1>1, <1>4, QuietFacts DEF waitVars
<1>5. CASE Moving
  BY <1>5, MoveFacts
<1>6. CASE Waiting
  <2>1. Running \in Coro /\ Running # c
    BY <1>6, RunningFacts DEF Waiting, bio_wait_for_signals, bio_wait_for_exit, InCoro
  <2>2. coro_state'[c] = coro_state[c]
    BY <1>0, <1>6, <2>1
    DEF Waiting, bio_wait_for_signals, bio_wait_for_exit, Block, TypeOK
  <2> QED BY <2>2
<1>7. CASE DestroySignals \/ \E s \in Signal : bio_make_signal(s)
  BY <1>1, <1>7 DEF DestroySignals, bio_make_signal, coroVars
<1> QED BY <1>3, <1>4, <1>5, <1>6, <1>7, Kinds

\* bio_wait_for_signals never returns before what it waits for is raised, even for
\* arrays that repeat a signal.
THEOREM WakeCorrect == Spec => WakeJustified
<1>1. JInv /\ [Next]_vars =>
        [\A c \in Coro :
            coro_state[c] = "WAITING" /\ coro_state'[c] # "WAITING" =>
                IF waits_for_all[c]
                THEN awaited[c] \cap LiveSignals' = {}
                ELSE \E s \in awaited[c] : s \notin LiveSignals']_vars
  BY WakeStep DEF JInv
<1> QED BY <1>1, FullInvariance, PTL DEF Spec, WakeJustified

\* Every monitor is in the list of its living target until it fires or is cancelled,
\* and has raised its signal once it fired: joining a coroutine never hangs and
\* unmonitoring never walks a freed list.
THEOREM MonitorsCorrect == Spec => []MonitorsExact
<1>1. JInv => MonitorsExact
  BY MonitoredExact DEF JInv, IInv
<1> QED BY <1>1, FullInvariance, PTL

\* Every exit handler points to the stack of a coroutine that is still inside
\* bio_wait_for_exit, and the OS signal is blocked exactly while there is one.
THEOREM HandlersCorrect == Spec => []ExitHandlersValid
<1>1. JInv => ExitHandlersValid
  BY HandlersValid DEF JInv, IInv
<1> QED BY <1>1, FullInvariance, PTL

\* bio_terminate leaves no coroutine behind that ever ran.
THEOREM TerminationCorrect == Spec => []NothingAbandoned
<1>1. JInv => NothingAbandoned
  BY DEF JInv, Terminating
<1> QED BY <1>1, FullInvariance, PTL
=============================================================================
