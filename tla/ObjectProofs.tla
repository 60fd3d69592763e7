---------------------------- MODULE ObjectProofs ----------------------------
(***************************************************************************)
(* Proofs about the objects a program makes over the scheduler: timers      *)
(* (Timer), loggers (Logging) and buffers (Buffering).  The three have no   *)
(* variable in common; each part proves the inductive invariant of its      *)
(* component and then the properties that follow from it.                   *)
(***************************************************************************)
EXTENDS Timer, Logging, Buffering, FiniteSetTheorems, SequenceTheorems, TLAPS

-----------------------------------------------------------------------------
(***************************************************************************)
(* Timers.                                                                  *)
(*                                                                          *)
(* WaitingIsArmed is not inductive: it does not say that a timer about to   *)
(* be armed has no delayed signal left.  Armed adds it: a signal is left    *)
(* over only by a timer that was cancelled while it slept, and such a timer *)
(* ends without being armed again.                                          *)
(***************************************************************************)
\* The delayed signals of a timer.
Entries(t) == {e \in timer_entries : e.timer = t}

ArmedAt(t) ==
    /\ state[t] = "waiting" => wake_live[t] /\ \E e \in timer_entries : Entries(t) = {e}
    /\ wake_live[t] => state[t] = "waiting"
    /\ Entries(t) # {} =>
          state[t] = "waiting" \/ (cancelled[t] /\ state[t] \in {"ready", "ended"})

Armed == \A t \in Timer : ArmedAt(t)

TimerInv == TimerTypeOK /\ Armed

\* Timeouts are numbers, and so is the 0 of a timer that has none.
LEMMA TimeoutsAreNat == \A x \in Timeouts \cup {0} : x \in Nat
  BY TimeoutsAssumption

\* Every variable keeps its type in every step; time in particular is only compared
\* and subtracted where it is a number.
LEMMA TimerTypeStep == TimerTypeOK /\ [TimerNext]_timerVars => TimerTypeOK'
<1> SUFFICES ASSUME TimerTypeOK, [TimerNext]_timerVars PROVE TimerTypeOK'
  OBVIOUS
<1> USE TimeoutsAssumption, TimeAssumption DEF TimerTypeOK
<1>1. CASE Tick
  BY <1>1 DEF Tick, implVars
<1>2. CASE bio_timer_update
  BY <1>2 DEF bio_timer_update, Raise, Raised, Due, implVars
<1>3. ASSUME NEW t \in Timer, NEW timeout \in Timeouts, NEW is_interval \in BOOLEAN,
             NEW alone \in BOOLEAN, bio_create_timer(t, is_interval, timeout, alone)
      PROVE  TimerTypeOK'
  BY <1>3 DEF bio_create_timer, Due
<1>4. ASSUME NEW t \in Timer, NEW timeout \in Timeouts, bio_reset_timer(t, timeout)
      PROVE  TimerTypeOK'
  BY <1>4 DEF bio_reset_timer
<1>5. ASSUME NEW t \in Timer, Arm(t) PROVE TimerTypeOK'
  <2>1. CASE due_time_ms[t] - now > 0
    <3>1. current_time_ms + (due_time_ms[t] - now) \in Nat
      <4>1. current_time_ms \in Nat /\ now \in Nat /\ due_time_ms[t] \in Nat
        OBVIOUS
      <4> QED BY <2>1, <4>1
    <3>2. [timer |-> t, due |-> current_time_ms + (due_time_ms[t] - now)]
             \in [timer : Timer, due : Nat]
      BY <3>1
    <3>3. timer_entries' \subseteq [timer : Timer, due : Nat]
      BY <1>5, <2>1, <3>2 DEF Arm
    <3>4. /\ state' \in [Timer -> {"none", "spawned", "waiting", "ready", "calling", "again",
                                   "ended"}]
          /\ wake_live' \in [Timer -> BOOLEAN]
      BY <1>5, <2>1 DEF Arm
    <3> QED BY <1>5, <3>3, <3>4 DEF Arm, implVars
  <2>2. CASE ~(due_time_ms[t] - now > 0)
    BY <1>5, <2>2 DEF Arm, implVars
  <2> QED BY <2>1, <2>2
<1>6. ASSUME NEW t \in Timer, Wake(t) PROVE TimerTypeOK'
  BY <1>6 DEF Wake, EndTimer, HandleClosed
<1>7. ASSUME NEW t \in Timer, Called(t) PROVE TimerTypeOK'
  <2>1. timeout_ms[t] \in Timeouts \cup {0}
    OBVIOUS
  <2>2. timeout_ms[t] \in Nat
    BY <2>1, TimeoutsAreNat
  <2>3. woken_at[t] \in 0 .. MaxTime
    OBVIOUS
  <2>4. woken_at[t] + timeout_ms[t] \in Nat
    BY <2>2, <2>3 DEF TimerTypeOK
  <2>5. CASE interval[t]
    BY <1>7, <2>4, <2>5 DEF Called
  <2>6. CASE ~interval[t]
    BY <1>7, <2>6 DEF Called, EndTimer, HandleClosed
  <2> QED BY <2>5, <2>6
<1>8. ASSUME NEW t \in Timer, bio_cancel_timer(t) PROVE TimerTypeOK'
  BY <1>8 DEF bio_cancel_timer, Raise, Raised, HandleClosed
<1>9. CASE UNCHANGED timerVars
  BY <1>9 DEF timerVars, implVars
<1> QED BY <1>1, <1>2, <1>3, <1>4, <1>5, <1>6, <1>7, <1>8, <1>9
        DEF TimerNext, bio_timer_entry

\* A step of one timer leaves the signals of the others alone.
LEMMA ArmedStep == TimerTypeOK /\ Armed /\ [TimerNext]_timerVars => Armed'
<1> SUFFICES ASSUME TimerTypeOK, Armed, [TimerNext]_timerVars, NEW u \in Timer
             PROVE  ArmedAt(u)'
  BY DEF Armed
<1> USE DEF ArmedAt
<1>0. ArmedAt(u)
  BY DEF Armed
<1>a. ASSUME timer_entries' = timer_entries PROVE Entries(u)' = Entries(u)
  BY <1>a DEF Entries
<1>1. CASE Tick
  BY <1>0, <1>1, <1>a DEF Tick, implVars
<1>2. CASE bio_timer_update
  <2>1. Entries(u)' = Entries(u) \ Due
    BY <1>2 DEF bio_timer_update, Entries
  <2>2. CASE \E e \in Due : e.timer = u
    <3>1. Entries(u) # {}
      BY <2>2 DEF Entries, Due
    <3>2. ~wake_live'[u] /\ state'[u] # "waiting"
      <4>1. CASE state[u] = "waiting"
        <5>1. u \in Raised({e.timer : e \in Due})
          BY <1>0, <2>2, <4>1 DEF Raised
        <5> QED BY <1>2, <5>1, <4>1 DEF bio_timer_update, Raise, TimerTypeOK
      <4>2. CASE state[u] # "waiting"
        BY <1>0, <1>2, <4>2 DEF bio_timer_update, Raise, TimerTypeOK
      <4> QED BY <4>1, <4>2
    <3>3. CASE state[u] = "waiting"
      <4>1. PICK e \in timer_entries : Entries(u) = {e}
        BY <1>0, <3>3
      <4>2. Entries(u)' = {}
        BY <2>1, <2>2, <4>1 DEF Entries, Due
      <4> QED BY <3>2, <4>2
    <3>4. CASE state[u] # "waiting"
      <4>1. cancelled[u] /\ state[u] \in {"ready", "ended"}
        BY <1>0, <3>1, <3>4
      <4>2. cancelled'[u] /\ state'[u] = state[u]
        BY <1>2, <3>4, <4>1 DEF bio_timer_update, Raise, TimerTypeOK, implVars
      <4> QED BY <3>2, <4>1, <4>2
    <3> QED BY <3>3, <3>4
  <2>3. CASE ~\E e \in Due : e.timer = u
    <3>1. Entries(u)' = Entries(u)
      BY <2>1, <2>3 DEF Entries
    <3>2. u \notin Raised({e.timer : e \in Due})
      BY <2>3 DEF Raised
    <3>3. wake_live'[u] = wake_live[u] /\ state'[u] = state[u] /\ cancelled'[u] = cancelled[u]
      BY <1>2, <3>2 DEF bio_timer_update, Raise, TimerTypeOK, implVars
    <3>4. ASSUME NEW e \in timer_entries, Entries(u) = {e} PROVE e \in timer_entries'
      BY <3>1, <3>4 DEF Entries
    <3> QED BY <1>0, <3>1, <3>3, <3>4
  <2> QED BY <2>2, <2>3
<1>3. ASSUME NEW t \in Timer, NEW timeout \in Timeouts, NEW is_interval \in BOOLEAN,
             NEW alone \in BOOLEAN, bio_create_timer(t, is_interval, timeout, alone)
      PROVE  ArmedAt(u)'
  <2>1. wake_live' = wake_live /\ cancelled' = cancelled
    BY <1>3 DEF bio_create_timer
  <2>2. CASE u = t
    <3>1. Entries(u) = {}
      BY <1>0, <1>3, <2>2 DEF bio_create_timer
    <3>2. Entries(u)' = {}
      BY <1>3, <3>1 DEF bio_create_timer, Entries
    <3>3. state'[u] = "spawned" /\ ~wake_live[u]
      BY <1>0, <1>3, <2>2 DEF bio_create_timer, TimerTypeOK
    <3> QED BY <2>1, <3>2, <3>3
  <2>3. CASE u # t
    <3>1. state'[u] = state[u]
      BY <1>3, <2>3 DEF bio_create_timer, TimerTypeOK
    <3>2. CASE alone
      <4>1. state[u] \in {"none", "ended"}
        BY <1>3, <3>2 DEF bio_create_timer
      <4>2. Entries(u)' # {} => Entries(u) # {}
        BY <1>3 DEF bio_create_timer, Entries
      <4> QED BY <1>0, <2>1, <3>1, <4>1, <4>2
    <3>3. CASE ~alone
      <4>1. timer_entries' = timer_entries
        BY <1>3, <3>3 DEF bio_create_timer
      <4> QED BY <1>0, <1>a, <2>1, <3>1, <4>1
    <3> QED BY <3>2, <3>3
  <2> QED BY <2>2, <2>3
<1>4. ASSUME NEW t \in Timer, NEW timeout \in Timeouts, bio_reset_timer(t, timeout) PROVE ArmedAt(u)'
  BY <1>0, <1>4, <1>a DEF bio_reset_timer
<1>5. ASSUME NEW t \in Timer, Arm(t) PROVE ArmedAt(u)'
  <2>1. cancelled' = cancelled
    BY <1>5 DEF Arm, implVars
  <2>2. CASE u = t
    <3>1. Entries(u) = {} /\ ~wake_live[u]
      BY <1>0, <1>5, <2>2 DEF Arm
    <3>2. CASE due_time_ms[t] - now > 0
      <4>1. PICK e : e = [timer |-> t, due |-> current_time_ms + (due_time_ms[t] - now)]
        OBVIOUS
      <4>2. timer_entries' = timer_entries \cup {e} /\ e.timer = u
        BY <1>5, <2>2, <3>2, <4>1 DEF Arm
      <4>3. Entries(u)' = {e}
        BY <3>1, <4>2 DEF Entries
      <4>4. state'[u] = "waiting" /\ wake_live'[u]
        BY <1>5, <2>2, <3>2 DEF Arm, TimerTypeOK
      <4>5. e \in timer_entries'
        BY <4>2
      <4>6. \E x \in timer_entries' : Entries(u)' = {x}
        BY <4>3, <4>5
      <4> QED BY <4>4, <4>6
    <3>3. CASE ~(due_time_ms[t] - now > 0)
      BY <1>5, <1>a, <2>2, <3>1, <3>3 DEF Arm, TimerTypeOK
    <3> QED BY <3>2, <3>3
  <2>3. CASE u # t
    <3>1. state'[u] = state[u] /\ wake_live'[u] = wake_live[u]
      BY <1>5, <2>3 DEF Arm, TimerTypeOK
    <3>2. Entries(u)' = Entries(u)
      BY <1>5, <2>3 DEF Arm, Entries
    <3>3. timer_entries \subseteq timer_entries'
      BY <1>5 DEF Arm
    <3> QED BY <1>0, <2>1, <3>1, <3>2, <3>3
  <2> QED BY <2>2, <2>3
<1>6. ASSUME NEW t \in Timer, Wake(t) PROVE ArmedAt(u)'
  <2>1. timer_entries' = timer_entries /\ wake_live' = wake_live /\ cancelled' = cancelled
    BY <1>6 DEF Wake
  <2>2. CASE u = t
    <3>1. state[u] = "ready" /\ state'[u] # "waiting" /\ (cancelled[u] => state'[u] = "ended")
      BY <1>6, <2>2 DEF Wake, EndTimer, TimerTypeOK
    <3> QED BY <1>0, <1>a, <2>1, <3>1
  <2>3. CASE u # t
    <3>1. state'[u] = state[u]
      BY <1>6, <2>3 DEF Wake, EndTimer, TimerTypeOK
    <3> QED BY <1>0, <1>a, <2>1, <3>1
  <2> QED BY <2>2, <2>3
<1>7. ASSUME NEW t \in Timer, Called(t) PROVE ArmedAt(u)'
  <2>1. timer_entries' = timer_entries /\ wake_live' = wake_live /\ cancelled' = cancelled
    BY <1>7 DEF Called
  <2>2. CASE u = t
    <3>1. state[u] = "calling" /\ state'[u] # "waiting"
      BY <1>7, <2>2 DEF Called, EndTimer, TimerTypeOK
    <3> QED BY <1>0, <1>a, <2>1, <3>1
  <2>3. CASE u # t
    <3>1. state'[u] = state[u]
      BY <1>7, <2>3 DEF Called, EndTimer, TimerTypeOK
    <3> QED BY <1>0, <1>a, <2>1, <3>1
  <2> QED BY <2>2, <2>3
<1>8. ASSUME NEW t \in Timer, bio_cancel_timer(t) PROVE ArmedAt(u)'
  <2>1. timer_entries' = timer_entries
    BY <1>8 DEF bio_cancel_timer
  <2>2. CASE u = t
    <3>1. cancelled'[u]
      BY <1>8, <2>2 DEF bio_cancel_timer, TimerTypeOK
    <3>2. CASE wake_live[u]
      <4>1. u \in Raised({t})
        BY <2>2, <3>2 DEF Raised
      <4>2. ~wake_live'[u] /\ state'[u] = "ready"
        BY <1>0, <1>8, <3>2, <4>1 DEF bio_cancel_timer, Raise, TimerTypeOK
      <4> QED BY <3>1, <4>2
    <3>3. CASE ~wake_live[u]
      <4>1. ~wake_live'[u] /\ state'[u] = state[u]
        BY <1>0, <1>8, <3>3 DEF bio_cancel_timer, Raise, TimerTypeOK
      <4> QED BY <1>0, <1>a, <2>1, <3>1, <3>3, <4>1
    <3> QED BY <3>2, <3>3
  <2>3. CASE u # t
    <3>1. u \notin Raised({t})
      BY <2>3 DEF Raised
    <3>2. state'[u] = state[u] /\ wake_live'[u] = wake_live[u] /\ cancelled'[u] = cancelled[u]
      BY <1>8, <2>3, <3>1 DEF bio_cancel_timer, Raise, TimerTypeOK
    <3> QED BY <1>0, <1>a, <2>1, <3>2
  <2> QED BY <2>2, <2>3
<1>9. CASE UNCHANGED timerVars
  BY <1>0, <1>9, <1>a DEF timerVars, implVars
<1> QED BY <1>1, <1>2, <1>3, <1>4, <1>5, <1>6, <1>7, <1>8, <1>9
        DEF TimerNext, bio_timer_entry

\* The inductive invariant of the timers.
THEOREM TimerInvariance == TimerSpec => []TimerInv
<1>1. TimerInit => TimerInv
  BY TimeoutsAssumption, TimeAssumption DEF TimerInit, TimerInv, TimerTypeOK, Armed, ArmedAt, Entries
<1>2. TimerInv /\ [TimerNext]_timerVars => TimerInv'
  BY TimerTypeStep, ArmedStep DEF TimerInv
<1> QED BY <1>1, <1>2, PTL DEF TimerSpec

\* The variables of the timers keep their types; the cached time of bio_timer_update
\* is never ahead of the clock.
THEOREM TimerTypeCorrect == TimerSpec => []TimerTypeOK
<1>1. TimerInv => TimerTypeOK
  BY DEF TimerInv
<1> QED BY <1>1, TimerInvariance, PTL

\* A timer asleep has its wake signal among the delayed ones, exactly once, for any
\* number of timers, however resets, cancellations and late updates fall.
THEOREM ArmedCorrect == TimerSpec => []WaitingIsArmed
<1>1. TimerInv => WaitingIsArmed
  <2> SUFFICES ASSUME TimerInv, NEW t \in Timer, state[t] = "waiting"
               PROVE  wake_live[t] /\ Cardinality({e \in timer_entries : e.timer = t}) = 1
    BY DEF WaitingIsArmed
  <2>1. wake_live[t] /\ \E e \in timer_entries : Entries(t) = {e}
    BY DEF TimerInv, Armed, ArmedAt
  <2>2. PICK e \in timer_entries : Entries(t) = {e}
    BY <2>1
  <2>3. Cardinality({e}) = 1
    BY FS_Singleton
  <2> QED BY <2>1, <2>2, <2>3 DEF Entries
<1> QED BY <1>1, TimerInvariance, PTL

\* bio_timer_entry calls the function only at the due time or later, and not after
\* bio_cancel_timer, although the wake signal may come early or be raised by the
\* cancellation.
THEOREM NotEarlyCorrect == TimerSpec => NotCalledEarly
<1>1. TimerInv /\ [TimerNext]_timerVars =>
        [\A t \in Timer : state[t] # "calling" /\ state'[t] = "calling" =>
            now >= due_time_ms[t] /\ ~cancelled[t]]_timerVars
  <2> SUFFICES ASSUME TimerTypeOK, TimerNext, NEW u \in Timer,
                      state[u] # "calling", state'[u] = "calling"
               PROVE  now >= due_time_ms[u] /\ ~cancelled[u]
    BY DEF TimerInv
  <2>1. ASSUME NEW t \in Timer, Wake(t) PROVE now >= due_time_ms[u] /\ ~cancelled[u]
    BY <2>1 DEF Wake, EndTimer, IsDue, TimerTypeOK
  <2>2. ~Tick
    BY DEF Tick
  <2>3. ~bio_timer_update
    BY DEF bio_timer_update, Raise, TimerTypeOK
  <2>4. \A t \in Timer, timeout \in Timeouts, is_interval, alone \in BOOLEAN :
            ~bio_create_timer(t, is_interval, timeout, alone)
    BY DEF bio_create_timer, TimerTypeOK
  <2>5. \A t \in Timer, timeout \in Timeouts : ~bio_reset_timer(t, timeout)
    BY DEF bio_reset_timer
  <2>6. \A t \in Timer : ~Arm(t)
    BY DEF Arm, TimerTypeOK
  <2>7. \A t \in Timer : ~Called(t)
    BY DEF Called, EndTimer, TimerTypeOK
  <2>8. \A t \in Timer : ~bio_cancel_timer(t)
    BY DEF bio_cancel_timer, Raise, TimerTypeOK
  <2> QED BY <2>1, <2>2, <2>3, <2>4, <2>5, <2>6, <2>7, <2>8 DEF TimerNext, bio_timer_entry
<1> QED BY <1>1, TimerInvariance, PTL DEF TimerSpec, NotCalledEarly
-----------------------------------------------------------------------------
(***************************************************************************)
(* Buffers.                                                                 *)
(*                                                                          *)
(* WrittenInOrder speaks of the moments between operations, ReadInOrder of  *)
(* concatenations.  The invariant says byte by byte what is in the sink,    *)
(* with the user or in the buffer, also in the middle of an operation:      *)
(* total bytes of the buffer are in the sink already while it is flushed.   *)
(***************************************************************************)
\* Where the user and the coroutine that destroys the buffer can be together.
Phases ==
    /\ buf_impl = "closed" <=> destroyer # "idle"
    /\ kind = "read" => user \in {"idle", "again", "refill", "undefined"} /\ destroyer = "idle"
    /\ kind = "write" => user # "refill"
    /\ user = "refill" => data = <<>> /\ op = "read"
    /\ user = "again" => op = kind
    /\ user \notin {"flush", "undefined"} => total = 0
    /\ user = "direct" => op = "write" /\ data = <<>>
    /\ user = "fflush" => ~exactly /\ left = 0 /\ op # "write"
    /\ user = "flush" => op \in {"write", "flush"} /\ total < Len(data)
    /\ op = "write" => kind = "write" /\ accepted + left <= MaxBytes
    /\ buf_impl # "open" /\ ~raced => user = "idle"
    /\ buf_impl = "open" => ~raced
    /\ buf_impl = "open" \/ destroyer = "write" => ~cut

\* Bytes are received, then buffered, in the order of the source.
ReadOrder ==
    kind = "read" =>
        /\ Len(got) + Len(data) = source
        /\ \A i \in 1 .. Len(got) : got[i] = i
        /\ \A i \in 1 .. Len(data) : data[i] = Len(got) + i

\* What is in the buffer has yet to be written.
Kept == buf_impl = "open" \/ destroyer = "write"

\* Nothing has happened that WrittenInOrder excepts.
Smooth == kind = "write" /\ ~rewrites /\ ~raced /\ ~cut

\* Bytes are written, then buffered, in the order in which they were handed over.
WriteOrder ==
    Smooth =>
        /\ \A i \in 1 .. Len(sink) : sink[i] = i
        /\ Kept => /\ Len(sink) + Len(data) = accepted + total
                   /\ \A i \in 1 .. Len(data) : data[i] = Len(sink) - total + i
        /\ ~Kept => Len(sink) = accepted

BufferInv == BufferTypeOK /\ Phases /\ ReadOrder /\ WriteOrder

\* The n bytes after byte a.
LEMMA BytesAfter ==
    ASSUME NEW a \in Nat, NEW n \in Nat
    PROVE  /\ Bytes(a + 1, a + n) \in Seq(Nat)
           /\ Len(Bytes(a + 1, a + n)) = n
           /\ \A i \in 1 .. n : Bytes(a + 1, a + n)[i] = a + i
<1>1. (a + n) - (a + 1) + 1 = n
  OBVIOUS
<1>2. Bytes(a + 1, a + n) = [i \in 1 .. n |-> (a + 1) + i - 1]
  BY <1>1 DEF Bytes
<1>3. \A i \in 1 .. n : (a + 1) + i - 1 \in Nat /\ (a + 1) + i - 1 = a + i
  OBVIOUS
<1> QED BY <1>2, <1>3

\* A sequence followed by a part of another.
LEMMA AppendPart ==
    ASSUME NEW s \in Seq(Nat), NEW d \in Seq(Nat), NEW from \in Nat, NEW n \in Nat,
           from + n <= Len(d), NEW t, t = s \o SubSeq(d, from + 1, from + n)
    PROVE  /\ t \in Seq(Nat)
           /\ Len(t) = Len(s) + n
           /\ \A i \in 1 .. Len(s) : t[i] = s[i]
           /\ \A i \in Len(s) + 1 .. Len(s) + n : t[i] = d[from + (i - Len(s))]
<1>1. \A i \in from + 1 .. from + n : d[i] \in Nat
  OBVIOUS
<1>2. /\ SubSeq(d, from + 1, from + n) \in Seq(Nat)
      /\ Len(SubSeq(d, from + 1, from + n)) =
            IF from + 1 <= from + n THEN (from + n) - (from + 1) + 1 ELSE 0
      /\ \A i \in 1 .. (from + n) - (from + 1) + 1 :
            SubSeq(d, from + 1, from + n)[i] = d[(from + 1) + i - 1]
  BY <1>1, SubSeqProperties
<1>3. PICK p \in Seq(Nat) : p = SubSeq(d, from + 1, from + n)
  BY <1>2
<1>4. Len(p) = n
  BY <1>2, <1>3
<1>5. \A i \in 1 .. n : p[i] = d[from + i]
  BY <1>2, <1>3
<1>6. /\ s \o p \in Seq(Nat)
      /\ Len(s \o p) = Len(s) + n
      /\ \A i \in 1 .. Len(s) + n : (s \o p)[i] = IF i <= Len(s) THEN s[i] ELSE p[i - Len(s)]
  BY <1>4, ConcatProperties
<1>7. \A i \in 1 .. Len(s) : (s \o p)[i] = s[i]
  BY <1>6
<1>8. ASSUME NEW i \in Len(s) + 1 .. Len(s) + n PROVE (s \o p)[i] = d[from + (i - Len(s))]
  <2>1. PICK len \in Nat : len = Len(s)
    OBVIOUS
  <2>2. i \in Int /\ len + 1 <= i /\ i <= len + n
    BY <2>1
  <2>3. i - len \in 1 .. n /\ i \in 1 .. len + n /\ ~(i <= len)
    BY <2>2
  <2>4. PICK j \in 1 .. n : j = i - len
    BY <2>3
  <2>5. (s \o p)[i] = IF i <= len THEN s[i] ELSE p[i - len]
    BY <1>6, <2>1, <2>3
  <2>6. (s \o p)[i] = p[j]
    BY <2>3, <2>4, <2>5
  <2> QED BY <1>5, <2>1, <2>4, <2>6
<1> QED BY <1>3, <1>6, <1>7, <1>8

\* A sequence followed by bytes of the user or of the source.
LEMMA AppendBytes ==
    ASSUME NEW s \in Seq(Nat), NEW a \in Nat, NEW n \in Nat
    PROVE  /\ s \o Bytes(a + 1, a + n) \in Seq(Nat)
           /\ Len(s \o Bytes(a + 1, a + n)) = Len(s) + n
           /\ \A i \in 1 .. Len(s) : (s \o Bytes(a + 1, a + n))[i] = s[i]
           /\ \A i \in Len(s) + 1 .. Len(s) + n :
                 (s \o Bytes(a + 1, a + n))[i] = a + (i - Len(s))
<1>1. PICK b \in Seq(Nat) : b = Bytes(a + 1, a + n)
  BY BytesAfter
<1>2. Len(b) = n /\ \A i \in 1 .. n : b[i] = a + i
  BY <1>1, BytesAfter
<1>3. /\ s \o b \in Seq(Nat)
      /\ Len(s \o b) = Len(s) + n
      /\ \A i \in 1 .. Len(s) + n : (s \o b)[i] = IF i <= Len(s) THEN s[i] ELSE b[i - Len(s)]
  BY <1>2, ConcatProperties
<1>4. \A i \in 1 .. Len(s) : (s \o b)[i] = s[i]
  BY <1>3
<1>5. \A i \in Len(s) + 1 .. Len(s) + n : (s \o b)[i] = a + (i - Len(s))
  BY <1>2, <1>3
<1> QED BY <1>1, <1>3, <1>4, <1>5

\* The rest of a sequence.
LEMMA Rest ==
    ASSUME NEW d \in Seq(Nat), NEW n \in Nat, n <= Len(d)
    PROVE  /\ SubSeq(d, n + 1, Len(d)) \in Seq(Nat)
           /\ Len(SubSeq(d, n + 1, Len(d))) = Len(d) - n
           /\ \A i \in 1 .. Len(d) - n : SubSeq(d, n + 1, Len(d))[i] = d[n + i]
<1>1. \A i \in n + 1 .. Len(d) : d[i] \in Nat
  OBVIOUS
<1>2. PICK len \in Nat : len = Len(d)
  OBVIOUS
<1>3. /\ SubSeq(d, n + 1, len) \in Seq(Nat)
      /\ Len(SubSeq(d, n + 1, len)) = IF n + 1 <= len THEN len - (n + 1) + 1 ELSE 0
      /\ \A i \in 1 .. len - (n + 1) + 1 : SubSeq(d, n + 1, len)[i] = d[(n + 1) + i - 1]
  BY <1>1, <1>2, SubSeqProperties
<1>4. Len(SubSeq(d, n + 1, len)) = len - n
  BY <1>2, <1>3
<1>5. \A i \in 1 .. len - n : SubSeq(d, n + 1, len)[i] = d[n + i]
  BY <1>2, <1>3
<1> QED BY <1>2, <1>3, <1>4, <1>5

\* The steps of the two coroutines, the calls of the user and the rounds of the
\* _exactly helpers taken together.
BufferFrame == UNCHANGED <<buffer, buf_impl, destroyer, rewrites, raced, cut>>

Call(size) ==
    /\ user \in {"idle", "again"}
    /\ BufferFrame
    /\ \E exact \in BOOLEAN :
          \/ accepted + size <= MaxBytes /\ bio_buffered_write(size, exact)
          \/ bio_buffered_read(size, exact)

FlushCall == user = "idle" /\ bio_flush_buffer /\ BufferFrame

Fail ==
    /\ buf_impl = "freed" /\ user \in {"flush", "refill"} /\ user' = "undefined"
    /\ UNCHANGED <<data, request, streams>> /\ BufferFrame

ResumeFrame == UNCHANGED <<buffer, buf_impl, destroyer, raced, cut>>

\* Every step of the buffer is one of these, with what the invariant says of its subject.
LEMMA BufferSteps ==
    ASSUME BufferInv, [BufferNext]_bufferVars
    PROVE  \/ \E size \in 0 .. MaxRequest : Call(size)
           \/ FlushCall
           \/ Fail
           \/ \E n \in 0 .. MaxBytes :
                 /\ bio_flush_internal_buffer(n) \/ Written(n) \/ Refilled(n)
                 /\ ResumeFrame
           \/ bio_destroy_buffer
           \/ \E n \in 0 .. Size : Destroyed(n)
           \/ UNCHANGED bufferVars
<1>1. CASE Request
  <2>1. CASE user = "idle"
    <3>1. CASE bio_flush_buffer
      BY <1>1, <2>1, <3>1 DEF Request, FlushCall, BufferFrame
    <3>2. ASSUME NEW size \in 1 .. MaxRequest, NEW exact \in BOOLEAN,
                 \/ accepted + size <= MaxBytes /\ bio_buffered_write(size, exact)
                 \/ bio_buffered_read(size, exact)
          PROVE  Call(size) /\ size \in 0 .. MaxRequest
      BY <1>1, <2>1, <3>2 DEF Request, Call, BufferFrame
    <3> QED BY <1>1, <2>1, <3>1, <3>2 DEF Request
  <2>2. CASE user = "again"
    <3>1. left \in 0 .. MaxRequest /\ op = kind /\ (op = "write" => accepted + left <= MaxBytes)
      BY <2>2 DEF BufferInv, BufferTypeOK, Phases
    <3>2. Call(left)
      BY <1>1, <2>2, <3>1 DEF Request, Call, BufferFrame
    <3> QED BY <3>1, <3>2
  <2> QED BY <1>1, <2>1, <2>2 DEF Request
<1>2. CASE Resume
  BY <1>2 DEF Resume, Fail, ResumeFrame, BufferFrame
<1> QED BY <1>1, <1>2 DEF BufferNext

\* A refused call changes nothing but where the user is.
LEMMA IdleStep ==
    ASSUME BufferInv, Idle, user \in {"idle", "again", "fflush"},
           UNCHANGED <<data, streams, buffer, buf_impl, destroyer, rewrites, raced, cut>>
    PROVE  BufferInv'
<1> USE SizeAssumption, BytesAssumption
    DEF BufferInv, Idle, streams, buffer
<1>1. BufferTypeOK'
  <2>1. exactly' \in BOOLEAN
    BY Zenon
  <2> QED BY <2>1 DEF BufferTypeOK
<1>2. Phases'
  BY DEF BufferTypeOK, Phases
<1>3. ReadOrder'
  BY DEF ReadOrder
<1>4. WriteOrder'
  BY DEF BufferTypeOK, Phases, WriteOrder, Smooth, Kept
<1> QED BY <1>1, <1>2, <1>3, <1>4

\* The user suspends in a call of write_fn, read_fn or flush_fn before anything is moved.
LEMMA SuspendStep ==
    ASSUME BufferInv, NEW at, NEW which, NEW size \in 0 .. MaxRequest, NEW exact \in BOOLEAN,
           Suspend(at, which, size, exact), user \in {"idle", "again"}, buf_impl = "open",
           UNCHANGED <<data, streams, buffer, buf_impl, destroyer, rewrites, raced, cut>>,
           \/ at = "flush" /\ which = "flush" /\ data # <<>> /\ kind = "write"
           \/ at = "flush" /\ which = "write" /\ data # <<>> /\ kind = "write" /\ accepted + size <= MaxBytes
           \/ at = "direct" /\ which = "write" /\ data = <<>> /\ kind = "write" /\ accepted + size <= MaxBytes
           \/ at = "fflush" /\ which = "flush" /\ size = 0 /\ ~exact /\ kind = "write"
           \/ at = "refill" /\ which = "read" /\ data = <<>> /\ kind = "read"
    PROVE  BufferInv'
<1> USE SizeAssumption, BytesAssumption
    DEF BufferInv, Suspend, streams, buffer
<1>1. BufferTypeOK'
  BY DEF BufferTypeOK
<1>2. Phases'
  <2>1. Len(data) \in Nat /\ (data # <<>> => 0 < Len(data))
    BY DEF BufferTypeOK
  <2>2. exactly' = exact /\ (at = "fflush" => ~exact)
    OBVIOUS
  <2>3. user' = "fflush" => ~exactly' /\ left' = 0 /\ op' # "write"
    BY <2>2
  <2> QED BY <2>1, <2>3 DEF BufferTypeOK, Phases
<1>3. ReadOrder'
  BY DEF ReadOrder
<1>4. WriteOrder'
  BY DEF BufferTypeOK, Phases, WriteOrder, Smooth, Kept
<1> QED BY <1>1, <1>2, <1>3, <1>4

\* bio_buffered_write: refused, put in the buffer, or suspended.
LEMMA WriteCallStep ==
    ASSUME BufferInv, NEW size \in 0 .. MaxRequest, NEW exact \in BOOLEAN,
           user \in {"idle", "again"}, BufferFrame,
           accepted + size <= MaxBytes, bio_buffered_write(size, exact)
    PROVE  BufferInv'
<1>1. CASE Refused("write")
  BY <1>1, IdleStep DEF bio_buffered_write, Refuse, BufferFrame
<1>2. CASE ~Refused("write")
  <2>1. buf_impl = "open" /\ kind = "write"
    BY <1>2 DEF Refused
  <2>2. CASE ~Fits(size, Len(data)) /\ data # <<>>
    <3>1. Suspend("flush", "write", size, exact)
      BY <1>2, <2>2 DEF bio_buffered_write
    <3>2. UNCHANGED <<data, streams, buffer, buf_impl, destroyer, rewrites, raced, cut>>
      BY <1>2, <2>2 DEF bio_buffered_write, BufferFrame, streams
    <3> QED BY <2>1, <2>2, <3>1, <3>2, SuspendStep
  <2>3. CASE ~Fits(size, Len(data)) /\ data = <<>>
    <3>1. Suspend("direct", "write", size, exact)
      BY <1>2, <2>3 DEF bio_buffered_write, PutOrWrite
    <3>2. UNCHANGED <<data, streams, buffer, buf_impl, destroyer, rewrites, raced, cut>>
      BY <1>2, <2>3 DEF bio_buffered_write, PutOrWrite, BufferFrame, streams
    <3> QED BY <2>1, <2>3, <3>1, <3>2, SuspendStep
  <2>4. CASE Fits(size, Len(data))
    <3> USE SizeAssumption, BytesAssumption
    <3>1. /\ data' = data \o Bytes(accepted + 1, accepted + size)
          /\ accepted' = accepted + size
          /\ Return(size, size, "write", exact)
          /\ UNCHANGED <<sink, source, got>>
      BY <1>2, <2>4 DEF bio_buffered_write, PutOrWrite
    <3>2. Idle
      BY <3>1 DEF Return
    <3>3. /\ UNCHANGED <<kind, flushes, buf_impl, destroyer, rewrites, raced, cut>>
          /\ user' = "idle" /\ op' = "none" /\ left' = 0 /\ total' = 0
      BY <3>2 DEF BufferFrame, buffer, Idle
    <3>4. exactly' \in BOOLEAN
      BY <3>2, Zenon DEF Idle
    <3>5. data \in Seq(Nat) /\ accepted \in Nat /\ size \in Nat
      BY DEF BufferInv, BufferTypeOK
    <3>6. /\ data' \in Seq(Nat)
          /\ Len(data') = Len(data) + size
          /\ \A i \in 1 .. Len(data) : data'[i] = data[i]
          /\ \A i \in Len(data) + 1 .. Len(data) + size : data'[i] = accepted + (i - Len(data))
      <4>1. PICK d \in Seq(Nat) : d = data
        BY <3>5
      <4>2. PICK a \in Nat : a = accepted
        BY <3>5
      <4>3. data' = d \o Bytes(a + 1, a + size)
        BY <3>1, <4>1, <4>2
      <4>4. /\ d \o Bytes(a + 1, a + size) \in Seq(Nat)
            /\ Len(d \o Bytes(a + 1, a + size)) = Len(d) + size
            /\ \A i \in 1 .. Len(d) : (d \o Bytes(a + 1, a + size))[i] = d[i]
            /\ \A i \in Len(d) + 1 .. Len(d) + size :
                  (d \o Bytes(a + 1, a + size))[i] = a + (i - Len(d))
        BY <3>5, AppendBytes, ZenonT(30)
      <4> QED BY <4>1, <4>2, <4>3, <4>4
    <3>7. BufferTypeOK'
      BY <2>4, <3>1, <3>3, <3>4, <3>6 DEF BufferInv, BufferTypeOK, Fits
    <3>8. Phases'
      BY <2>1, <3>3 DEF BufferInv, BufferTypeOK, Phases
    <3>9. ReadOrder'
      BY <2>1, <3>3 DEF ReadOrder
    <3>10. WriteOrder'
      <4> SUFFICES ASSUME Smooth' PROVE
              /\ \A i \in 1 .. Len(sink) : sink[i] = i
              /\ Len(sink) + Len(data') = accepted'
              /\ \A i \in 1 .. Len(data') : data'[i] = Len(sink) + i
        BY <2>1, <3>1, <3>3 DEF WriteOrder, Kept, BufferInv, BufferTypeOK
      <4>1. total = 0 /\ Len(sink) \in Nat /\ Len(data) \in Nat
        BY DEF BufferInv, BufferTypeOK, Phases
      <4>2. /\ \A i \in 1 .. Len(sink) : sink[i] = i
            /\ Len(sink) + Len(data) = accepted
            /\ \A i \in 1 .. Len(data) : data[i] = Len(sink) + i
        <5>1. Smooth
          BY <3>3 DEF Smooth
        <5>2. /\ \A i \in 1 .. Len(sink) : sink[i] = i
              /\ Len(sink) + Len(data) = accepted + total
              /\ \A i \in 1 .. Len(data) : data[i] = Len(sink) - total + i
          BY <2>1, <5>1 DEF BufferInv, WriteOrder, Kept
        <5>3. Len(sink) + Len(data) = accepted
          BY <3>5, <4>1, <5>2
        <5>4. \A i \in 1 .. Len(data) : data[i] = Len(sink) + i
          BY <4>1, <5>2
        <5> QED BY <5>2, <5>3, <5>4
      <4>3. Len(sink) + Len(data') = accepted'
        <5>1. accepted' = accepted + size
          BY <3>1
        <5>2. Len(data') = Len(data) + size /\ Len(sink) + Len(data) = accepted
          BY <3>6, <4>2
        <5> QED BY <3>5, <4>1, <5>1, <5>2
      <4>4. ASSUME NEW i \in 1 .. Len(data') PROVE data'[i] = Len(sink) + i
        <5>1. CASE i <= Len(data)
          BY <3>6, <4>1, <4>2, <5>1
        <5>2. CASE i > Len(data)
          <6>1. i \in Len(data) + 1 .. Len(data) + size
            BY <3>5, <3>6, <4>1, <5>2
          <6>2. data'[i] = accepted + (i - Len(data)) /\ Len(sink) + Len(data) = accepted
            BY <3>6, <4>2, <6>1
          <6> QED BY <4>1, <6>1, <6>2
        <5> QED BY <3>5, <3>6, <4>1, <5>1, <5>2
      <4> QED BY <4>2, <4>3, <4>4
    <3> QED BY <3>7, <3>8, <3>9, <3>10 DEF BufferInv
  <2> QED BY <2>2, <2>3, <2>4
<1> QED BY <1>1, <1>2

\* The bytes the user receives from the buffer, or from what was read into it, are
\* the next ones: all that was read is with the user or in the buffer.
LEMMA DeliverStep ==
    ASSUME BufferInv, NEW size \in 0 .. MaxRequest, NEW exact \in BOOLEAN, NEW avail \in Seq(Nat),
           kind = "read", user = "refill" \/ (user \in {"idle", "again"} /\ buf_impl = "open"),
           Deliver(size, exact, avail),
           Len(avail) <= Size,
           Len(got) + Len(avail) = source', source' \in 0 .. MaxBytes,
           \A i \in 1 .. Len(avail) : avail[i] = Len(got) + i,
           UNCHANGED <<sink, accepted, buffer, buf_impl, destroyer, rewrites, raced, cut>>
    PROVE  BufferInv'
<1> USE SizeAssumption, BytesAssumption
<1>1. PICK len \in Nat : len = Len(avail)
  OBVIOUS
<1>2. PICK n \in Nat : n = IF size < len THEN size ELSE len
  OBVIOUS
<1>3. n <= len
  BY <1>2
<1>4. /\ got' = got \o SubSeq(avail, 1, n)
      /\ data' = SubSeq(avail, n + 1, Len(avail))
      /\ Return(n, size, "read", exact)
  BY <1>1, <1>2 DEF Deliver
<1>5. got \in Seq(Nat) /\ \A i \in 1 .. Len(got) : got[i] = i
  BY DEF BufferInv, BufferTypeOK, ReadOrder
<1>6. /\ got' \in Seq(Nat)
      /\ Len(got') = Len(got) + n
      /\ \A i \in 1 .. Len(got) : got'[i] = got[i]
      /\ \A i \in Len(got) + 1 .. Len(got) + n : got'[i] = avail[0 + (i - Len(got))]
  <2>1. PICK g \in Seq(Nat) : g = got
    BY <1>5
  <2>2. 0 + n <= Len(avail)
    BY <1>1, <1>3
  <2>3. PICK t : t = g \o SubSeq(avail, 0 + 1, 0 + n)
    OBVIOUS
  <2>4. /\ t \in Seq(Nat)
        /\ Len(t) = Len(g) + n
        /\ \A i \in 1 .. Len(g) : t[i] = g[i]
        /\ \A i \in Len(g) + 1 .. Len(g) + n : t[i] = avail[0 + (i - Len(g))]
    <3>1. t \in Seq(Nat)
      BY <2>2, <2>3, AppendPart
    <3>2. Len(t) = Len(g) + n
      BY <2>2, <2>3, AppendPart
    <3>3. \A i \in 1 .. Len(g) : t[i] = g[i]
      BY <2>2, <2>3, AppendPart
    <3>4. \A i \in Len(g) + 1 .. Len(g) + n : t[i] = avail[0 + (i - Len(g))]
      BY <2>2, <2>3, AppendPart
    <3> QED BY <3>1, <3>2, <3>3, <3>4
  <2>5. 0 + 1 = 1 /\ 0 + n = n
    OBVIOUS
  <2>6. got' = t
    BY <1>4, <2>1, <2>3, <2>5
  <2> QED BY <2>1, <2>4, <2>6
<1>7. /\ data' \in Seq(Nat)
      /\ Len(data') = Len(avail) - n
      /\ \A i \in 1 .. Len(avail) - n : data'[i] = avail[n + i]
  BY <1>1, <1>3, <1>4, Rest
<1>8. /\ UNCHANGED <<kind, flushes, sink, accepted, buf_impl, destroyer, rewrites, raced, cut>>
      /\ total' = 0
      /\ \/ user' = "again" /\ op' = "read" /\ left' = size - n /\ exactly' = exact /\ n < size
         \/ user' = "idle" /\ op' = "none" /\ left' = 0 /\ exactly' = FALSE
  BY <1>4 DEF Return, Suspend, Idle, buffer
<1>9. exactly' \in BOOLEAN
  BY <1>8, Zenon
<1>10. left' \in 0 .. MaxRequest
  BY <1>8
<1>11. BufferTypeOK'
  BY <1>1, <1>6, <1>7, <1>8, <1>9, <1>10 DEF BufferInv, BufferTypeOK
<1>12. Phases'
  BY <1>8 DEF BufferInv, BufferTypeOK, Phases
<1>13. ReadOrder'
  <2>1. Len(got) \in Nat
    BY <1>5
  <2>2. Len(got') + Len(data') = source'
    BY <1>1, <1>6, <1>7, <2>1
  <2>3. ASSUME NEW i \in 1 .. Len(got') PROVE got'[i] = i
    <3>1. CASE i <= Len(got)
      <4>1. i \in 1 .. Len(got)
        BY <2>1, <3>1
      <4> QED BY <1>5, <1>6, <4>1
    <3>2. CASE i > Len(got)
      <4>1. i - Len(got) \in 1 .. Len(avail) /\ 0 + (i - Len(got)) = i - Len(got)
        BY <1>1, <1>3, <1>6, <2>1, <3>2
      <4> QED BY <1>6, <2>1, <3>2, <4>1
    <3> QED BY <1>6, <2>1, <3>1, <3>2
  <2>4. ASSUME NEW i \in 1 .. Len(data') PROVE data'[i] = Len(got') + i
    <3>1. n + i \in 1 .. Len(avail)
      BY <1>1, <1>3, <1>7
    <3> QED BY <1>1, <1>6, <1>7, <2>1, <3>1
  <2> QED BY <2>2, <2>3, <2>4 DEF ReadOrder
<1>14. WriteOrder'
  BY <1>8 DEF WriteOrder, Smooth
<1> QED BY <1>11, <1>12, <1>13, <1>14 DEF BufferInv

\* bio_buffered_read: refused, served from the buffer, or suspended in read_fn.
LEMMA ReadCallStep ==
    ASSUME BufferInv, NEW size \in 0 .. MaxRequest, NEW exact \in BOOLEAN,
           user \in {"idle", "again"}, BufferFrame, bio_buffered_read(size, exact)
    PROVE  BufferInv'
<1>1. CASE Refused("read")
  BY <1>1, IdleStep DEF bio_buffered_read, Refuse, BufferFrame
<1>2. CASE ~Refused("read")
  <2>1. buf_impl = "open" /\ kind = "read"
    BY <1>2 DEF Refused
  <2>2. CASE data = <<>>
    <3>1. Suspend("refill", "read", size, exact)
      BY <1>2, <2>2 DEF bio_buffered_read
    <3>2. UNCHANGED <<data, streams, buffer, buf_impl, destroyer, rewrites, raced, cut>>
      BY <1>2, <2>2 DEF bio_buffered_read, BufferFrame, streams
    <3> QED BY <2>1, <2>2, <3>1, <3>2, SuspendStep
  <2>3. CASE data # <<>>
    <3>1. Deliver(size, exact, data) /\ UNCHANGED <<sink, accepted, source>>
      BY <1>2, <2>3 DEF bio_buffered_read
    <3>2. PICK avail \in Seq(Nat) : avail = data
      BY DEF BufferInv, BufferTypeOK
    <3>3. Deliver(size, exact, avail)
      BY <3>1, <3>2
    <3>4. /\ Len(avail) <= Size
          /\ Len(got) + Len(avail) = source' /\ source' \in 0 .. MaxBytes
          /\ \A i \in 1 .. Len(avail) : avail[i] = Len(got) + i
      BY <2>1, <3>1, <3>2 DEF BufferInv, BufferTypeOK, ReadOrder
    <3>5. UNCHANGED <<sink, accepted, buffer, buf_impl, destroyer, rewrites, raced, cut>>
      BY <3>1 DEF BufferFrame
    <3> QED BY <2>1, <3>3, <3>4, <3>5, DeliverStep
  <2> QED BY <2>2, <2>3
<1> QED BY <1>1, <1>2

\* bio_flush_buffer.
LEMMA FlushCallStep == ASSUME BufferInv, FlushCall PROVE BufferInv'
<1>0. user = "idle" /\ bio_flush_buffer /\ BufferFrame
  BY DEF FlushCall
<1>1. UNCHANGED <<data, streams, buffer, buf_impl, destroyer, rewrites, raced, cut>>
  BY <1>0 DEF bio_flush_buffer, Refuse, BufferFrame
<1>2. CASE Idle
  BY <1>0, <1>1, <1>2, IdleStep
<1>3. CASE ~Refused("write") /\ data # <<>> /\ Suspend("flush", "flush", 0, FALSE)
  <2>1. buf_impl = "open" /\ kind = "write"
    BY <1>3 DEF Refused
  <2>2. 0 \in 0 .. MaxRequest
    BY SizeAssumption
  <2> QED BY <1>0, <1>1, <1>3, <2>1, <2>2, SuspendStep
<1>4. CASE ~Refused("write") /\ Suspend("fflush", "flush", 0, FALSE)
  <2>1. buf_impl = "open" /\ kind = "write"
    BY <1>4 DEF Refused
  <2>2. 0 \in 0 .. MaxRequest
    BY SizeAssumption
  <2> QED BY <1>0, <1>1, <1>4, <2>1, <2>2, SuspendStep
<1> QED BY <1>0, <1>2, <1>3, <1>4 DEF bio_flush_buffer, Refuse

\* A user that finds the buffer freed: it was destroyed under it.
LEMMA FailStep == ASSUME BufferInv, Fail PROVE BufferInv'
<1> USE DEF BufferInv, Fail, BufferFrame, streams, request, buffer
<1>1. BufferTypeOK'
  BY DEF BufferTypeOK
<1>2. raced
  BY DEF BufferTypeOK, Phases
<1>3. Phases'
  BY <1>2 DEF BufferTypeOK, Phases
<1>4. ReadOrder'
  BY DEF ReadOrder
<1>5. WriteOrder'
  BY <1>2 DEF WriteOrder, Smooth
<1> QED BY <1>1, <1>3, <1>4, <1>5

\* read_fn returns to bio_buffered_read.
LEMMA RefilledStep ==
    ASSUME BufferInv, NEW n \in 0 .. MaxBytes, Refilled(n), ResumeFrame
    PROVE  BufferInv'
<1> USE SizeAssumption, BytesAssumption
<1>0. /\ user = "refill" /\ n <= Size /\ source + n <= MaxBytes /\ source' = source + n
      /\ UNCHANGED <<sink, accepted, rewrites, buffer, buf_impl, destroyer, raced, cut>>
  BY DEF Refilled, ResumeFrame
<1>1. kind = "read" /\ data = <<>> /\ source \in Nat /\ got \in Seq(Nat) /\ Len(got) = source
  <2>1. user = "refill" /\ kind \in {"read", "write"}
    BY <1>0 DEF BufferInv, BufferTypeOK
  <2>2. kind = "read" /\ data = <<>> /\ source \in Nat /\ got \in Seq(Nat)
    BY <2>1 DEF BufferInv, BufferTypeOK, Phases
  <2>3. Len(got) + Len(data) = source
    BY <2>2 DEF BufferInv, ReadOrder
  <2> QED BY <2>2, <2>3
<1>2. CASE n = 0
  <2>1. Idle /\ UNCHANGED <<data, got>> /\ source' = source
    BY <1>0, <1>1, <1>2 DEF Refilled
  <2>2. UNCHANGED <<kind, flushes, buf_impl, destroyer, rewrites, raced, cut, sink, accepted,
                    data, got, source>>
    BY <1>0, <2>1 DEF buffer
  <2>3. user' = "idle" /\ op' = "none" /\ left' = 0 /\ total' = 0
    BY <2>1 DEF Idle
  <2>4. exactly' \in BOOLEAN
    BY <2>1, Zenon DEF Idle
  <2>5. BufferTypeOK'
    BY <2>2, <2>3, <2>4 DEF BufferInv, BufferTypeOK
  <2>6. Phases'
    BY <2>2, <2>3 DEF BufferInv, Phases
  <2>7. ReadOrder'
    BY <2>2 DEF BufferInv, ReadOrder
  <2>8. WriteOrder'
    BY <1>1, <2>2 DEF WriteOrder, Smooth
  <2> QED BY <2>5, <2>6, <2>7, <2>8 DEF BufferInv
<1>3. CASE n # 0
  <2>1. PICK a \in Nat : a = source
    BY <1>1
  <2>2. PICK avail \in Seq(Nat) : avail = Bytes(a + 1, a + n)
    BY BytesAfter
  <2>3. Deliver(left, exactly, avail)
    BY <1>3, <2>1, <2>2 DEF Refilled
  <2>4. Len(avail) = n /\ \A i \in 1 .. n : avail[i] = a + i
    <3>1. PICK m \in Nat : m = n
      BY <1>0
    <3>2. /\ Len(Bytes(a + 1, a + m)) = m
          /\ \A i \in 1 .. m : Bytes(a + 1, a + m)[i] = a + i
      BY BytesAfter
    <3> QED BY <2>2, <3>1, <3>2
  <2>5. /\ Len(avail) <= Size
        /\ Len(got) + Len(avail) = source' /\ source' \in 0 .. MaxBytes
        /\ \A i \in 1 .. Len(avail) : avail[i] = Len(got) + i
    BY <1>0, <1>1, <2>1, <2>4
  <2>6. PICK size \in 0 .. MaxRequest : size = left
    BY DEF BufferInv, BufferTypeOK
  <2>7. PICK exact \in BOOLEAN : exact = exactly
    BY DEF BufferInv, BufferTypeOK
  <2>8. Deliver(size, exact, avail)
    BY <2>3, <2>6, <2>7
  <2> QED BY <1>0, <1>1, <2>5, <2>8, DeliverStep
<1> QED BY <1>2, <1>3

\* write_fn returns to bio_flush_internal_buffer: it failed, wrote a part of what is
\* left in the buffer, or all of it.
LEMMA FlushReturnStep ==
    ASSUME BufferInv, NEW n \in 0 .. MaxBytes, bio_flush_internal_buffer(n), ResumeFrame
    PROVE  BufferInv'
<1> USE SizeAssumption, BytesAssumption
<1>0. /\ user = "flush" /\ n <= Len(data) - total
      /\ sink' = sink \o SubSeq(data, total + 1, total + n)
      /\ UNCHANGED <<source, got, kind, flushes, buf_impl, destroyer, raced, cut>>
  BY DEF bio_flush_internal_buffer, ResumeFrame, buffer
<1>1. /\ kind = "write" /\ n \in Nat /\ total \in Nat /\ accepted \in Nat
      /\ data \in Seq(Nat) /\ sink \in Seq(Nat) /\ Len(data) \in Nat /\ Len(sink) \in Nat
      /\ total < Len(data) /\ op \in {"write", "flush"}
      /\ (op = "write" => accepted + left <= MaxBytes)
      /\ (buf_impl # "open" => raced)
  BY <1>0 DEF BufferInv, BufferTypeOK, Phases
<1>n. n \in Nat /\ total \in Nat /\ accepted \in Nat /\ Len(data) \in Nat /\ Len(sink) \in Nat
  BY <1>1
<1>2. total + n <= Len(data)
  BY <1>0, <1>1
<1>3. /\ sink' \in Seq(Nat)
      /\ Len(sink') = Len(sink) + n
      /\ \A i \in 1 .. Len(sink) : sink'[i] = sink[i]
      /\ \A i \in Len(sink) + 1 .. Len(sink) + n : sink'[i] = data[total + (i - Len(sink))]
  <2>1. PICK s \in Seq(Nat) : s = sink
    BY <1>1
  <2>2. PICK d \in Seq(Nat) : d = data
    BY <1>1
  <2>3. PICK from \in Nat : from = total
    BY <1>1
  <2>4. PICK m \in Nat : m = n
    OBVIOUS
  <2>5. from + m <= Len(d)
    BY <1>2, <2>2, <2>3, <2>4
  <2>6. PICK t : t = s \o SubSeq(d, from + 1, from + m)
    OBVIOUS
  <2>7. /\ t \in Seq(Nat)
        /\ Len(t) = Len(s) + m
        /\ \A i \in 1 .. Len(s) : t[i] = s[i]
        /\ \A i \in Len(s) + 1 .. Len(s) + m : t[i] = d[from + (i - Len(s))]
    <3>1. t \in Seq(Nat)
      BY <2>5, <2>6, AppendPart
    <3>2. Len(t) = Len(s) + m
      BY <2>5, <2>6, AppendPart
    <3>3. \A i \in 1 .. Len(s) : t[i] = s[i]
      BY <2>5, <2>6, AppendPart
    <3>4. \A i \in Len(s) + 1 .. Len(s) + m : t[i] = d[from + (i - Len(s))]
      BY <2>5, <2>6, AppendPart
    <3> QED BY <3>1, <3>2, <3>3, <3>4
  <2>8. sink' = t
    BY <1>0, <2>1, <2>2, <2>3, <2>4, <2>6
  <2> QED BY <2>1, <2>2, <2>3, <2>4, <2>7, <2>8
<1>4. ReadOrder'
  BY <1>0, <1>1 DEF ReadOrder
\* What is in the sink after this write, if nothing went wrong before.
<1>5. ASSUME Smooth
      PROVE  /\ Len(sink) + Len(data) = accepted + total
             /\ \A i \in 1 .. Len(data) : data[i] = Len(sink) - total + i
             /\ \A i \in 1 .. Len(sink') : sink'[i] = i
  <2>1. buf_impl = "open"
    BY <1>1, <1>5 DEF Smooth
  <2>2. /\ \A i \in 1 .. Len(sink) : sink[i] = i
        /\ Len(sink) + Len(data) = accepted + total
        /\ \A i \in 1 .. Len(data) : data[i] = Len(sink) - total + i
    BY <1>5, <2>1 DEF BufferInv, WriteOrder, Kept
  <2>3. ASSUME NEW i \in 1 .. Len(sink') PROVE sink'[i] = i
    <3>1. CASE i <= Len(sink)
      <4>1. i \in 1 .. Len(sink)
        BY <1>n, <3>1
      <4> QED BY <1>3, <2>2, <4>1
    <3>2. CASE i > Len(sink)
      <4>1. i \in Len(sink) + 1 .. Len(sink) + n
        BY <1>1, <1>3, <3>2
      <4>2. PICK from \in Nat, size \in Nat, all \in Nat :
                from = total /\ size = Len(sink) /\ all = Len(data)
        BY <1>1
      <4>3. i \in Int /\ size + 1 <= i /\ i <= size + n /\ from + n <= all /\ n \in Nat
        BY <1>1, <1>2, <4>1, <4>2
      <4>4. PICK k \in Nat : k = from + (i - size)
        BY <4>3
      <4>5. k \in 1 .. all /\ size - from + k = i
        BY <4>3, <4>4
      <4>6. sink'[i] = data[k] /\ data[k] = Len(sink) - total + k
        BY <1>3, <2>2, <4>1, <4>2, <4>4, <4>5
      <4> QED BY <4>2, <4>5, <4>6
    <3> QED BY <1>1, <3>1, <3>2
  <2> QED BY <2>2, <2>3
<1>6. CASE n = 0
  <2>1. Idle /\ UNCHANGED <<data, accepted>> /\ rewrites' = (rewrites \/ total > 0)
    BY <1>6 DEF bio_flush_internal_buffer
  <2>2. user' = "idle" /\ op' = "none" /\ left' = 0 /\ total' = 0
    BY <2>1 DEF Idle
  <2>3. exactly' \in BOOLEAN
    BY <2>1, Zenon DEF Idle
  <2>4. rewrites' \in BOOLEAN
    BY <2>1, Zenon
  <2>5. BufferTypeOK'
    BY <1>0, <1>3, <2>1, <2>2, <2>3, <2>4 DEF BufferInv, BufferTypeOK
  <2>6. Phases'
    BY <1>0, <1>1, <2>1, <2>2 DEF BufferInv, Phases
  <2>7. ASSUME ~rewrites' PROVE ~rewrites /\ ~(total > 0)
    BY <2>1, <2>7, Zenon
  <2>8. WriteOrder'
    <3> SUFFICES ASSUME Smooth'
                 PROVE  /\ \A i \in 1 .. Len(sink') : sink'[i] = i
                        /\ Len(sink') + Len(data) = accepted
                        /\ \A i \in 1 .. Len(data) : data[i] = Len(sink') + i
                        /\ buf_impl = "open"
      BY <1>0, <1>1, <1>3, <2>1, <2>2 DEF WriteOrder, Kept
    <3>1. ~rewrites'
      BY DEF Smooth
    <3>2. ~rewrites /\ total = 0
      BY <1>1, <2>7, <3>1
    <3>3. Smooth
      BY <1>0, <3>2 DEF Smooth
    <3>4. buf_impl = "open"
      BY <1>1, <3>3 DEF Smooth
    <3>5. Len(sink') = Len(sink)
      BY <1>1, <1>3, <1>6
    <3> QED BY <1>1, <1>5, <3>2, <3>3, <3>4, <3>5
  <2> QED BY <1>4, <2>5, <2>6, <2>8 DEF BufferInv
<1>7. CASE n # 0 /\ total + n < Len(data)
  <2>1. total' = total + n /\ UNCHANGED <<user, op, left, exactly, data, accepted, rewrites>>
    BY <1>7 DEF bio_flush_internal_buffer
  <2>2. BufferTypeOK'
    <3>1. Len(data) <= Size /\ Size \in Nat
      BY DEF BufferInv, BufferTypeOK
    <3>2. PICK len \in Nat : len = Len(data)
      BY <1>1
    <3>3. total + n \in 0 .. Size
      BY <1>n, <1>7, <3>1, <3>2
    <3> QED BY <1>0, <1>3, <2>1, <3>3 DEF BufferInv, BufferTypeOK
  <2>3. Phases'
    BY <1>0, <1>1, <1>7, <2>1 DEF BufferInv, Phases
  <2>4. WriteOrder'
    <3> SUFFICES ASSUME Smooth'
                 PROVE  /\ \A i \in 1 .. Len(sink') : sink'[i] = i
                        /\ Len(sink') + Len(data) = accepted + total'
                        /\ \A i \in 1 .. Len(data) : data[i] = Len(sink') - total' + i
                        /\ buf_impl = "open"
      BY <1>0, <2>1 DEF WriteOrder, Kept
    <3>1. Smooth
      BY <1>0, <2>1 DEF Smooth
    <3>2. buf_impl = "open"
      BY <1>1, <3>1 DEF Smooth
    <3>3. Len(sink') = Len(sink) + n /\ total' = total + n
      BY <1>3, <2>1
    <3>4. Len(sink') - total' = Len(sink) - total
      BY <1>1, <3>3
    <3>5. Len(sink') + Len(data) = accepted + total'
      <4>1. Len(sink) + Len(data) = accepted + total
        BY <1>5, <3>1
      <4> QED BY <1>n, <3>3, <4>1
    <3>6. \A i \in 1 .. Len(data) : data[i] = Len(sink') - total' + i
      BY <1>5, <3>1, <3>4
    <3> QED BY <1>5, <3>1, <3>2, <3>5, <3>6
  <2> QED BY <1>4, <2>2, <2>3, <2>4 DEF BufferInv
<1>8. CASE n # 0 /\ ~(total + n < Len(data))
  <2>0. total + n = Len(data) /\ UNCHANGED rewrites
    BY <1>1, <1>2, <1>8 DEF bio_flush_internal_buffer
  \* The rest of a write follows, with an empty buffer.
  <2>1. /\ data' \in Seq(Nat) /\ Len(data') <= Size
        /\ accepted' \in 0 .. MaxBytes
        /\ accepted' = accepted + Len(data')
        /\ \A i \in 1 .. Len(data') : data'[i] = accepted + i
        /\ total' = 0 /\ left' \in 0 .. MaxRequest /\ exactly' \in BOOLEAN
        /\ \/ user' = "idle" /\ op' = "none"
           \/ /\ user' = "direct" /\ op' = "write" /\ data' = <<>>
              /\ accepted' + left' <= MaxBytes
           \/ user' = "fflush" /\ op' = "flush" /\ left' = 0 /\ ~exactly'
    <3>1. CASE op = "write" /\ Fits(left, 0)
      <4>1. /\ data' = <<>> \o Bytes(accepted + 1, accepted + left)
            /\ accepted' = accepted + left
            /\ Return(left, left, "write", exactly)
        BY <1>8, <3>1 DEF bio_flush_internal_buffer, PutOrWrite, Flushed
      <4>2. left \in Nat /\ left <= Size /\ accepted + left <= MaxBytes
        BY <1>1, <3>1 DEF BufferInv, BufferTypeOK, Fits
      <4>3. PICK a \in Nat : a = accepted
        BY <1>1
      <4>4. PICK size \in Nat : size = left
        BY <4>2
      <4>5. /\ Bytes(a + 1, a + size) \in Seq(Nat)
            /\ Len(Bytes(a + 1, a + size)) = size
            /\ \A i \in 1 .. size : Bytes(a + 1, a + size)[i] = a + i
        BY BytesAfter
      <4>6. <<>> \o Bytes(a + 1, a + size) = Bytes(a + 1, a + size)
        BY <4>5, ConcatEmptySeq
      <4>7. data' = Bytes(a + 1, a + size)
        BY <4>1, <4>3, <4>4, <4>6
      <4>8. Idle
        BY <4>1, <4>2 DEF Return
      <4>9. total' = 0 /\ left' = 0 /\ user' = "idle" /\ op' = "none"
        BY <4>8 DEF Idle
      <4>10. exactly' \in BOOLEAN
        BY <4>8, Zenon DEF Idle
      <4>11. data' \in Seq(Nat) /\ Len(data') = left /\ \A i \in 1 .. left : data'[i] = accepted + i
        BY <4>3, <4>4, <4>5, <4>7
      <4>12. accepted' \in 0 .. MaxBytes /\ accepted' = accepted + Len(data')
        <5>1. accepted' = accepted + left /\ Len(data') = left
          BY <4>1, <4>11
        <5> QED BY <1>1, <4>2, <5>1
      <4> QED BY <4>2, <4>9, <4>10, <4>11, <4>12
    <3>2. CASE op = "write" /\ ~Fits(left, 0)
      <4>1. data' = <<>> /\ accepted' = accepted /\ Suspend("direct", "write", left, exactly)
        BY <1>8, <3>2 DEF bio_flush_internal_buffer, PutOrWrite, Flushed
      <4>2. user' = "direct" /\ op' = "write" /\ left' = left /\ exactly' = exactly /\ total' = 0
        BY <4>1 DEF Suspend
      <4> QED BY <1>1, <3>2, <4>1, <4>2 DEF BufferInv, BufferTypeOK
    <3>3. CASE op # "write" /\ flushes
      <4>1. data' = <<>> /\ accepted' = accepted /\ Suspend("fflush", "flush", 0, FALSE)
        BY <1>8, <3>3 DEF bio_flush_internal_buffer, Flushed
      <4>2. user' = "fflush" /\ op' = "flush" /\ left' = 0 /\ total' = 0
        BY <4>1 DEF Suspend
      <4>3. exactly' \in BOOLEAN /\ ~exactly'
        BY <4>1, Zenon DEF Suspend
      <4> QED BY <1>1, <4>1, <4>2, <4>3 DEF BufferInv, BufferTypeOK
    <3>4. CASE op # "write" /\ ~flushes
      <4>1. data' = <<>> /\ accepted' = accepted /\ Idle
        BY <1>8, <3>4 DEF bio_flush_internal_buffer, Flushed
      <4>2. user' = "idle" /\ op' = "none" /\ left' = 0 /\ total' = 0
        BY <4>1 DEF Idle
      <4>3. exactly' \in BOOLEAN
        BY <4>1, Zenon DEF Idle
      <4> QED BY <1>1, <4>1, <4>2, <4>3 DEF BufferInv, BufferTypeOK
    <3> QED BY <3>1, <3>2, <3>3, <3>4
  <2>2. BufferTypeOK'
    <3>1. sink' \in Seq(Nat)
      BY <1>3
    <3>2. /\ kind' = kind /\ flushes' = flushes /\ buf_impl' = buf_impl /\ destroyer' = destroyer
          /\ source' = source /\ got' = got /\ raced' = raced /\ cut' = cut
      BY <1>0
    <3> QED BY <2>0, <2>1, <3>1, <3>2 DEF BufferInv, BufferTypeOK
  <2>3. Phases'
    BY <1>0, <1>1, <2>1 DEF BufferInv, Phases
  <2>4. WriteOrder'
    <3> SUFFICES ASSUME Smooth'
                 PROVE  /\ \A i \in 1 .. Len(sink') : sink'[i] = i
                        /\ Len(sink') + Len(data') = accepted'
                        /\ \A i \in 1 .. Len(data') : data'[i] = Len(sink') + i
                        /\ buf_impl = "open"
      <4>1. total' = 0 /\ Len(sink') \in Nat /\ accepted' \in Nat /\ buf_impl' = buf_impl
        BY <1>0, <1>3, <2>1
      <4> QED BY <4>1 DEF WriteOrder, Kept
    <3>1. Smooth
      BY <1>0, <2>0 DEF Smooth
    <3>2. buf_impl = "open"
      BY <1>1, <3>1 DEF Smooth
    <3>3. Len(sink') = accepted
      <4>1. Len(sink) + Len(data) = accepted + total
        BY <1>5, <3>1
      <4>2. Len(sink') = Len(sink) + n
        BY <1>3
      <4> QED BY <1>n, <2>0, <4>1, <4>2
    <3> QED BY <1>5, <2>1, <3>1, <3>2, <3>3
  <2> QED BY <1>4, <2>2, <2>3, <2>4 DEF BufferInv
<1> QED BY <1>6, <1>7, <1>8

\* write_fn returns to bio_buffered_write, which wrote past the empty buffer, or
\* flush_fn to bio_flush_buffer.
LEMMA WrittenStep ==
    ASSUME BufferInv, NEW n \in 0 .. MaxBytes, Written(n), ResumeFrame
    PROVE  BufferInv'
<1> USE SizeAssumption, BytesAssumption
<1>0. /\ Return(n, left, "write", exactly)
      /\ UNCHANGED <<data, source, got, rewrites, kind, flushes, buf_impl, destroyer, raced, cut>>
  BY DEF Written, ResumeFrame, buffer
<1>1. CASE user = "fflush"
  <2>1. n = 0 /\ UNCHANGED <<sink, accepted>>
    BY <1>1 DEF Written
  <2>2. Idle
    BY <1>0, <2>1 DEF Return
  <2>3. UNCHANGED <<data, streams, buffer, buf_impl, destroyer, rewrites, raced, cut>>
    BY <1>0, <2>1 DEF streams, buffer
  <2> QED BY <1>1, <2>2, <2>3, IdleStep
<1>2. CASE user = "direct"
  <2>1. /\ n <= left /\ accepted' = accepted + n
        /\ sink' = sink \o Bytes(accepted + 1, accepted + n)
    BY <1>2 DEF Written
  <2>2. /\ kind = "write" /\ op = "write" /\ total = 0 /\ data = <<>>
        /\ n \in Nat /\ left \in Nat /\ left <= MaxRequest /\ accepted \in Nat
        /\ sink \in Seq(Nat) /\ accepted + left <= MaxBytes
        /\ (buf_impl # "open" => raced)
    BY <1>2 DEF BufferInv, BufferTypeOK, Phases
  <2>3. /\ sink' \in Seq(Nat)
        /\ Len(sink') = Len(sink) + n
        /\ \A i \in 1 .. Len(sink) : sink'[i] = sink[i]
        /\ \A i \in Len(sink) + 1 .. Len(sink) + n : sink'[i] = accepted + (i - Len(sink))
    <3>1. PICK s \in Seq(Nat) : s = sink
      BY <2>2
    <3>2. PICK a \in Nat : a = accepted
      BY <2>2
    <3>3. PICK m \in Nat : m = n
      BY <2>2
    <3>4. /\ s \o Bytes(a + 1, a + m) \in Seq(Nat)
          /\ Len(s \o Bytes(a + 1, a + m)) = Len(s) + m
          /\ \A i \in 1 .. Len(s) : (s \o Bytes(a + 1, a + m))[i] = s[i]
          /\ \A i \in Len(s) + 1 .. Len(s) + m :
                (s \o Bytes(a + 1, a + m))[i] = a + (i - Len(s))
      BY AppendBytes
    <3>5. sink' = s \o Bytes(a + 1, a + m)
      BY <2>1, <3>1, <3>2, <3>3
    <3> QED BY <3>1, <3>2, <3>3, <3>4, <3>5
  <2>4. /\ total' = 0 /\ left' \in 0 .. MaxRequest
        /\ \/ user' = "idle" /\ op' = "none"
           \/ user' = "again" /\ op' = "write" /\ accepted' + left' <= MaxBytes
    <3>1. CASE exactly /\ 0 < n /\ n < left
      <4>1. /\ user' = "again" /\ op' = "write" /\ left' = left - n /\ total' = 0
        BY <1>0, <3>1 DEF Return, Suspend
      <4>2. accepted' = accepted + n /\ n \in Nat /\ left \in Nat /\ accepted \in Nat
            /\ n < left /\ left <= MaxRequest /\ accepted + left <= MaxBytes
        BY <2>1, <2>2, <3>1
      <4>3. left' \in 0 .. MaxRequest /\ accepted' + left' <= MaxBytes
        BY <4>1, <4>2
      <4> QED BY <4>1, <4>3
    <3>2. CASE ~(exactly /\ 0 < n /\ n < left)
      BY <1>0, <3>2 DEF Return, Idle
    <3> QED BY <3>1, <3>2
  <2>5. exactly' \in BOOLEAN
    <3>1. CASE exactly /\ 0 < n /\ n < left
      BY <1>0, <3>1 DEF Return, Suspend, BufferInv, BufferTypeOK
    <3>2. CASE ~(exactly /\ 0 < n /\ n < left)
      <4>1. Idle
        BY <1>0, <3>2 DEF Return
      <4> QED BY <4>1, Zenon DEF Idle
    <3> QED BY <3>1, <3>2
  <2>6. accepted' \in 0 .. MaxBytes
    <3>1. /\ n <= left /\ accepted' = accepted + n /\ n \in Nat /\ left \in Nat
          /\ accepted \in Nat /\ accepted + left <= MaxBytes
      BY <2>1, <2>2
    <3> QED BY <3>1
  <2>7. BufferTypeOK'
    <3>1. UNCHANGED <<data, source, got, rewrites, kind, flushes, buf_impl, destroyer, raced, cut>>
      BY <1>0
    <3>2. sink' \in Seq(Nat) /\ total' \in 0 .. Size /\ user' \in {"idle", "again"}
          /\ op' \in {"none", "write"} /\ left' \in 0 .. MaxRequest
      BY <2>3, <2>4
    <3> QED BY <2>5, <2>6, <3>1, <3>2 DEF BufferInv, BufferTypeOK
  <2>8. Phases'
    BY <1>0, <2>2, <2>4 DEF BufferInv, Phases
  <2>9. ReadOrder'
    BY <1>0, <2>2 DEF ReadOrder
  <2>10. WriteOrder'
    <3>1. total' = 0 /\ Len(sink') \in Nat /\ accepted' \in Nat /\ Len(data') = 0
      BY <1>0, <2>2, <2>3, <2>4, <2>6
    <3> SUFFICES ASSUME Smooth'
                 PROVE  (\A i \in 1 .. Len(sink') : sink'[i] = i) /\ Len(sink') = accepted'
      <4>1. Len(sink') = accepted' => Len(sink') + Len(data') = accepted' + total'
        BY <3>1
      <4>2. 1 .. Len(data') = {}
        BY <3>1
      <4> QED BY <4>1, <4>2 DEF WriteOrder
    <3>2. Smooth
      BY <1>0 DEF Smooth
    <3>3. buf_impl = "open"
      BY <2>2, <3>2 DEF Smooth
    <3>4. Len(sink) \in Nat /\ Len(data) = 0 /\ accepted \in Nat /\ n \in Nat /\ total = 0
      BY <2>2
    <3>5. (\A i \in 1 .. Len(sink) : sink[i] = i) /\ Len(sink) + Len(data) = accepted + total
      BY <3>2, <3>3 DEF BufferInv, WriteOrder, Kept
    <3>6. Len(sink) = accepted
      BY <3>4, <3>5
    <3>7. Len(sink') = accepted' /\ Len(sink') = Len(sink) + n
      BY <2>1, <2>3, <3>6
    <3>8. ASSUME NEW i \in 1 .. Len(sink') PROVE sink'[i] = i
      <4>1. CASE i <= Len(sink)
        BY <2>3, <3>4, <3>5, <4>1
      <4>2. CASE i > Len(sink)
        <5>1. i \in Len(sink) + 1 .. Len(sink) + n
          BY <3>4, <3>7, <4>2
        <5>2. sink'[i] = accepted + (i - Len(sink))
          BY <2>3, <5>1
        <5> QED BY <3>4, <3>6, <5>1, <5>2
      <4> QED BY <3>4, <4>1, <4>2
    <3> QED BY <3>7, <3>8
  <2> QED BY <2>7, <2>8, <2>9, <2>10 DEF BufferInv
<1> QED BY <1>1, <1>2 DEF Written

\* bio_destroy_buffer closes the handle.
LEMMA DestroyStep == ASSUME BufferInv, bio_destroy_buffer PROVE BufferInv'
<1> USE SizeAssumption, BytesAssumption
<1>0. /\ buf_impl = "open" /\ user # "again" /\ raced' = (user # "idle")
      /\ UNCHANGED <<kind, flushes, data, user, op, left, exactly, total, sink, accepted, source,
                     got, rewrites, cut>>
      /\ \/ kind = "write" /\ data # <<>> /\ buf_impl' = "closed" /\ destroyer' = "write"
         \/ (kind # "write" \/ data = <<>>) /\ buf_impl' = "freed" /\ destroyer' = destroyer
  BY DEF bio_destroy_buffer, buffer, request, streams
<1>1. raced' \in BOOLEAN
  BY <1>0, Zenon
<1>2. ~raced' => user = "idle"
  BY <1>0, Zenon
<1>3. destroyer = "idle"
  BY <1>0 DEF BufferInv, Phases
<1>4. BufferTypeOK'
  BY <1>0, <1>1 DEF BufferInv, BufferTypeOK
<1>5. Phases'
  BY <1>0, <1>2, <1>3 DEF BufferInv, BufferTypeOK, Phases
<1>6. ReadOrder'
  BY <1>0 DEF BufferInv, ReadOrder
<1>7. WriteOrder'
  <2> SUFFICES ASSUME Smooth'
               PROVE  /\ \A i \in 1 .. Len(sink) : sink[i] = i
                      /\ Len(sink) + Len(data) = accepted + total
                      /\ \A i \in 1 .. Len(data) : data[i] = Len(sink) - total + i
                      /\ data = <<>> => Len(sink) = accepted
    BY <1>0, <1>3 DEF WriteOrder, Kept, Smooth
  <2>1. kind = "write" /\ ~rewrites /\ ~raced' /\ ~cut
    BY <1>0 DEF Smooth
  <2>2. user = "idle" /\ total = 0
    BY <1>2, <2>1 DEF BufferInv, Phases
  <2>a. ~raced
    BY <1>0 DEF BufferInv, Phases
  <2>3. CASE ~raced
    <3>1. Smooth
      BY <2>1, <2>3 DEF Smooth
    <3>2. /\ \A i \in 1 .. Len(sink) : sink[i] = i
          /\ Len(sink) + Len(data) = accepted + total
          /\ \A i \in 1 .. Len(data) : data[i] = Len(sink) - total + i
      BY <1>0, <3>1 DEF BufferInv, WriteOrder, Kept
    <3>3. Len(sink) \in Nat /\ accepted \in Nat
      BY DEF BufferInv, BufferTypeOK
    <3>4. data = <<>> => Len(data) = 0
      OBVIOUS
    <3>5. data = <<>> => Len(sink) = accepted
      BY <2>2, <3>2, <3>3, <3>4
    <3> QED BY <3>2, <3>5
  <2> QED BY <2>a, <2>3
<1> QED BY <1>4, <1>5, <1>6, <1>7 DEF BufferInv

\* write_fn or flush_fn returns to bio_destroy_buffer, which frees the buffer in the end.
LEMMA DestroyedStep == ASSUME BufferInv, NEW n \in 0 .. Size, Destroyed(n) PROVE BufferInv'
<1> USE SizeAssumption, BytesAssumption
<1>0. /\ UNCHANGED <<kind, flushes, data, user, op, left, exactly, total, accepted, source, got,
                     rewrites, raced>>
      /\ buf_impl' = IF destroyer' = "idle" THEN "freed" ELSE buf_impl
  BY DEF Destroyed, buffer, request
<1>1. /\ buf_impl = "closed" /\ kind = "write" /\ destroyer \in {"write", "flush"}
      /\ (~raced => user = "idle" /\ total = 0)
  <2>1. destroyer \in {"write", "flush"}
    BY DEF Destroyed
  <2> QED BY <2>1 DEF BufferInv, BufferTypeOK, Phases
<1>2. ReadOrder'
  BY <1>0, <1>1 DEF ReadOrder
<1>3. CASE destroyer = "write"
  <2>1. /\ n <= Len(data) /\ sink' = sink \o SubSeq(data, 1, n)
        /\ cut' = (n < Len(data))
        /\ destroyer' \in {"flush", "idle"}
    BY <1>3 DEF Destroyed
  <2>2. cut' \in BOOLEAN
    <3>1. CASE n < Len(data)
      BY <2>1, <3>1
    <3>2. CASE ~(n < Len(data))
      BY <2>1, <3>2
    <3> QED BY <3>1, <3>2
  <2>3. ~cut' => ~(n < Len(data))
    BY <2>1, Zenon
  <2>4. data \in Seq(Nat) /\ sink \in Seq(Nat) /\ n \in Nat
    BY DEF BufferInv, BufferTypeOK
  <2>5. /\ sink' \in Seq(Nat)
        /\ Len(sink') = Len(sink) + n
        /\ \A i \in 1 .. Len(sink) : sink'[i] = sink[i]
        /\ \A i \in Len(sink) + 1 .. Len(sink) + n : sink'[i] = data[0 + (i - Len(sink))]
    <3>1. PICK s \in Seq(Nat) : s = sink
      BY <2>4
    <3>2. PICK d \in Seq(Nat) : d = data
      BY <2>4
    <3>3. PICK m \in Nat : m = n
      BY <2>4
    <3>4. 0 + m <= Len(d)
      BY <2>1, <3>2, <3>3
    <3>5. PICK t : t = s \o SubSeq(d, 0 + 1, 0 + m)
      OBVIOUS
    <3>6. /\ t \in Seq(Nat)
          /\ Len(t) = Len(s) + m
          /\ \A i \in 1 .. Len(s) : t[i] = s[i]
          /\ \A i \in Len(s) + 1 .. Len(s) + m : t[i] = d[0 + (i - Len(s))]
      BY <3>4, <3>5, AppendPart
    <3>7. 0 + 1 = 1 /\ 0 + m = m
      OBVIOUS
    <3>8. sink' = t
      BY <2>1, <3>1, <3>2, <3>3, <3>5, <3>7
    <3> QED BY <3>1, <3>2, <3>3, <3>6, <3>8
  <2>6. BufferTypeOK'
    <3>1. destroyer' \in {"flush", "idle"} /\ sink' \in Seq(Nat) /\ cut' \in BOOLEAN
      BY <2>1, <2>2, <2>5
    <3> QED BY <1>0, <1>1, <3>1 DEF BufferInv, BufferTypeOK
  <2>7. Phases'
    <3>1. destroyer' \in {"flush", "idle"}
      BY <2>1
    <3> QED BY <1>0, <1>1, <3>1 DEF BufferInv, Phases
  <2>8. WriteOrder'
    <3>1. ~Kept'
      BY <1>0, <1>1, <2>1 DEF Kept
    <3> SUFFICES ASSUME Smooth'
                 PROVE  (\A i \in 1 .. Len(sink') : sink'[i] = i) /\ Len(sink') = accepted
      BY <1>0, <3>1 DEF WriteOrder
    <3>2. ~raced /\ ~rewrites /\ ~cut'
      BY <1>0 DEF Smooth
    <3>3. Len(sink) \in Nat /\ Len(data) \in Nat /\ accepted \in Nat /\ n \in Nat
      BY <2>4 DEF BufferInv, BufferTypeOK
    <3>4. n = Len(data) /\ total = 0
      BY <1>1, <2>1, <2>3, <3>2, <3>3
    <3>5. Smooth
      BY <1>1, <1>3, <3>2 DEF Smooth, BufferInv, Phases
    <3>6. /\ \A i \in 1 .. Len(sink) : sink[i] = i
          /\ Len(sink) + Len(data) = accepted + total
          /\ \A i \in 1 .. Len(data) : data[i] = Len(sink) - total + i
      BY <1>3, <3>5 DEF BufferInv, WriteOrder, Kept
    <3>7. Len(sink') = accepted
      <4>1. Len(sink') = Len(sink) + n /\ Len(sink) + Len(data) = accepted + total
        BY <2>5, <3>6
      <4> QED BY <3>3, <3>4, <4>1
    <3>8. ASSUME NEW i \in 1 .. Len(sink') PROVE sink'[i] = i
      <4>1. CASE i <= Len(sink)
        BY <2>5, <3>3, <3>6, <4>1
      <4>2. CASE i > Len(sink)
        <5>1. PICK size \in Nat : size = Len(sink)
          BY <3>3
        <5>2. i \in Int /\ size + 1 <= i /\ i <= size + n
          BY <2>5, <3>3, <4>2, <5>1
        <5>3. PICK k \in Nat : k = 0 + (i - size)
          BY <5>2
        <5>4. k \in 1 .. n /\ size - 0 + k = i
          BY <3>3, <5>2, <5>3
        <5>5. i \in size + 1 .. size + n
          BY <3>3, <5>1, <5>2
        <5>6. sink'[i] = data[k]
          BY <2>5, <5>1, <5>3, <5>5
        <5>7. data[k] = Len(sink) - total + k
          BY <3>4, <3>6, <5>4
        <5> QED BY <3>4, <5>1, <5>4, <5>6, <5>7
      <4> QED BY <3>3, <4>1, <4>2
    <3> QED BY <3>7, <3>8
  <2> QED BY <1>2, <2>6, <2>7, <2>8 DEF BufferInv
<1>4. CASE destroyer = "flush"
  <2>1. destroyer' = "idle" /\ UNCHANGED <<sink, cut>>
    BY <1>4 DEF Destroyed
  <2>2. BufferTypeOK'
    BY <1>0, <2>1 DEF BufferInv, BufferTypeOK
  <2>3. Phases'
    BY <1>0, <1>1, <2>1 DEF BufferInv, Phases
  <2>4. WriteOrder'
    <3>1. ~Kept /\ ~Kept'
      BY <1>0, <1>1, <1>4, <2>1 DEF Kept
    <3>2. Smooth' => Smooth
      BY <1>0, <2>1 DEF Smooth
    <3> QED BY <1>0, <2>1, <3>1, <3>2 DEF BufferInv, WriteOrder
  <2> QED BY <1>2, <2>2, <2>3, <2>4 DEF BufferInv
<1> QED BY <1>1, <1>3, <1>4

\* The inductive invariant of a buffer, its user and its end.
THEOREM BufferInvariance == BufferSpec => []BufferInv
<1>1. bio_make_buffer => BufferInv
  <2> SUFFICES ASSUME bio_make_buffer PROVE BufferInv
    OBVIOUS
  <2> USE SizeAssumption, BytesAssumption DEF bio_make_buffer
  <2>1. /\ flushes \in BOOLEAN /\ exactly \in BOOLEAN /\ ~exactly
        /\ rewrites \in BOOLEAN /\ raced \in BOOLEAN /\ cut \in BOOLEAN /\ ~raced /\ ~cut
    BY Zenon
  <2>2. Len(data) = 0 /\ Len(sink) = 0 /\ Len(got) = 0
    OBVIOUS
  <2>3. BufferTypeOK
    BY <2>1, <2>2 DEF BufferTypeOK
  <2>4. Phases
    BY <2>1 DEF Phases
  <2>5. ReadOrder
    BY <2>2 DEF ReadOrder
  <2>6. WriteOrder
    BY <2>2 DEF WriteOrder, Kept
  <2> QED BY <2>3, <2>4, <2>5, <2>6 DEF BufferInv
<1>2. BufferInv /\ [BufferNext]_bufferVars => BufferInv'
  <2> SUFFICES ASSUME BufferInv, [BufferNext]_bufferVars PROVE BufferInv'
    OBVIOUS
  <2>1. ASSUME NEW size \in 0 .. MaxRequest, Call(size) PROVE BufferInv'
    BY <2>1, WriteCallStep, ReadCallStep DEF Call
  <2>2. CASE FlushCall
    BY <2>2, FlushCallStep
  <2>3. CASE Fail
    BY <2>3, FailStep
  <2>4. ASSUME NEW n \in 0 .. MaxBytes, ResumeFrame,
               bio_flush_internal_buffer(n) \/ Written(n) \/ Refilled(n)
        PROVE  BufferInv'
    BY <2>4, FlushReturnStep, WrittenStep, RefilledStep
  <2>5. CASE bio_destroy_buffer
    BY <2>5, DestroyStep
  <2>6. ASSUME NEW n \in 0 .. Size, Destroyed(n) PROVE BufferInv'
    BY <2>6, DestroyedStep
  <2>7. CASE UNCHANGED bufferVars
    BY <2>7 DEF bufferVars, buffer, request, streams, BufferInv, BufferTypeOK, Phases, ReadOrder,
                WriteOrder, Kept, Smooth
  <2> QED BY <2>1, <2>2, <2>3, <2>4, <2>5, <2>6, <2>7, BufferSteps
<1> QED BY <1>1, <1>2, PTL DEF BufferSpec

\* The state of a buffer keeps its type: it never holds more than its size.
THEOREM BufferTypeCorrect == BufferSpec => []BufferTypeOK
<1>1. BufferInv => BufferTypeOK
  BY DEF BufferInv
<1> QED BY <1>1, BufferInvariance, PTL

\* Two sequences of numbered bytes, one after the other, are the bytes up to n.
LEMMA NumberedBytes ==
    ASSUME NEW s \in Seq(Nat), NEW d \in Seq(Nat), NEW n \in Nat, Len(s) + Len(d) = n,
           \A i \in 1 .. Len(s) : s[i] = i, \A i \in 1 .. Len(d) : d[i] = Len(s) + i
    PROVE  s \o d = Bytes(1, n)
<1>1. /\ s \o d \in Seq(Nat)
      /\ Len(s \o d) = Len(s) + Len(d)
      /\ \A i \in 1 .. Len(s) + Len(d) : (s \o d)[i] = IF i <= Len(s) THEN s[i] ELSE d[i - Len(s)]
  BY ConcatProperties
<1>2. /\ Bytes(0 + 1, 0 + n) \in Seq(Nat)
      /\ Len(Bytes(0 + 1, 0 + n)) = n
      /\ \A i \in 1 .. n : Bytes(0 + 1, 0 + n)[i] = 0 + i
  BY BytesAfter
<1>3. ASSUME NEW i \in 1 .. n PROVE (s \o d)[i] = i
  <2>1. PICK len \in Nat : len = Len(s)
    OBVIOUS
  <2>2. PICK more \in Nat : more = Len(d)
    OBVIOUS
  <2>3. CASE i <= len
    BY <1>1, <2>1, <2>3
  <2>4. CASE i > len
    <3>1. i \in Int /\ len + 1 <= i /\ i <= len + more
      BY <2>1, <2>2, <2>4
    <3>2. i - len \in 1 .. more
      BY <3>1
    <3>3. PICK k \in 1 .. more : k = i - len
      BY <3>2
    <3>4. (s \o d)[i] = d[k]
      BY <1>1, <2>1, <2>4, <3>3
    <3>5. d[k] = len + k
      BY <2>1, <2>2
    <3> QED BY <3>1, <3>3, <3>4, <3>5
  <2> QED BY <2>3, <2>4
<1>4. PICK b \in Seq(Nat) : b = Bytes(0 + 1, 0 + n)
  BY <1>2
<1>5. PICK c \in Seq(Nat) : c = s \o d
  BY <1>1
<1>6. Len(c) = Len(b) /\ \A i \in 1 .. Len(c) : c[i] = b[i]
  BY <1>1, <1>2, <1>3, <1>4, <1>5
<1>7. c = b
  BY <1>6, SeqEqual
<1>8. 0 + 1 = 1 /\ 0 + n = n
  OBVIOUS
<1> QED BY <1>4, <1>5, <1>7, <1>8

\* What a user was told is written is in the sink or in the buffer, once and in order,
\* for any sizes of the buffer and of the requests and whatever write_fn returns.
THEOREM WriteCorrect == BufferSpec => []WrittenInOrder
<1>1. BufferInv => WrittenInOrder
  <2> SUFFICES ASSUME BufferInv, kind = "write", user = "idle", destroyer = "idle",
                      ~rewrites, ~raced, ~cut
               PROVE  sink \o (IF buf_impl = "open" THEN data ELSE <<>>) = Bytes(1, accepted)
    BY DEF WrittenInOrder
  <2>1. /\ sink \in Seq(Nat) /\ data \in Seq(Nat) /\ accepted \in Nat /\ total = 0
        /\ Len(sink) \in Nat /\ Len(data) \in Nat
    BY BytesAssumption DEF BufferInv, BufferTypeOK, Phases
  <2>2. Smooth
    BY DEF Smooth
  <2>3. PICK s \in Seq(Nat) : s = sink
    BY <2>1
  <2>4. PICK d \in Seq(Nat) : d = data
    BY <2>1
  <2>5. PICK n \in Nat : n = accepted
    BY <2>1
  <2>6. CASE buf_impl = "open"
    <3>1. /\ \A i \in 1 .. Len(sink) : sink[i] = i
          /\ Len(sink) + Len(data) = accepted + total
          /\ \A i \in 1 .. Len(data) : data[i] = Len(sink) - total + i
      BY <2>2, <2>6 DEF BufferInv, WriteOrder, Kept
    <3>2. Len(sink) + Len(data) = accepted
      BY <2>1, <3>1
    <3>3. \A i \in 1 .. Len(data) : data[i] = Len(sink) + i
      BY <2>1, <3>1
    <3>4. /\ Len(s) + Len(d) = n
          /\ \A i \in 1 .. Len(s) : s[i] = i
          /\ \A i \in 1 .. Len(d) : d[i] = Len(s) + i
      BY <2>3, <2>4, <2>5, <3>1, <3>2, <3>3
    <3>5. s \o d = Bytes(1, n)
      BY <3>4, NumberedBytes
    <3> QED BY <2>3, <2>4, <2>5, <2>6, <3>5
  <2>7. CASE buf_impl # "open"
    <3>1. (\A i \in 1 .. Len(sink) : sink[i] = i) /\ Len(sink) = accepted
      BY <2>2, <2>7 DEF BufferInv, WriteOrder, Kept
    <3>2. PICK none \in Seq(Nat) : none = <<>>
      BY EmptySeq
    <3>3. Len(none) = 0 /\ 1 .. Len(none) = {}
      BY <3>2
    <3>4. Len(s) + Len(none) = n
      BY <2>1, <2>3, <2>5, <3>1, <3>3
    <3>5. /\ \A i \in 1 .. Len(s) : s[i] = i
          /\ \A i \in 1 .. Len(none) : none[i] = Len(s) + i
      BY <2>3, <3>1, <3>3
    <3>6. s \o none = Bytes(1, n)
      BY <3>4, <3>5, NumberedBytes
    <3> QED BY <2>3, <2>5, <2>7, <3>2, <3>6
  <2> QED BY <2>6, <2>7
<1> QED BY <1>1, BufferInvariance, PTL

\* The user receives the bytes of the source once and in order, for any sizes of the
\* buffer and of the requests.
THEOREM ReadCorrect == BufferSpec => []ReadInOrder
<1>1. BufferInv => ReadInOrder
  <2> SUFFICES ASSUME BufferInv, kind = "read" PROVE got \o data = Bytes(1, source)
    BY DEF ReadInOrder
  <2>1. PICK s \in Seq(Nat) : s = got
    BY DEF BufferInv, BufferTypeOK
  <2>2. PICK d \in Seq(Nat) : d = data
    BY DEF BufferInv, BufferTypeOK
  <2>3. PICK n \in Nat : n = source
    BY BytesAssumption DEF BufferInv, BufferTypeOK
  <2>4. /\ Len(s) + Len(d) = n
        /\ \A i \in 1 .. Len(s) : s[i] = i
        /\ \A i \in 1 .. Len(d) : d[i] = Len(s) + i
    BY <2>1, <2>2, <2>3 DEF BufferInv, ReadOrder
  <2>5. s \o d = Bytes(1, n)
    BY <2>4, NumberedBytes
  <2> QED BY <2>1, <2>2, <2>3, <2>5
<1> QED BY <1>1, BufferInvariance, PTL
-----------------------------------------------------------------------------
(***************************************************************************)
(* Loggers.                                                                 *)
(*                                                                          *)
(* That a walk of bio_vlog only reads loggers that exist takes three facts: *)
(* the list is exactly the loggers that are open or being removed, a client *)
(* that walks keeps the processor until it suspends, and what a suspended   *)
(* client keeps is freed only together with a note in overlapped.  That a   *)
(* logger writes what it took takes the order of its mailbox: what it owes  *)
(* comes before the farewell.                                               *)
(***************************************************************************)
\* The loggers in the list.
Linked == {loggers[i] : i \in 1 .. Len(loggers)}

\* Clients between two points where they suspend; bio_logging_cleanup never does.
Walk ==
    /\ cpu = "main" <=> main = "cleanup"
    /\ \A c \in Client :
          /\ pc[c] = "visit" => cpu \in {c, "undefined"}
          /\ pc[c] \in {"visit", "send"} => msg[c] # Null
          /\ pc[c] \in {"adding", "remove", "send"} => itr[c] # End

\* The list and the loggers; no two clients add or remove the same one.
Lives ==
    /\ \A i, j \in 1 .. Len(loggers) : loggers[i] = loggers[j] => i = j
    /\ \A l \in Logger : l \in Linked <=> impl[l] \in {"open", "closed"}
    /\ \A c \in Client :
          /\ pc[c] = "adding" => impl[itr[c]] = "starting"
          /\ pc[c] = "remove" => impl[itr[c]] = "closed"
    /\ \A c, d \in Client :
          pc[c] \in {"adding", "remove"} /\ pc[d] \in {"adding", "remove"} /\ itr[c] = itr[d]
              => c = d

\* What a walk goes on with exists, unless a logger was freed while it was suspended.
Reads ==
    \A c \in Client \ overlapped :
        /\ pc[c] \in {"visit", "send"} /\ itr[c] # End => impl[itr[c]] \in {"open", "closed"}
        /\ pc[c] = "send" /\ next[c] # End => impl[next[c]] \in {"open", "closed"}

\* Message m comes in queue q before any farewell.
Ahead(m, q) == \E i \in 1 .. Len(q) : q[i] = m /\ \A k \in 1 .. i : q[k] # Null

\* The farewell comes last, and what is owed is being written or comes before it.
Owes ==
    \A l \in Logger :
        /\ impl[l] = "none" => svc[l] = "none"
        /\ impl[l] # "freed" => \A i \in 1 .. Len(queue[l]) : queue[l][i] # Null
        /\ svc[l] # "writing" => held[l] = Null
        /\ \A m \in owed[l] : m = held[l] \/ Ahead(m, queue[l])

LogInv ==
    TypeOK /\ Walk /\ Lives /\ Reads /\ Owes /\ TakenIsWritten /\ DanglingOnlyOnOverlap

\* A walk reads the list where it is: it finds a logger of the list, or its end.
LEMMA ListReads ==
    ASSUME TypeOK
    PROVE  /\ First # End => First \in Linked
           /\ \A l \in Logger : After(l) # End => After(l) \in Linked
           /\ Linked \subseteq Logger
<1>1. loggers \in Seq(Logger) /\ Len(loggers) \in Nat /\ DOMAIN loggers = 1 .. Len(loggers)
  BY DEF TypeOK
<1>2. First # End => First \in Linked
  <2>1. CASE loggers = <<>>
    BY <2>1 DEF First
  <2>2. CASE loggers # <<>>
    <3>1. First = loggers[1] /\ 1 \in 1 .. Len(loggers)
      BY <1>1, <2>2 DEF First
    <3> QED BY <3>1 DEF Linked
  <2> QED BY <2>1, <2>2
<1>3. ASSUME NEW l \in Logger, After(l) # End PROVE After(l) \in Linked
  <2> DEFINE rest == {i \in DOMAIN loggers : loggers[i] = l /\ i < Len(loggers)}
  <2>1. rest # {}
    BY <1>3 DEF After
  <2>2. PICK i \in rest : i = CHOOSE j \in rest : TRUE
    BY <2>1
  <2>3. After(l) = loggers[i + 1]
    BY <2>1, <2>2 DEF After
  <2>4. i + 1 \in 1 .. Len(loggers)
    BY <1>1, <2>2
  <2> QED BY <2>3, <2>4 DEF Linked
<1>4. Linked \subseteq Logger
  BY <1>1 DEF Linked
<1> QED BY <1>2, <1>3, <1>4

\* Taking one element out of a sequence.
LEMMA TakeOut ==
    ASSUME NEW S, NEW s \in Seq(S), NEW k \in 1 .. Len(s),
           NEW t, t = SubSeq(s, 1, k - 1) \o SubSeq(s, k + 1, Len(s))
    PROVE  /\ t \in Seq(S)
           /\ Len(t) = Len(s) - 1
           /\ \A i \in 1 .. Len(s) - 1 : t[i] = IF i < k THEN s[i] ELSE s[i + 1]
<1>1. PICK n \in Nat : n = Len(s)
  OBVIOUS
<1>2. k \in 1 .. n /\ k \in Int /\ k - 1 \in Nat /\ n - k \in Nat
  BY <1>1
<1>3. /\ \A i \in 1 .. k - 1 : s[i] \in S
      /\ \A i \in k + 1 .. n : s[i] \in S
  BY <1>1, <1>2
<1>4. /\ SubSeq(s, 1, k - 1) \in Seq(S)
      /\ Len(SubSeq(s, 1, k - 1)) = IF 1 <= k - 1 THEN (k - 1) - 1 + 1 ELSE 0
      /\ \A i \in 1 .. (k - 1) - 1 + 1 : SubSeq(s, 1, k - 1)[i] = s[1 + i - 1]
  BY <1>2, <1>3, SubSeqProperties
<1>5. /\ SubSeq(s, k + 1, n) \in Seq(S)
      /\ Len(SubSeq(s, k + 1, n)) = IF k + 1 <= n THEN n - (k + 1) + 1 ELSE 0
      /\ \A i \in 1 .. n - (k + 1) + 1 : SubSeq(s, k + 1, n)[i] = s[(k + 1) + i - 1]
  BY <1>2, <1>3, SubSeqProperties
<1>6. PICK a \in Seq(S) : a = SubSeq(s, 1, k - 1)
  BY <1>4
<1>7. PICK b \in Seq(S) : b = SubSeq(s, k + 1, n)
  BY <1>5
<1>8. Len(a) = k - 1 /\ \A i \in 1 .. k - 1 : a[i] = s[i]
  BY <1>2, <1>4, <1>6
<1>9. Len(b) = n - k /\ \A i \in 1 .. n - k : b[i] = s[k + i]
  BY <1>2, <1>5, <1>7
<1>10. /\ a \o b \in Seq(S)
       /\ Len(a \o b) = Len(a) + Len(b)
       /\ \A i \in 1 .. Len(a) + Len(b) : (a \o b)[i] = IF i <= Len(a) THEN a[i] ELSE b[i - Len(a)]
  BY ConcatProperties
<1>11. Len(a) + Len(b) = n - 1
  BY <1>2, <1>8, <1>9
<1>12. ASSUME NEW i \in 1 .. n - 1 PROVE (a \o b)[i] = IF i < k THEN s[i] ELSE s[i + 1]
  <2>1. CASE i < k
    BY <1>2, <1>8, <1>10, <1>11, <2>1
  <2>2. CASE ~(i < k)
    <3>1. PICK j \in 1 .. n - k : j = i - (k - 1)
      <4>1. i \in Int /\ k <= i /\ i <= n - 1
        BY <1>1, <1>2, <2>2
      <4>2. i - (k - 1) \in 1 .. n - k
        BY <1>2, <4>1
      <4> QED BY <4>2
    <3>2. (a \o b)[i] = b[j]
      BY <1>2, <1>8, <1>10, <1>11, <2>2, <3>1
    <3>3. k + j = i + 1
      BY <1>2, <3>1
    <3> QED BY <1>9, <2>2, <3>2, <3>3
  <2> QED BY <2>1, <2>2
<1> QED BY <1>1, <1>6, <1>7, <1>10, <1>11, <1>12

\* Unlinking a logger takes it, and only it, out of the list.
LEMMA UnlinkList ==
    ASSUME TypeOK, Lives, NEW l \in Linked
    PROVE  /\ Unlink(l) \in Seq(Logger)
           /\ \A i, j \in 1 .. Len(Unlink(l)) : Unlink(l)[i] = Unlink(l)[j] => i = j
           /\ {Unlink(l)[i] : i \in 1 .. Len(Unlink(l))} = Linked \ {l}
<1>1. PICK s \in Seq(Logger) : s = loggers
  BY DEF TypeOK
<1>2. PICK n \in Nat : n = Len(s)
  OBVIOUS
<1>3. DOMAIN s = 1 .. n
  BY <1>2
<1>4. \E i \in DOMAIN s : s[i] = l
  BY <1>1, <1>2, <1>3 DEF Linked
<1>5. PICK k \in 1 .. n : k = CHOOSE i \in DOMAIN s : s[i] = l
  BY <1>3, <1>4
<1>6. s[k] = l
  BY <1>4, <1>5
<1>7. PICK t : t = SubSeq(s, 1, k - 1) \o SubSeq(s, k + 1, Len(s))
  OBVIOUS
<1>8. Unlink(l) = t
  BY <1>1, <1>5, <1>7 DEF Unlink, At
<1>9. /\ t \in Seq(Logger) /\ Len(t) = Len(s) - 1
      /\ \A i \in 1 .. Len(s) - 1 : t[i] = IF i < k THEN s[i] ELSE s[i + 1]
  <2>1. k \in 1 .. Len(s)
    BY <1>2, <1>5
  <2> QED BY <1>7, <2>1, TakeOut, ZenonT(30)
<1>10. /\ Len(t) = n - 1
       /\ \A i \in 1 .. n - 1 : t[i] = IF i < k THEN s[i] ELSE s[i + 1]
  BY <1>2, <1>9
<1>11. \A i, j \in 1 .. n : s[i] = s[j] => i = j
  BY <1>1, <1>2 DEF Lives
<1>12. ASSUME NEW i \in 1 .. n - 1
       PROVE  \E ii \in 1 .. n : t[i] = s[ii] /\ ii = (IF i < k THEN i ELSE i + 1)
  <2>1. i \in 1 .. n /\ i + 1 \in 1 .. n
    OBVIOUS
  <2>2. CASE i < k
    BY <1>10, <2>1, <2>2
  <2>3. CASE ~(i < k)
    BY <1>10, <2>1, <2>3
  <2> QED BY <2>2, <2>3
<1>13. \A i, j \in 1 .. n - 1 : t[i] = t[j] => i = j
  <2> SUFFICES ASSUME NEW i \in 1 .. n - 1, NEW j \in 1 .. n - 1, t[i] = t[j] PROVE i = j
    OBVIOUS
  <2>1. PICK ii \in 1 .. n : t[i] = s[ii] /\ ii = (IF i < k THEN i ELSE i + 1)
    BY <1>12
  <2>2. PICK jj \in 1 .. n : t[j] = s[jj] /\ jj = (IF j < k THEN j ELSE j + 1)
    BY <1>12
  <2>3. ii = jj
    BY <1>11, <2>1, <2>2
  <2>4. /\ i \in Int /\ j \in Int /\ k \in Int
        /\ (IF i < k THEN i ELSE i + 1) = (IF j < k THEN j ELSE j + 1)
    BY <2>1, <2>2, <2>3
  <2> QED BY <2>4
<1>14. ASSUME NEW i \in 1 .. n - 1 PROVE t[i] \in Linked \ {l}
  <2>1. PICK ii \in 1 .. n : t[i] = s[ii] /\ ii = (IF i < k THEN i ELSE i + 1)
    BY <1>12
  <2>2. ii # k
    <3>1. i \in Int /\ k \in Int /\ ii = IF i < k THEN i ELSE i + 1
      BY <2>1
    <3> QED BY <3>1
  <2>3. s[ii] \in Linked
    BY <1>1, <1>2 DEF Linked
  <2> QED BY <1>6, <1>11, <2>1, <2>2, <2>3
<1>15. ASSUME NEW x \in Linked \ {l} PROVE \E i \in 1 .. n - 1 : t[i] = x
  <2>1. PICK j \in 1 .. n : s[j] = x
    BY <1>1, <1>2 DEF Linked
  <2>2. j # k
    BY <1>6, <2>1
  <2>3. CASE j < k
    <3>1. j \in 1 .. n - 1
      BY <2>3
    <3> QED BY <1>10, <2>1, <2>3, <3>1
  <2>4. CASE j > k
    <3>1. PICK i \in 1 .. n - 1 : i = j - 1
      BY <2>4
    <3>2. ~(i < k) /\ i + 1 = j
      BY <2>4, <3>1
    <3>3. t[i] = s[i + 1]
      BY <1>10, <3>2
    <3> QED BY <2>1, <3>2, <3>3
  <2> QED BY <2>2, <2>3, <2>4
<1> QED BY <1>8, <1>9, <1>10, <1>13, <1>14, <1>15
\* A message that is ahead of the farewell stays so when the mailbox takes another one.
LEMMA AppendAhead ==
    ASSUME NEW S, NEW q \in Seq(S), NEW x \in S, NEW m, Ahead(m, q)
    PROVE  Ahead(m, Append(q, x))
<1>1. PICK n \in Nat : n = Len(q)
  OBVIOUS
<1>2. PICK i \in 1 .. n : q[i] = m /\ \A k \in 1 .. i : q[k] # Null
  BY <1>1 DEF Ahead
<1>3. Len(Append(q, x)) = n + 1 /\ \A k \in 1 .. n : Append(q, x)[k] = q[k]
  BY <1>1
<1>4. i \in 1 .. n + 1 /\ \A k \in 1 .. i : k \in 1 .. n
  BY <1>1
<1> QED BY <1>2, <1>3, <1>4 DEF Ahead

\* A message enters a mailbox that has no farewell ahead of any.
LEMMA NewAhead ==
    ASSUME NEW S, NEW q \in Seq(S), NEW x \in S, x # Null,
           \A i \in 1 .. Len(q) : q[i] # Null
    PROVE  /\ Ahead(x, Append(q, x))
           /\ \A i \in 1 .. Len(Append(q, x)) : Append(q, x)[i] # Null
<1>1. PICK n \in Nat : n = Len(q)
  OBVIOUS
<1>2. /\ Len(Append(q, x)) = n + 1
      /\ Append(q, x)[n + 1] = x
      /\ \A k \in 1 .. n : Append(q, x)[k] = q[k]
  BY <1>1
<1>3. \A k \in 1 .. n + 1 : k \in 1 .. n \/ k = n + 1
  BY <1>1
<1>4. \A k \in 1 .. n + 1 : Append(q, x)[k] # Null
  BY <1>1, <1>2, <1>3
<1>5. n + 1 \in 1 .. n + 1
  BY <1>1
<1> QED BY <1>2, <1>4, <1>5 DEF Ahead

\* The first message of a mailbox is taken: the others keep their place.
LEMMA TailAhead ==
    ASSUME NEW S, NEW q \in Seq(S), q # <<>>, NEW m, Ahead(m, q)
    PROVE  Head(q) # Null /\ (m = Head(q) \/ Ahead(m, Tail(q)))
<1>1. PICK n \in Nat : n = Len(q) /\ n > 0
  OBVIOUS
<1>2. PICK i \in 1 .. n : q[i] = m /\ \A k \in 1 .. i : q[k] # Null
  BY <1>1 DEF Ahead
<1>3. Head(q) = q[1] /\ Len(Tail(q)) = n - 1 /\ \A k \in 1 .. n - 1 : Tail(q)[k] = q[k + 1]
  BY <1>1
<1>4. 1 \in 1 .. i
  OBVIOUS
<1>5. CASE i = 1
  BY <1>2, <1>3, <1>4, <1>5
<1>6. CASE i # 1
  <2>1. PICK j \in 1 .. n - 1 : j = i - 1
    BY <1>1, <1>6
  <2>2. j + 1 = i /\ \A k \in 1 .. j : k \in 1 .. n - 1 /\ k + 1 \in 1 .. i
    BY <2>1
  <2>3. Tail(q)[j] = m /\ \A k \in 1 .. j : Tail(q)[k] # Null
    BY <1>2, <1>3, <2>1, <2>2
  <2> QED BY <1>2, <1>3, <1>4, <2>3 DEF Ahead
<1> QED BY <1>5, <1>6

\* The steps, one by one: what a disjunction or an IF of an action does is a case of its
\* own, with what the invariant says of its subject.

\* A round of bio_notify_service that finds the mailbox full.
Yields(c) ==
    /\ Running(c) /\ cpu = c /\ pc[c] \in {"remove", "send"}
    /\ cpu' = "loop"
    /\ UNCHANGED <<main, listVars, svcVars, clientVars, overlapped>>

\* A logger in the list is freed, with a farewell for its service if that still runs.
Frees(l) ==
    /\ l \in Linked
    /\ ~(Accepts(l) /\ Full(l))
    /\ Remove(l)
    /\ UNCHANGED <<main, min_level, svc, held, owed, next, level, msg, formatted, num>>

ClientFrees(c, l) ==
    /\ Running(c) /\ pc[c] = "remove" /\ itr[c] = l
    /\ Frees(l)
    /\ cpu' = "loop"
    /\ pc' = [pc EXCEPT ![c] = "idle"]
    /\ itr' = [itr EXCEPT ![c] = End]

MainFrees(l) ==
    main = "cleanup" /\ impl[l] = "open" /\ Frees(l) /\ UNCHANGED <<cpu, pc, itr>>

MainDone ==
    /\ main = "cleanup" /\ main' = "drain" /\ cpu' = "loop"
    /\ UNCHANGED <<listVars, svcVars, clientVars, overlapped>>

\* A logger is read after it was freed.
ReadsFreed(c, l) ==
    /\ Running(c) /\ pc[c] \in {"visit", "send"} /\ itr[c] = l
    /\ impl[l] = "freed"
    /\ Undefined

\* A round of bio_notify_service that ends, and the walk goes on.
Sends(c, l) ==
    /\ Running(c) /\ pc[c] = "send" /\ itr[c] = l
    /\ impl[l] # "freed" /\ ~(Accepts(l) /\ Full(l))
    /\ queue' = [queue EXCEPT ![l] = IF Accepts(l) THEN Append(@, msg[c]) ELSE @]
    /\ owed' = [owed EXCEPT ![l] =
                   IF Accepts(l) /\ impl[l] = "open" THEN @ \cup {msg[c]} ELSE @]
    /\ cpu' = c
    /\ pc' = [pc EXCEPT ![c] = "visit"]
    /\ itr' = [itr EXCEPT ![c] = next[c]]
    /\ next' = [next EXCEPT ![c] = End]
    /\ UNCHANGED <<main, listVars, svc, held, level, msg, formatted, num, overlapped>>

\* A round of the walk of bio_vlog that ends it, goes on to the next logger, or comes to
\* the mailbox of this one.
Walking(c) == Running(c) /\ cpu = c /\ pc[c] = "visit"

WalkEnds(c) ==
    Walking(c) /\ Returned(c) /\ UNCHANGED <<main, listVars, svcVars, num, overlapped>>

WalksOn(c, l) ==
    /\ Walking(c) /\ itr[c] = l
    /\ itr' = [itr EXCEPT ![c] = After(l)]
    /\ formatted' \subseteq formatted \cup {c}
    /\ UNCHANGED <<cpu, main, listVars, svcVars, pc, next, level, msg, num, overlapped>>

WalkSends(c, l) ==
    /\ Walking(c) /\ itr[c] = l
    /\ pc' = [pc EXCEPT ![c] = "send"]
    /\ next' = [next EXCEPT ![c] = After(l)]
    /\ formatted' \subseteq formatted \cup {c}
    /\ UNCHANGED <<cpu, main, listVars, svcVars, itr, level, msg, num, overlapped>>

\* A service starts, gets its farewell, or takes a message.
Starts(l) ==
    /\ cpu = "loop" /\ svc[l] = "spawned"
    /\ svc' = [svc EXCEPT ![l] = "recv"]
    /\ UNCHANGED <<cpu, main, listVars, queue, held, owed, clientVars, overlapped>>

Dies(l) ==
    /\ cpu = "loop" /\ svc[l] = "recv" /\ queue[l] # <<>> /\ Head(queue[l]) = Null
    /\ svc' = [svc EXCEPT ![l] = "dead"]
    /\ queue' = [queue EXCEPT ![l] = <<>>]
    /\ UNCHANGED <<cpu, main, listVars, held, owed, clientVars, overlapped>>

Takes(l) ==
    /\ cpu = "loop" /\ svc[l] = "recv" /\ queue[l] # <<>> /\ Head(queue[l]) # Null
    /\ svc' = [svc EXCEPT ![l] = "writing"]
    /\ queue' = [queue EXCEPT ![l] = Tail(@)]
    /\ held' = [held EXCEPT ![l] = Head(queue[l])]
    /\ UNCHANGED <<cpu, main, listVars, owed, clientVars, overlapped>>

LogStep ==
    \/ \E c \in Client, l \in Logger, lvl \in Level :
           bio_add_logger(c, l, lvl) \/ bio_set_min_log_level(c, l, lvl)
    \/ \E c \in Client, lvl \in Level : bio_vlog(c, lvl)
    \/ \E c \in Client, l \in Logger :
          \/ bio_remove_logger(c, l) \/ ClientFrees(c, l) \/ ReadsFreed(c, l)
          \/ Sends(c, l) \/ WalksOn(c, l) \/ WalkSends(c, l)
    \/ \E c \in Client : Added(c) \/ Yields(c) \/ WalkEnds(c)
    \/ \E l \in Logger : Starts(l) \/ Dies(l) \/ Takes(l) \/ bio_log_to_file(l) \/ MainFrees(l)
    \/ bio_terminate \/ MainDone \/ Drained \/ UNCHANGED vars

\* A round of a walk.
LEMMA VisitCases ==
    ASSUME TypeOK, Walk, NEW c \in Client, VisitStep(c)
    PROVE  WalkEnds(c) \/ \E l \in Logger : ReadsFreed(c, l) \/ WalksOn(c, l) \/ WalkSends(c, l)
<1>1. Walking(c)
  BY DEF VisitStep, Walking
<1>2. CASE itr[c] = End
  BY <1>1, <1>2 DEF VisitStep, Visit, WalkEnds
<1>3. CASE itr[c] # End
  <2>1. PICK l \in Logger : l = itr[c]
    BY <1>3 DEF TypeOK
  <2>2. CASE impl[l] = "freed"
    BY <1>1, <1>3, <2>1, <2>2 DEF VisitStep, ReadsFreed, Running, Walking
  <2>3. CASE impl[l] # "freed"
    <3>1. PICK formats \in BOOLEAN : Visit(c, formats)
      BY <1>3, <2>1, <2>3 DEF VisitStep
    <3>2. CASE level[c] < min_level[l]
      BY <1>1, <1>3, <2>1, <3>1, <3>2 DEF Visit, WalksOn
    <3>3. CASE ~(level[c] < min_level[l]) /\ c \notin formatted /\ ~formats
      BY <1>1, <1>3, <2>1, <3>1, <3>3 DEF Visit, WalkEnds
    <3>4. CASE ~(level[c] < min_level[l]) /\ ~(c \notin formatted /\ ~formats)
      BY <1>1, <1>3, <2>1, <3>1, <3>4 DEF Visit, WalksOn, WalkSends
    <3> QED BY <3>2, <3>3, <3>4
  <2> QED BY <2>2, <2>3
<1> QED BY <1>2, <1>3

\* A round of the farewell's bio_notify_service.
LEMMA RemoveCases ==
    ASSUME TypeOK, Walk, Lives, NEW c \in Client, RemoveRound(c)
    PROVE  Yields(c) \/ \E l \in Logger : ClientFrees(c, l)
<1>1. Running(c) /\ pc[c] = "remove"
  BY DEF RemoveRound
<1>2. PICK l \in Logger : l = itr[c]
  BY <1>1 DEF TypeOK, Walk
<1>3. l \in Linked
  BY <1>1, <1>2 DEF Lives
<1>4. CASE Accepts(l) /\ Full(l)
  BY <1>1, <1>2, <1>4 DEF RemoveRound, Yields, Running, listVars, svcVars, clientVars
<1>5. CASE ~(Accepts(l) /\ Full(l))
  BY <1>1, <1>2, <1>3, <1>5 DEF RemoveRound, ClientFrees, Frees
<1> QED BY <1>4, <1>5

\* A round of a message's bio_notify_service; the logger may be gone.
LEMMA SendCases ==
    ASSUME TypeOK, Walk, NEW c \in Client, SendStep(c)
    PROVE  Yields(c) \/ \E l \in Logger : ReadsFreed(c, l) \/ Sends(c, l)
<1>1. Running(c) /\ pc[c] = "send"
  BY DEF SendStep
<1>2. PICK l \in Logger : l = itr[c]
  BY <1>1 DEF TypeOK, Walk
<1>3. CASE impl[l] = "freed"
  BY <1>1, <1>2, <1>3 DEF SendStep, ReadsFreed
<1>4. CASE impl[l] # "freed" /\ Accepts(l) /\ Full(l)
  BY <1>1, <1>2, <1>4 DEF SendStep, Send, Yields, Running, listVars, svcVars, clientVars
<1>5. CASE impl[l] # "freed" /\ ~(Accepts(l) /\ Full(l))
  BY <1>1, <1>2, <1>5 DEF SendStep, Send, Sends
<1> QED BY <1>3, <1>4, <1>5

\* bio_logging_cleanup frees the first logger of the list or finds the list empty.
LEMMA CleanupCases ==
    ASSUME TypeOK, Lives, bio_logging_cleanup
    PROVE  MainDone \/ \E l \in Logger : MainFrees(l)
<1>1. CASE CleanupDone
  BY <1>1 DEF bio_logging_cleanup, MainDone, listVars, svcVars, clientVars
<1>2. CASE ~CleanupDone
  <2>1. loggers # <<>> /\ main = "cleanup" /\ ~Stuck
    BY <1>2 DEF CleanupDone, bio_logging_cleanup
  <2>2. First = loggers[1] /\ 1 \in 1 .. Len(loggers) /\ First \in Logger
    BY <2>1 DEF TypeOK, First
  <2>3. First \in Linked
    BY <2>2 DEF Linked
  <2>4. impl[First] # "closed" /\ ~(Accepts(First) /\ Full(First))
    BY <2>1 DEF Stuck
  <2>5. impl[First] = "open"
    BY <2>2, <2>3, <2>4 DEF Lives
  <2> QED BY <1>2, <2>1, <2>2, <2>3, <2>4, <2>5 DEF bio_logging_cleanup, MainFrees, Frees, clientVars
<1> QED BY <1>1, <1>2

\* A step of a service that waits for a message.
LEMMA EntryCases ==
    ASSUME NEW l \in Logger, bio_log_service_entry(l)
    PROVE  Starts(l) \/ Dies(l) \/ Takes(l)
<1>1. CASE svc[l] = "spawned"
  BY <1>1 DEF bio_log_service_entry, Starts
<1>2. CASE svc[l] = "recv" /\ queue[l] # <<>> /\ Head(queue[l]) = Null
  BY <1>2 DEF bio_log_service_entry, Dies
<1>3. CASE svc[l] = "recv" /\ queue[l] # <<>> /\ Head(queue[l]) # Null
  BY <1>3 DEF bio_log_service_entry, Takes
<1> QED BY <1>1, <1>2, <1>3 DEF bio_log_service_entry

\* Every step is one of the cases.
LEMMA LogCases ==
    ASSUME TypeOK, Walk, Lives, [Next]_vars
    PROVE  LogStep
<1>1. CASE MainStep
  BY <1>1, CleanupCases DEF MainStep, LogStep
<1>2. ASSUME NEW l \in Logger, ServiceStep(l) PROVE LogStep
  BY <1>2, EntryCases DEF ServiceStep, LogStep
<1>3. ASSUME NEW c \in Client, ClientStep(c) PROVE LogStep
  <2>1. CASE Added(c)
    BY <2>1 DEF LogStep
  <2>2. CASE RemoveRound(c)
    BY <2>2, RemoveCases DEF LogStep
  <2>3. CASE VisitStep(c)
    BY <2>3, VisitCases DEF LogStep
  <2>4. CASE SendStep(c)
    BY <2>4, SendCases DEF LogStep
  <2> QED BY <1>3, <2>1, <2>2, <2>3, <2>4 DEF ClientStep
<1>4. CASE \/ bio_terminate
         \/ \E c \in Client :
               \/ \E lvl \in Level : bio_vlog(c, lvl)
               \/ \E l \in Logger :
                     \/ bio_remove_logger(c, l)
                     \/ \E lvl \in Level :
                           bio_add_logger(c, l, lvl) \/ bio_set_min_log_level(c, l, lvl)
  BY <1>4, Zenon DEF LogStep
<1>5. CASE UNCHANGED vars
  BY <1>5 DEF LogStep
<1> QED BY <1>1, <1>2, <1>3, <1>4, <1>5 DEF Next

\* What is left of the list and of the mailboxes when a logger is freed.
LEMMA FreesEffect ==
    ASSUME TypeOK, Lives, NEW l \in Logger, Frees(l)
    PROVE  /\ loggers' \in Seq(Logger)
           /\ \A i, j \in 1 .. Len(loggers') : loggers'[i] = loggers'[j] => i = j
           /\ Linked' = Linked \ {l}
           /\ l \in Linked
           /\ impl' = [impl EXCEPT ![l] = "freed"]
           /\ overlapped' = overlapped \cup Suspended
           /\ queue' \in [Logger -> Seq(0 .. MaxMsgs)]
           /\ \A k \in Logger : Len(queue'[k]) <= Capacity
           /\ \A k \in Logger \ {l} : queue'[k] = queue[k]
           /\ \A m : Ahead(m, queue[l]) => Ahead(m, queue'[l])
<1>1. l \in Linked
  BY DEF Frees
<1>2. /\ Unlink(l) \in Seq(Logger)
      /\ \A i, j \in 1 .. Len(Unlink(l)) : Unlink(l)[i] = Unlink(l)[j] => i = j
      /\ {Unlink(l)[i] : i \in 1 .. Len(Unlink(l))} = Linked \ {l}
  BY <1>1, UnlinkList
<1>3. loggers' = Unlink(l) /\ impl' = [impl EXCEPT ![l] = "freed"]
      /\ overlapped' = overlapped \cup Suspended
  BY DEF Frees, Remove
<1>4. PICK q \in Seq(0 .. MaxMsgs) : q = queue[l]
  BY DEF TypeOK
<1>5. 0 \in 0 .. MaxMsgs /\ Capacity \in Nat
  BY BoundsAssumption, CapacityAssumption
<1>6. Append(q, 0) \in Seq(0 .. MaxMsgs) /\ Len(Append(q, 0)) = Len(q) + 1
  BY <1>5
<1>7. \A m : Ahead(m, q) => Ahead(m, Append(q, 0))
  BY <1>5, AppendAhead
<1>8. PICK r : /\ r \in {q, Append(q, 0)}
               /\ queue' = [queue EXCEPT ![l] = r]
               /\ r = q \/ Len(q) < Capacity
  <2>1. CASE Accepts(l)
    <3>1. Len(q) < Capacity
      BY <1>4, <1>5, <2>1 DEF Frees, Full
    <3> QED BY <1>4, <2>1, <3>1 DEF Frees, Remove, Farewell, Null
  <2>2. CASE ~Accepts(l)
    BY <1>4, <2>2 DEF Frees, Remove
  <2> QED BY <2>1, <2>2
<1>9. r \in Seq(0 .. MaxMsgs) /\ Len(r) <= Capacity /\ \A m : Ahead(m, q) => Ahead(m, r)
  <2>1. Len(q) <= Capacity
    BY <1>4 DEF TypeOK
  <2>2. Len(q) \in Nat
    OBVIOUS
  <2>3. CASE r = q
    BY <2>1, <2>3
  <2>4. CASE r = Append(q, 0) /\ Len(q) < Capacity
    <3>1. Len(q) + 1 <= Capacity
      BY <1>5, <2>2, <2>4
    <3> QED BY <1>6, <1>7, <2>4, <3>1
  <2> QED BY <1>8, <2>3, <2>4
<1>10. /\ queue' \in [Logger -> Seq(0 .. MaxMsgs)]
       /\ queue'[l] = r
       /\ \A k \in Logger \ {l} : queue'[k] = queue[k]
  BY <1>8, <1>9 DEF TypeOK
<1>11. \A k \in Logger : Len(queue'[k]) <= Capacity
  BY <1>9, <1>10 DEF TypeOK
<1>12. Linked' = Linked \ {l}
  BY <1>2, <1>3 DEF Linked
<1> QED BY <1>1, <1>2, <1>3, <1>4, <1>9, <1>10, <1>11, <1>12

\* A client that walks the list keeps the processor until it suspends.
LEMMA WalkStep ==
    ASSUME LogInv, LogStep
    PROVE  Walk'
<1> USE CapacityAssumption, NamesAssumption, BoundsAssumption DEF LogInv
<1>1. ASSUME NEW c \in Client, NEW l \in Logger, NEW lvl \in Level, bio_add_logger(c, l, lvl)
       PROVE  Walk'
  BY <1>1 DEF bio_add_logger, Running, TypeOK, Walk, Null, End
<1>2. ASSUME NEW c \in Client, NEW l \in Logger, NEW lvl \in Level, bio_set_min_log_level(c, l, lvl)
       PROVE  Walk'
  BY <1>2 DEF bio_set_min_log_level, Running, svcVars, clientVars, TypeOK, Walk, Null, End
<1>3. ASSUME NEW c \in Client, NEW lvl \in Level, bio_vlog(c, lvl)
       PROVE  Walk'
  BY <1>3 DEF bio_vlog, Running, listVars, svcVars, TypeOK, Walk, Null, End
<1>4. ASSUME NEW c \in Client, NEW l \in Logger, bio_remove_logger(c, l)
       PROVE  Walk'
  BY <1>4 DEF bio_remove_logger, Running, svcVars, TypeOK, Walk, Null, End
<1>5. ASSUME NEW c \in Client, NEW l \in Logger, ClientFrees(c, l)
       PROVE  Walk'
  BY <1>5 DEF ClientFrees, Frees, Running, TypeOK, Walk, Null, End
<1>6. ASSUME NEW c \in Client, NEW l \in Logger, ReadsFreed(c, l)
       PROVE  Walk'
  BY <1>6 DEF ReadsFreed, Running, Undefined, listVars, svcVars, clientVars, TypeOK, Walk, Null, End
<1>7. ASSUME NEW c \in Client, NEW l \in Logger, Sends(c, l)
       PROVE  Walk'
  BY <1>7 DEF Sends, Running, listVars, TypeOK, Walk, Null, End
<1>8. ASSUME NEW c \in Client, NEW l \in Logger, WalksOn(c, l)
       PROVE  Walk'
  BY <1>8 DEF WalksOn, Walking, Running, listVars, svcVars, TypeOK, Walk, Null, End
<1>9. ASSUME NEW c \in Client, NEW l \in Logger, WalkSends(c, l)
       PROVE  Walk'
  BY <1>9 DEF WalkSends, Walking, Running, listVars, svcVars, TypeOK, Walk, Null, End
<1>10. ASSUME NEW c \in Client, Added(c)
       PROVE  Walk'
  BY <1>10 DEF Added, Running, svcVars, TypeOK, Walk, Null, End
<1>11. ASSUME NEW c \in Client, Yields(c)
       PROVE  Walk'
  BY <1>11 DEF Yields, Running, listVars, svcVars, clientVars, TypeOK, Walk, Null, End
<1>12. ASSUME NEW c \in Client, WalkEnds(c)
       PROVE  Walk'
  BY <1>12 DEF WalkEnds, Walking, Running, Returned, listVars, svcVars, TypeOK, Walk, Null, End
<1>13. ASSUME NEW l \in Logger, Starts(l)
       PROVE  Walk'
  BY <1>13 DEF Starts, listVars, clientVars, TypeOK, Walk, Null, End
<1>14. ASSUME NEW l \in Logger, Dies(l)
       PROVE  Walk'
  BY <1>14 DEF Dies, listVars, clientVars, TypeOK, Walk, Null, End
<1>15. ASSUME NEW l \in Logger, Takes(l)
       PROVE  Walk'
  BY <1>15 DEF Takes, listVars, clientVars, TypeOK, Walk, Null, End
<1>16. ASSUME NEW l \in Logger, bio_log_to_file(l)
       PROVE  Walk'
  BY <1>16 DEF bio_log_to_file, listVars, clientVars, TypeOK, Walk, Null, End
<1>17. ASSUME NEW l \in Logger, MainFrees(l)
       PROVE  Walk'
  BY <1>17 DEF MainFrees, Frees, TypeOK, Walk, Null, End
<1>18. ASSUME bio_terminate PROVE Walk'
  BY <1>18 DEF bio_terminate, listVars, svcVars, clientVars, TypeOK, Walk, Null, End
<1>19. ASSUME MainDone PROVE Walk'
  BY <1>19 DEF MainDone, listVars, svcVars, clientVars, TypeOK, Walk, Null, End
<1>20. ASSUME Drained PROVE Walk'
  BY <1>20 DEF Drained, listVars, svcVars, clientVars, TypeOK, Walk, Null, End
<1>21. ASSUME UNCHANGED vars PROVE Walk'
  BY <1>21 DEF vars, listVars, svcVars, clientVars, TypeOK, Walk, Null, End
<1> QED BY <1>1, <1>2, <1>3, <1>4, <1>5, <1>6, <1>7, <1>8, <1>9, <1>10, <1>11,
           <1>12, <1>13, <1>14, <1>15, <1>16, <1>17, <1>18, <1>19, <1>20, <1>21
        DEF LogStep

\* Every variable keeps its type; the list and the mailboxes are the ones that need Lives.
LEMMA LogTypeStep ==
    ASSUME LogInv, LogStep
    PROVE  TypeOK'
<1> USE CapacityAssumption, NamesAssumption, BoundsAssumption DEF LogInv
<1>1. ASSUME NEW c \in Client, NEW l \in Logger, NEW lvl \in Level, bio_add_logger(c, l, lvl)
       PROVE  TypeOK'
  BY <1>1 DEF bio_add_logger, Running, TypeOK, Null, End
<1>2. ASSUME NEW c \in Client, NEW l \in Logger, NEW lvl \in Level, bio_set_min_log_level(c, l, lvl)
       PROVE  TypeOK'
  BY <1>2 DEF bio_set_min_log_level, Running, svcVars, clientVars, TypeOK, Null, End
<1>3. ASSUME NEW c \in Client, NEW lvl \in Level, bio_vlog(c, lvl)
       PROVE  TypeOK'
  BY <1>3, ListReads DEF bio_vlog, Running, listVars, svcVars, TypeOK, Null, End
<1>4. ASSUME NEW c \in Client, NEW l \in Logger, bio_remove_logger(c, l)
       PROVE  TypeOK'
  BY <1>4 DEF bio_remove_logger, Running, svcVars, TypeOK, Null, End
<1>5. ASSUME NEW c \in Client, NEW l \in Logger, ClientFrees(c, l)
       PROVE  TypeOK'
  <2>1. /\ loggers' \in Seq(Logger)
        /\ \A i, j \in 1 .. Len(loggers') : loggers'[i] = loggers'[j] => i = j
        /\ Linked' = Linked \ {l}
        /\ impl' = [impl EXCEPT ![l] = "freed"]
        /\ overlapped' = overlapped \cup Suspended
        /\ queue' \in [Logger -> Seq(0 .. MaxMsgs)]
        /\ \A k \in Logger : Len(queue'[k]) <= Capacity
    BY <1>5, FreesEffect DEF ClientFrees
  <2> QED BY <1>5, <2>1 DEF ClientFrees, Running, Frees, Suspended, TypeOK, Null, End
<1>6. ASSUME NEW c \in Client, NEW l \in Logger, ReadsFreed(c, l)
       PROVE  TypeOK'
  BY <1>6 DEF ReadsFreed, Running, Undefined, listVars, svcVars, clientVars, TypeOK, Null, End
<1>7. ASSUME NEW c \in Client, NEW l \in Logger, Sends(c, l)
       PROVE  TypeOK'
  <2>1. PICK q \in Seq(0 .. MaxMsgs) : q = queue[l]
    BY DEF TypeOK
  <2>2. PICK m \in 1 .. MaxMsgs : m = msg[c]
    BY <1>7 DEF Sends, TypeOK, Walk, Null
  <2>3. m \in 0 .. MaxMsgs
    OBVIOUS
  <2>4. PICK r \in Seq(0 .. MaxMsgs) : queue' = [queue EXCEPT ![l] = r] /\ Len(r) <= Capacity
    <3>1. CASE Accepts(l)
      <4>1. Append(q, m) \in Seq(0 .. MaxMsgs) /\ Len(Append(q, m)) = Len(q) + 1
        BY <2>3
      <4>2. Len(q) \in Nat /\ Len(q) < Capacity
        BY <1>7, <2>1, <3>1 DEF Sends, Full
      <4>3. Len(Append(q, m)) <= Capacity
        BY <4>1, <4>2
      <4> QED BY <1>7, <2>1, <2>2, <3>1, <4>1, <4>3 DEF Sends
    <3>2. CASE ~Accepts(l)
      BY <1>7, <2>1, <3>2 DEF Sends, TypeOK
    <3> QED BY <3>1, <3>2
  <2>5. /\ queue' \in [Logger -> Seq(0 .. MaxMsgs)]
        /\ \A k \in Logger : Len(queue'[k]) <= Capacity
    BY <2>4 DEF TypeOK
  <2>6. owed' \in [Logger -> SUBSET (1 .. MaxMsgs)]
    BY <1>7, <2>2 DEF Sends, TypeOK
  <2> QED BY <1>7, <2>5, <2>6 DEF Sends, Running, listVars, TypeOK, End
<1>8. ASSUME NEW c \in Client, NEW l \in Logger, WalksOn(c, l)
       PROVE  TypeOK'
  BY <1>8, ListReads DEF WalksOn, Walking, Running, listVars, svcVars, TypeOK, Null, End
<1>9. ASSUME NEW c \in Client, NEW l \in Logger, WalkSends(c, l)
       PROVE  TypeOK'
  BY <1>9, ListReads DEF WalkSends, Walking, Running, listVars, svcVars, TypeOK, Null, End
<1>10. ASSUME NEW c \in Client, Added(c)
       PROVE  TypeOK'
  <2>1. itr[c] \in Logger
    BY <1>10 DEF Added, TypeOK, Walk
  <2>2. Append(loggers, itr[c]) \in Seq(Logger)
    BY <2>1 DEF TypeOK
  <2> QED BY <1>10, <2>1, <2>2 DEF Added, Running, svcVars, TypeOK, Null, End
<1>11. ASSUME NEW c \in Client, Yields(c)
       PROVE  TypeOK'
  BY <1>11 DEF Yields, Running, listVars, svcVars, clientVars, TypeOK, Null, End
<1>12. ASSUME NEW c \in Client, WalkEnds(c)
       PROVE  TypeOK'
  BY <1>12 DEF WalkEnds, Walking, Running, Returned, listVars, svcVars, TypeOK, Null, End
<1>13. ASSUME NEW l \in Logger, Starts(l)
       PROVE  TypeOK'
  BY <1>13 DEF Starts, listVars, clientVars, TypeOK, Null, End
<1>14. ASSUME NEW l \in Logger, Dies(l)
       PROVE  TypeOK'
  BY <1>14 DEF Dies, listVars, clientVars, TypeOK, Null, End
<1>15. ASSUME NEW l \in Logger, Takes(l)
       PROVE  TypeOK'
  BY <1>15 DEF Takes, listVars, clientVars, TypeOK, Null, End
<1>16. ASSUME NEW l \in Logger, bio_log_to_file(l)
       PROVE  TypeOK'
  BY <1>16 DEF bio_log_to_file, listVars, clientVars, TypeOK, Null, End
<1>17. ASSUME NEW l \in Logger, MainFrees(l)
       PROVE  TypeOK'
  <2>1. /\ loggers' \in Seq(Logger)
        /\ \A i, j \in 1 .. Len(loggers') : loggers'[i] = loggers'[j] => i = j
        /\ Linked' = Linked \ {l}
        /\ impl' = [impl EXCEPT ![l] = "freed"]
        /\ overlapped' = overlapped \cup Suspended
        /\ queue' \in [Logger -> Seq(0 .. MaxMsgs)]
        /\ \A k \in Logger : Len(queue'[k]) <= Capacity
    BY <1>17, FreesEffect DEF MainFrees
  <2> QED BY <1>17, <2>1 DEF MainFrees, Frees, Suspended, TypeOK, Null, End
<1>18. ASSUME bio_terminate PROVE TypeOK'
  BY <1>18 DEF bio_terminate, listVars, svcVars, clientVars, TypeOK, Null, End
<1>19. ASSUME MainDone PROVE TypeOK'
  BY <1>19 DEF MainDone, listVars, svcVars, clientVars, TypeOK, Null, End
<1>20. ASSUME Drained PROVE TypeOK'
  BY <1>20 DEF Drained, listVars, svcVars, clientVars, TypeOK, Null, End
<1>21. ASSUME UNCHANGED vars PROVE TypeOK'
  BY <1>21 DEF vars, listVars, svcVars, clientVars, TypeOK, Null, End
<1> QED BY <1>1, <1>2, <1>3, <1>4, <1>5, <1>6, <1>7, <1>8, <1>9, <1>10, <1>11,
           <1>12, <1>13, <1>14, <1>15, <1>16, <1>17, <1>18, <1>19, <1>20, <1>21
        DEF LogStep

\* The list stays the loggers that are open or being removed, each once.
LEMMA LivesStep ==
    ASSUME LogInv, LogStep
    PROVE  Lives'
<1> USE CapacityAssumption, NamesAssumption, BoundsAssumption DEF LogInv
<1>1. ASSUME NEW c \in Client, NEW l \in Logger, NEW lvl \in Level, bio_add_logger(c, l, lvl)
       PROVE  Lives'
  BY <1>1, SMTT(20) DEF bio_add_logger, Running, TypeOK, Walk, Lives, Linked, Null, End
<1>2. ASSUME NEW c \in Client, NEW l \in Logger, NEW lvl \in Level, bio_set_min_log_level(c, l, lvl)
       PROVE  Lives'
  BY <1>2, SMTT(20) DEF bio_set_min_log_level, Running, svcVars, clientVars, TypeOK, Walk, Lives, Linked, Null, End
<1>3. ASSUME NEW c \in Client, NEW lvl \in Level, bio_vlog(c, lvl)
       PROVE  Lives'
  BY <1>3 DEF bio_vlog, Running, listVars, svcVars, TypeOK, Walk, Lives, Linked, Null, End
<1>4. ASSUME NEW c \in Client, NEW l \in Logger, bio_remove_logger(c, l)
       PROVE  Lives'
  <2>1. Linked' = Linked
    BY <1>4 DEF bio_remove_logger, Linked
  <2>2. \A k \in Logger : k \in Linked' <=> impl'[k] \in {"open", "closed"}
    BY <1>4, <2>1 DEF bio_remove_logger, Lives, TypeOK
  <2>3. \A i, j \in 1 .. Len(loggers') : loggers'[i] = loggers'[j] => i = j
    BY <1>4 DEF bio_remove_logger, Lives
  <2> QED BY <1>4, <2>2, <2>3 DEF bio_remove_logger, Running, TypeOK, Walk, Lives, End
<1>5. ASSUME NEW c \in Client, NEW l \in Logger, ClientFrees(c, l)
       PROVE  Lives'
  <2>1. /\ \A i, j \in 1 .. Len(loggers') : loggers'[i] = loggers'[j] => i = j
        /\ Linked' = Linked \ {l}
        /\ impl' = [impl EXCEPT ![l] = "freed"]
    BY <1>5, FreesEffect DEF ClientFrees
  <2>2. l \in Linked
    BY <1>5 DEF ClientFrees, Frees
  <2>3. \A k \in Logger : k \in Linked' <=> impl'[k] \in {"open", "closed"}
    BY <2>1 DEF Lives, TypeOK
  <2>4. impl[l] \in {"open", "closed"}
    BY <2>2 DEF Lives
  <2> QED BY <1>5, <2>1, <2>3, <2>4 DEF ClientFrees, Frees, Running, TypeOK, Walk, Lives, End
<1>6. ASSUME NEW c \in Client, NEW l \in Logger, ReadsFreed(c, l)
       PROVE  Lives'
  BY <1>6 DEF ReadsFreed, Running, Undefined, listVars, svcVars, clientVars,
              TypeOK, Walk, Lives, Linked, Null, End
<1>7. ASSUME NEW c \in Client, NEW l \in Logger, Sends(c, l)
       PROVE  Lives'
  <2>1. loggers' = loggers /\ impl' = impl /\ Linked' = Linked
    BY <1>7 DEF Sends, listVars, Linked
  <2>2. /\ \A d \in Client \ {c} : pc'[d] = pc[d] /\ itr'[d] = itr[d]
        /\ pc'[c] = "visit"
    BY <1>7 DEF Sends, TypeOK
  <2> QED BY <2>1, <2>2 DEF Lives
<1>8. ASSUME NEW c \in Client, NEW l \in Logger, WalksOn(c, l)
       PROVE  Lives'
  <2>1. loggers' = loggers /\ impl' = impl /\ Linked' = Linked /\ pc' = pc /\ pc[c] = "visit"
    BY <1>8 DEF WalksOn, Walking, listVars, Linked
  <2>2. \A d \in Client \ {c} : itr'[d] = itr[d]
    BY <1>8 DEF WalksOn, TypeOK
  <2> QED BY <2>1, <2>2 DEF Lives
<1>9. ASSUME NEW c \in Client, NEW l \in Logger, WalkSends(c, l)
       PROVE  Lives'
  BY <1>9 DEF WalkSends, Walking, Running, listVars, svcVars, TypeOK, Walk, Lives, Linked, Null, End
<1>10. ASSUME NEW c \in Client, Added(c)
       PROVE  Lives'
  <2>1. PICK l \in Logger : l = itr[c]
    BY <1>10 DEF Added, TypeOK, Walk
  <2>2. PICK n \in Nat : n = Len(loggers)
    BY DEF TypeOK
  <2>3. impl[l] = "starting" /\ l \notin Linked
    BY <1>10, <2>1 DEF Added, Lives
  <2>4. \A i \in 1 .. n : loggers[i] # l
    BY <2>2, <2>3 DEF Linked
  <2>5. /\ loggers' = Append(loggers, l) /\ Len(loggers') = n + 1
        /\ loggers'[n + 1] = l
        /\ \A i \in 1 .. n : loggers'[i] = loggers[i]
    BY <1>10, <2>1, <2>2 DEF Added, TypeOK
  <2>6. \A i \in 1 .. n + 1 : i \in 1 .. n \/ i = n + 1
    OBVIOUS
  <2>7. \A i, j \in 1 .. n : loggers[i] = loggers[j] => i = j
    BY <2>2 DEF Lives
  <2>8. \A i, j \in 1 .. n + 1 : loggers'[i] = loggers'[j] => i = j
    BY <2>4, <2>5, <2>6, <2>7
  <2>9. Linked' = Linked \cup {l}
    <3>1. n + 1 \in 1 .. n + 1 /\ \A i \in 1 .. n : i \in 1 .. n + 1
      OBVIOUS
    <3> QED BY <2>2, <2>5, <2>6, <3>1 DEF Linked
  <2>10. \A k \in Logger : k \in Linked' <=> impl'[k] \in {"open", "closed"}
    BY <1>10, <2>1, <2>9 DEF Added, Lives, TypeOK
  <2>11. /\ \A d \in Client :
               /\ pc'[d] = "adding" => impl'[itr'[d]] = "starting"
               /\ pc'[d] = "remove" => impl'[itr'[d]] = "closed"
         /\ \A d, e \in Client :
               pc'[d] \in {"adding", "remove"} /\ pc'[e] \in {"adding", "remove"} /\ itr'[d] = itr'[e]
                   => d = e
    BY <1>10, <2>1 DEF Added, Lives, TypeOK, Walk, End
  <2> QED BY <2>5, <2>8, <2>10, <2>11 DEF Lives
<1>11. ASSUME NEW c \in Client, Yields(c)
       PROVE  Lives'
  BY <1>11 DEF Yields, Running, listVars, svcVars, clientVars, TypeOK, Walk, Lives, Linked, Null, End
<1>12. ASSUME NEW c \in Client, WalkEnds(c)
       PROVE  Lives'
  BY <1>12 DEF WalkEnds, Walking, Running, Returned, listVars, svcVars, TypeOK, Walk, Lives, Linked, Null, End
<1>13. ASSUME NEW l \in Logger, Starts(l)
       PROVE  Lives'
  BY <1>13 DEF Starts, listVars, clientVars, TypeOK, Walk, Lives, Linked, Null, End
<1>14. ASSUME NEW l \in Logger, Dies(l)
       PROVE  Lives'
  BY <1>14 DEF Dies, listVars, clientVars, TypeOK, Walk, Lives, Linked, Null, End
<1>15. ASSUME NEW l \in Logger, Takes(l)
       PROVE  Lives'
  BY <1>15 DEF Takes, listVars, clientVars, TypeOK, Walk, Lives, Linked, Null, End
<1>16. ASSUME NEW l \in Logger, bio_log_to_file(l)
       PROVE  Lives'
  BY <1>16 DEF bio_log_to_file, listVars, clientVars, TypeOK, Walk, Lives, Linked, Null, End
<1>17. ASSUME NEW l \in Logger, MainFrees(l)
       PROVE  Lives'
  <2>1. /\ \A i, j \in 1 .. Len(loggers') : loggers'[i] = loggers'[j] => i = j
        /\ Linked' = Linked \ {l}
        /\ impl' = [impl EXCEPT ![l] = "freed"]
    BY <1>17, FreesEffect DEF MainFrees
  <2>2. l \in Linked
    BY <1>17 DEF MainFrees, Frees
  <2>3. \A k \in Logger : k \in Linked' <=> impl'[k] \in {"open", "closed"}
    BY <2>1 DEF Lives, TypeOK
  <2>4. impl[l] \in {"open", "closed"}
    BY <2>2 DEF Lives
  <2> QED BY <1>17, <2>1, <2>3, <2>4 DEF MainFrees, Frees, TypeOK, Walk, Lives, End
<1>18. ASSUME bio_terminate PROVE Lives'
  BY <1>18 DEF bio_terminate, listVars, svcVars, clientVars, TypeOK, Walk, Lives, Linked, Null, End
<1>19. ASSUME MainDone PROVE Lives'
  BY <1>19 DEF MainDone, listVars, svcVars, clientVars, TypeOK, Walk, Lives, Linked, Null, End
<1>20. ASSUME Drained PROVE Lives'
  BY <1>20 DEF Drained, listVars, svcVars, clientVars, TypeOK, Walk, Lives, Linked, Null, End
<1>21. ASSUME UNCHANGED vars PROVE Lives'
  BY <1>21 DEF vars, listVars, svcVars, clientVars, TypeOK, Walk, Lives, Linked, Null, End
<1> QED BY <1>1, <1>2, <1>3, <1>4, <1>5, <1>6, <1>7, <1>8, <1>9, <1>10, <1>11,
           <1>12, <1>13, <1>14, <1>15, <1>16, <1>17, <1>18, <1>19, <1>20, <1>21
        DEF LogStep

\* What a walk goes on with is freed only together with a note that the walk was suspended.
LEMMA ReadsStep ==
    ASSUME LogInv, LogStep
    PROVE  Reads'
<1> USE CapacityAssumption, NamesAssumption, BoundsAssumption DEF LogInv
<1>1. ASSUME NEW c \in Client, NEW l \in Logger, NEW lvl \in Level, bio_add_logger(c, l, lvl)
       PROVE  Reads'
  BY <1>1 DEF bio_add_logger, Running, TypeOK, Walk, Lives, Reads, Null, End
<1>2. ASSUME NEW c \in Client, NEW l \in Logger, NEW lvl \in Level, bio_set_min_log_level(c, l, lvl)
       PROVE  Reads'
  BY <1>2 DEF bio_set_min_log_level, Running, svcVars, clientVars, TypeOK, Walk, Lives, Reads, Null, End
<1>3. ASSUME NEW c \in Client, NEW lvl \in Level, bio_vlog(c, lvl)
       PROVE  Reads'
  BY <1>3, ListReads DEF bio_vlog, Running, listVars, svcVars, TypeOK, Walk, Lives, Reads, Null, End
<1>4. ASSUME NEW c \in Client, NEW l \in Logger, bio_remove_logger(c, l)
       PROVE  Reads'
  BY <1>4 DEF bio_remove_logger, Running, svcVars, TypeOK, Walk, Lives, Reads, Null, End
<1>5. ASSUME NEW c \in Client, NEW l \in Logger, ClientFrees(c, l)
       PROVE  Reads'
  <2>1. impl' = [impl EXCEPT ![l] = "freed"] /\ overlapped' = overlapped \cup Suspended
    BY <1>5, FreesEffect DEF ClientFrees
  <2>2. \A d \in Client : pc[d] # "visit"
    BY <1>5 DEF ClientFrees, Running, Walk
  <2>3. \A d \in Client \ overlapped' : pc'[d] \notin {"visit", "send"}
    BY <1>5, <2>1, <2>2 DEF ClientFrees, Suspended, TypeOK
  <2> QED BY <2>3 DEF Reads
<1>6. ASSUME NEW c \in Client, NEW l \in Logger, ReadsFreed(c, l)
       PROVE  Reads'
  BY <1>6 DEF ReadsFreed, Running, Undefined, listVars, svcVars, clientVars,
              TypeOK, Walk, Lives, Reads, Null, End
<1>7. ASSUME NEW c \in Client, NEW l \in Logger, Sends(c, l)
       PROVE  Reads'
  BY <1>7 DEF Sends, Running, listVars, TypeOK, Walk, Lives, Reads, Null, End
<1>8. ASSUME NEW c \in Client, NEW l \in Logger, WalksOn(c, l)
       PROVE  Reads'
  BY <1>8, ListReads DEF WalksOn, Walking, Running, listVars, svcVars, TypeOK, Walk, Lives, Reads, Null, End
<1>9. ASSUME NEW c \in Client, NEW l \in Logger, WalkSends(c, l)
       PROVE  Reads'
  <2>1. After(l) # End => After(l) \in Logger /\ impl[After(l)] \in {"open", "closed"}
    BY ListReads DEF Lives
  <2> QED BY <1>9, <2>1 DEF WalkSends, Walking, Running, listVars, TypeOK, Reads
<1>10. ASSUME NEW c \in Client, Added(c)
       PROVE  Reads'
  BY <1>10 DEF Added, Running, svcVars, TypeOK, Walk, Lives, Reads, Null, End
<1>11. ASSUME NEW c \in Client, Yields(c)
       PROVE  Reads'
  BY <1>11 DEF Yields, Running, listVars, svcVars, clientVars, TypeOK, Walk, Lives, Reads, Null, End
<1>12. ASSUME NEW c \in Client, WalkEnds(c)
       PROVE  Reads'
  BY <1>12 DEF WalkEnds, Walking, Running, Returned, listVars, svcVars, TypeOK, Walk, Lives, Reads, Null, End
<1>13. ASSUME NEW l \in Logger, Starts(l)
       PROVE  Reads'
  BY <1>13 DEF Starts, listVars, clientVars, TypeOK, Walk, Lives, Reads, Null, End
<1>14. ASSUME NEW l \in Logger, Dies(l)
       PROVE  Reads'
  BY <1>14 DEF Dies, listVars, clientVars, TypeOK, Walk, Lives, Reads, Null, End
<1>15. ASSUME NEW l \in Logger, Takes(l)
       PROVE  Reads'
  BY <1>15 DEF Takes, listVars, clientVars, TypeOK, Walk, Lives, Reads, Null, End
<1>16. ASSUME NEW l \in Logger, bio_log_to_file(l)
       PROVE  Reads'
  BY <1>16 DEF bio_log_to_file, listVars, clientVars, TypeOK, Walk, Lives, Reads, Null, End
<1>17. ASSUME NEW l \in Logger, MainFrees(l)
       PROVE  Reads'
  <2>1. overlapped' = overlapped \cup Suspended /\ pc' = pc
    BY <1>17, FreesEffect DEF MainFrees
  <2>2. \A d \in Client : pc[d] # "visit"
    BY <1>17 DEF MainFrees, Walk
  <2>3. \A d \in Client \ overlapped' : pc'[d] \notin {"visit", "send"}
    BY <2>1, <2>2 DEF Suspended
  <2> QED BY <2>3 DEF Reads
<1>18. ASSUME bio_terminate PROVE Reads'
  BY <1>18 DEF bio_terminate, listVars, svcVars, clientVars, TypeOK, Walk, Lives, Reads, Null, End
<1>19. ASSUME MainDone PROVE Reads'
  BY <1>19 DEF MainDone, listVars, svcVars, clientVars, TypeOK, Walk, Lives, Reads, Null, End
<1>20. ASSUME Drained PROVE Reads'
  BY <1>20 DEF Drained, listVars, svcVars, clientVars, TypeOK, Walk, Lives, Reads, Null, End
<1>21. ASSUME UNCHANGED vars PROVE Reads'
  BY <1>21 DEF vars, listVars, svcVars, clientVars, TypeOK, Walk, Lives, Reads, Null, End
<1> QED BY <1>1, <1>2, <1>3, <1>4, <1>5, <1>6, <1>7, <1>8, <1>9, <1>10, <1>11,
           <1>12, <1>13, <1>14, <1>15, <1>16, <1>17, <1>18, <1>19, <1>20, <1>21
        DEF LogStep

\* A service that finds its farewell owes nothing: all it took came before.
LEMMA NothingOwed ==
    ASSUME TypeOK, Owes, NEW l \in Logger,
           svc[l] = "recv", queue[l] # <<>>, Head(queue[l]) = Null
    PROVE  owed[l] = {}
<1>1. PICK q \in Seq(0 .. MaxMsgs) : q = queue[l]
  BY DEF TypeOK
<1>2. held[l] = Null
  BY DEF Owes
<1>3. ASSUME NEW m \in owed[l] PROVE FALSE
  <2>1. m # Null
    BY DEF TypeOK, Null
  <2>2. Ahead(m, q)
    BY <1>1, <1>2, <2>1 DEF Owes
  <2> QED BY <1>1, <2>2, TailAhead
<1> QED BY <1>3

\* What a logger owes stays ahead of its farewell, from the mailbox to its log function.
LEMMA OwesStep ==
    ASSUME LogInv, LogStep
    PROVE  Owes'
<1> USE CapacityAssumption, NamesAssumption, BoundsAssumption DEF LogInv
<1>1. ASSUME NEW c \in Client, NEW l \in Logger, NEW lvl \in Level, bio_add_logger(c, l, lvl)
       PROVE  Owes'
  BY <1>1 DEF bio_add_logger, Running, TypeOK, Owes
<1>2. ASSUME NEW c \in Client, NEW l \in Logger, NEW lvl \in Level, bio_set_min_log_level(c, l, lvl)
       PROVE  Owes'
  BY <1>2 DEF bio_set_min_log_level, Running, svcVars, clientVars, TypeOK, Owes
<1>3. ASSUME NEW c \in Client, NEW lvl \in Level, bio_vlog(c, lvl)
       PROVE  Owes'
  BY <1>3 DEF bio_vlog, Running, listVars, svcVars, TypeOK, Owes
<1>4. ASSUME NEW c \in Client, NEW l \in Logger, bio_remove_logger(c, l)
       PROVE  Owes'
  BY <1>4 DEF bio_remove_logger, Running, svcVars, TypeOK, Owes
<1>5. ASSUME NEW c \in Client, NEW l \in Logger, ClientFrees(c, l)
       PROVE  Owes'
  <2>1. /\ impl' = [impl EXCEPT ![l] = "freed"]
        /\ \A k \in Logger \ {l} : queue'[k] = queue[k]
        /\ \A m : Ahead(m, queue[l]) => Ahead(m, queue'[l])
    BY <1>5, FreesEffect DEF ClientFrees
  <2>2. svc' = svc /\ held' = held /\ owed' = owed
    BY <1>5 DEF ClientFrees, Frees
  <2>3. impl'[l] = "freed" /\ \A k \in Logger \ {l} : impl'[k] = impl[k]
    BY <2>1 DEF TypeOK
  <2> QED BY <2>1, <2>2, <2>3 DEF Owes
<1>6. ASSUME NEW c \in Client, NEW l \in Logger, ReadsFreed(c, l)
       PROVE  Owes'
  BY <1>6 DEF ReadsFreed, Running, Undefined, listVars, svcVars, clientVars, TypeOK, Owes
<1>7. ASSUME NEW c \in Client, NEW l \in Logger, Sends(c, l)
       PROVE  Owes'
  <2>1. PICK q \in Seq(0 .. MaxMsgs) : q = queue[l]
    BY DEF TypeOK
  <2>2. PICK m \in 0 .. MaxMsgs : m = msg[c] /\ m # Null
    BY <1>7 DEF Sends, TypeOK, Walk
  <2>3. \A i \in 1 .. Len(q) : q[i] # Null
    BY <1>7, <2>1 DEF Sends, Owes
  <2>4. Ahead(m, Append(q, m)) /\ \A i \in 1 .. Len(Append(q, m)) : Append(q, m)[i] # Null
    BY <2>2, <2>3, NewAhead
  <2>5. \A x : Ahead(x, q) => Ahead(x, Append(q, m))
    BY AppendAhead
  <2>6. impl' = impl /\ svc' = svc /\ held' = held
    BY <1>7 DEF Sends, listVars
  <2>7. /\ \A k \in Logger \ {l} : queue'[k] = queue[k] /\ owed'[k] = owed[k]
        /\ owed'[l] \subseteq owed[l] \cup {m}
    BY <1>7, <2>2 DEF Sends, TypeOK
  <2>8. CASE Accepts(l)
    <3>1. queue'[l] = Append(q, m)
      BY <1>7, <2>1, <2>2, <2>8 DEF Sends, TypeOK
    <3>2. \A x \in owed'[l] : x = held[l] \/ Ahead(x, Append(q, m))
      BY <2>1, <2>4, <2>5, <2>7 DEF Owes
    <3>3. /\ impl'[l] = "none" => svc'[l] = "none"
          /\ impl'[l] # "freed" => \A i \in 1 .. Len(queue'[l]) : queue'[l][i] # Null
          /\ svc'[l] # "writing" => held'[l] = Null
          /\ \A x \in owed'[l] : x = held'[l] \/ Ahead(x, queue'[l])
      BY <2>4, <2>6, <3>1, <3>2 DEF Owes
    <3>4. ASSUME NEW k \in Logger \ {l}
          PROVE  /\ impl'[k] = "none" => svc'[k] = "none"
                 /\ impl'[k] # "freed" => \A i \in 1 .. Len(queue'[k]) : queue'[k][i] # Null
                 /\ svc'[k] # "writing" => held'[k] = Null
                 /\ \A x \in owed'[k] : x = held'[k] \/ Ahead(x, queue'[k])
      BY <2>6, <2>7 DEF Owes
    <3> QED BY <3>3, <3>4 DEF Owes
  <2>9. CASE ~Accepts(l)
    <3>1. queue' = queue /\ owed' = owed
      BY <1>7, <2>9 DEF Sends, TypeOK
    <3> QED BY <2>6, <3>1 DEF Owes
  <2> QED BY <2>8, <2>9
<1>8. ASSUME NEW c \in Client, NEW l \in Logger, WalksOn(c, l)
       PROVE  Owes'
  BY <1>8 DEF WalksOn, Walking, Running, listVars, svcVars, TypeOK, Owes
<1>9. ASSUME NEW c \in Client, NEW l \in Logger, WalkSends(c, l)
       PROVE  Owes'
  BY <1>9 DEF WalkSends, Walking, Running, listVars, svcVars, TypeOK, Owes
<1>10. ASSUME NEW c \in Client, Added(c)
       PROVE  Owes'
  <2>1. PICK l \in Logger : l = itr[c]
    BY <1>10 DEF Added, TypeOK, Walk
  <2>2. impl[l] = "starting" /\ impl'[l] = "open" /\ \A k \in Logger \ {l} : impl'[k] = impl[k]
    BY <1>10, <2>1 DEF Added, Lives, TypeOK
  <2>3. svc' = svc /\ queue' = queue /\ held' = held /\ owed' = owed
    BY <1>10 DEF Added, svcVars
  <2> QED BY <2>2, <2>3 DEF Owes
<1>11. ASSUME NEW c \in Client, Yields(c)
       PROVE  Owes'
  BY <1>11 DEF Yields, Running, listVars, svcVars, clientVars, TypeOK, Owes
<1>12. ASSUME NEW c \in Client, WalkEnds(c)
       PROVE  Owes'
  BY <1>12 DEF WalkEnds, Walking, Running, Returned, listVars, svcVars, TypeOK, Owes
<1>13. ASSUME NEW l \in Logger, Starts(l)
       PROVE  Owes'
  BY <1>13 DEF Starts, listVars, clientVars, TypeOK, Owes
<1>14. ASSUME NEW l \in Logger, Dies(l)
       PROVE  Owes'
  <2>1. owed[l] = {}
    BY <1>14, NothingOwed DEF Dies
  <2>2. queue'[l] = <<>> /\ \A k \in Logger \ {l} : queue'[k] = queue[k] /\ svc'[k] = svc[k]
    BY <1>14 DEF Dies, TypeOK
  <2>3. held[l] = Null /\ svc'[l] = "dead" /\ impl[l] # "none"
    BY <1>14 DEF Dies, Owes, TypeOK
  <2>4. impl' = impl /\ held' = held /\ owed' = owed
    BY <1>14 DEF Dies, listVars
  <2> QED BY <2>1, <2>2, <2>3, <2>4 DEF Owes
<1>15. ASSUME NEW l \in Logger, Takes(l)
       PROVE  Owes'
  <2>1. PICK q \in Seq(0 .. MaxMsgs) : q = queue[l] /\ q # <<>>
    BY <1>15 DEF Takes, TypeOK
  <2>2. held[l] = Null /\ impl[l] # "none"
    BY <1>15 DEF Takes, Owes
  <2>3. \A m \in owed[l] : Ahead(m, q)
    BY <2>1, <2>2 DEF Owes, TypeOK, Null
  <2>4. \A m \in owed[l] : m = Head(q) \/ Ahead(m, Tail(q))
    BY <2>1, <2>3, TailAhead
  <2>5. impl[l] # "freed" => \A i \in 1 .. Len(Tail(q)) : Tail(q)[i] # Null
    <3>1. PICK n \in Nat : n = Len(q) /\ n > 0
      BY <2>1
    <3>2. Len(Tail(q)) = n - 1 /\ \A i \in 1 .. n - 1 : Tail(q)[i] = q[i + 1]
      BY <2>1, <3>1
    <3>3. \A i \in 1 .. n - 1 : i + 1 \in 1 .. n
      BY <3>1
    <3> QED BY <2>1, <3>1, <3>2, <3>3 DEF Owes
  <2>6. /\ queue'[l] = Tail(q) /\ held'[l] = Head(q) /\ svc'[l] = "writing"
        /\ \A k \in Logger \ {l} :
              queue'[k] = queue[k] /\ held'[k] = held[k] /\ svc'[k] = svc[k]
    BY <1>15, <2>1 DEF Takes, TypeOK
  <2>7. impl' = impl /\ owed' = owed
    BY <1>15 DEF Takes, listVars
  <2>8. /\ impl'[l] = "none" => svc'[l] = "none"
        /\ impl'[l] # "freed" => \A i \in 1 .. Len(queue'[l]) : queue'[l][i] # Null
        /\ svc'[l] # "writing" => held'[l] = Null
        /\ \A x \in owed'[l] : x = held'[l] \/ Ahead(x, queue'[l])
    BY <2>2, <2>4, <2>5, <2>6, <2>7
  <2>9. ASSUME NEW k \in Logger \ {l}
        PROVE  /\ impl'[k] = "none" => svc'[k] = "none"
               /\ impl'[k] # "freed" => \A i \in 1 .. Len(queue'[k]) : queue'[k][i] # Null
               /\ svc'[k] # "writing" => held'[k] = Null
               /\ \A x \in owed'[k] : x = held'[k] \/ Ahead(x, queue'[k])
    BY <2>6, <2>7 DEF Owes
  <2> QED BY <2>8, <2>9 DEF Owes
<1>16. ASSUME NEW l \in Logger, bio_log_to_file(l)
       PROVE  Owes'
  BY <1>16 DEF bio_log_to_file, listVars, clientVars, TypeOK, Owes
<1>17. ASSUME NEW l \in Logger, MainFrees(l)
       PROVE  Owes'
  <2>1. /\ impl' = [impl EXCEPT ![l] = "freed"]
        /\ \A k \in Logger \ {l} : queue'[k] = queue[k]
        /\ \A m : Ahead(m, queue[l]) => Ahead(m, queue'[l])
    BY <1>17, FreesEffect DEF MainFrees
  <2>2. svc' = svc /\ held' = held /\ owed' = owed
    BY <1>17 DEF MainFrees, Frees
  <2>3. impl'[l] = "freed" /\ \A k \in Logger \ {l} : impl'[k] = impl[k]
    BY <2>1 DEF TypeOK
  <2> QED BY <2>1, <2>2, <2>3 DEF Owes
<1>18. ASSUME bio_terminate PROVE Owes'
  BY <1>18 DEF bio_terminate, listVars, svcVars, clientVars, TypeOK, Owes
<1>19. ASSUME MainDone PROVE Owes'
  BY <1>19 DEF MainDone, listVars, svcVars, clientVars, TypeOK, Owes
<1>20. ASSUME Drained PROVE Owes'
  BY <1>20 DEF Drained, listVars, svcVars, clientVars, TypeOK, Owes
<1>21. ASSUME UNCHANGED vars PROVE Owes'
  BY <1>21 DEF vars, listVars, svcVars, clientVars, TypeOK, Owes
<1> QED BY <1>1, <1>2, <1>3, <1>4, <1>5, <1>6, <1>7, <1>8, <1>9, <1>10, <1>11,
           <1>12, <1>13, <1>14, <1>15, <1>16, <1>17, <1>18, <1>19, <1>20, <1>21
        DEF LogStep

\* A logger that dies owes nothing.
LEMMA TakenStep ==
    ASSUME LogInv, LogStep
    PROVE  TakenIsWritten'
<1> USE CapacityAssumption, NamesAssumption, BoundsAssumption DEF LogInv
<1>1. ASSUME NEW c \in Client, NEW l \in Logger, NEW lvl \in Level, bio_add_logger(c, l, lvl)
       PROVE  TakenIsWritten'
  BY <1>1 DEF bio_add_logger, Running, TypeOK, TakenIsWritten
<1>2. ASSUME NEW c \in Client, NEW l \in Logger, NEW lvl \in Level, bio_set_min_log_level(c, l, lvl)
       PROVE  TakenIsWritten'
  BY <1>2 DEF bio_set_min_log_level, Running, svcVars, clientVars, TypeOK, TakenIsWritten
<1>3. ASSUME NEW c \in Client, NEW lvl \in Level, bio_vlog(c, lvl)
       PROVE  TakenIsWritten'
  BY <1>3 DEF bio_vlog, Running, listVars, svcVars, TypeOK, TakenIsWritten
<1>4. ASSUME NEW c \in Client, NEW l \in Logger, bio_remove_logger(c, l)
       PROVE  TakenIsWritten'
  BY <1>4 DEF bio_remove_logger, Running, svcVars, TypeOK, TakenIsWritten
<1>5. ASSUME NEW c \in Client, NEW l \in Logger, ClientFrees(c, l)
       PROVE  TakenIsWritten'
  BY <1>5 DEF ClientFrees, Frees, Running, TypeOK, TakenIsWritten
<1>6. ASSUME NEW c \in Client, NEW l \in Logger, ReadsFreed(c, l)
       PROVE  TakenIsWritten'
  BY <1>6 DEF ReadsFreed, Running, Undefined, listVars, svcVars, clientVars, TypeOK, TakenIsWritten
<1>7. ASSUME NEW c \in Client, NEW l \in Logger, Sends(c, l)
       PROVE  TakenIsWritten'
  BY <1>7 DEF Sends, Running, listVars, TypeOK, TakenIsWritten, Accepts
<1>8. ASSUME NEW c \in Client, NEW l \in Logger, WalksOn(c, l)
       PROVE  TakenIsWritten'
  BY <1>8 DEF WalksOn, Walking, Running, listVars, svcVars, TypeOK, TakenIsWritten
<1>9. ASSUME NEW c \in Client, NEW l \in Logger, WalkSends(c, l)
       PROVE  TakenIsWritten'
  BY <1>9 DEF WalkSends, Walking, Running, listVars, svcVars, TypeOK, TakenIsWritten
<1>10. ASSUME NEW c \in Client, Added(c)
       PROVE  TakenIsWritten'
  BY <1>10 DEF Added, Running, svcVars, TypeOK, TakenIsWritten
<1>11. ASSUME NEW c \in Client, Yields(c)
       PROVE  TakenIsWritten'
  BY <1>11 DEF Yields, Running, listVars, svcVars, clientVars, TypeOK, TakenIsWritten
<1>12. ASSUME NEW c \in Client, WalkEnds(c)
       PROVE  TakenIsWritten'
  BY <1>12 DEF WalkEnds, Walking, Running, Returned, listVars, svcVars, TypeOK, TakenIsWritten
<1>13. ASSUME NEW l \in Logger, Starts(l)
       PROVE  TakenIsWritten'
  BY <1>13 DEF Starts, listVars, clientVars, TypeOK, TakenIsWritten
<1>14. ASSUME NEW l \in Logger, Dies(l)
       PROVE  TakenIsWritten'
  <2>1. owed[l] = {}
    BY <1>14, NothingOwed DEF Dies
  <2> QED BY <1>14, <2>1 DEF Dies, TypeOK, TakenIsWritten
<1>15. ASSUME NEW l \in Logger, Takes(l)
       PROVE  TakenIsWritten'
  BY <1>15 DEF Takes, listVars, clientVars, TypeOK, TakenIsWritten
<1>16. ASSUME NEW l \in Logger, bio_log_to_file(l)
       PROVE  TakenIsWritten'
  BY <1>16 DEF bio_log_to_file, listVars, clientVars, TypeOK, TakenIsWritten
<1>17. ASSUME NEW l \in Logger, MainFrees(l)
       PROVE  TakenIsWritten'
  BY <1>17 DEF MainFrees, Frees, TypeOK, TakenIsWritten
<1>18. ASSUME bio_terminate PROVE TakenIsWritten'
  BY <1>18 DEF bio_terminate, listVars, svcVars, clientVars, TypeOK, TakenIsWritten
<1>19. ASSUME MainDone PROVE TakenIsWritten'
  BY <1>19 DEF MainDone, listVars, svcVars, clientVars, TypeOK, TakenIsWritten
<1>20. ASSUME Drained PROVE TakenIsWritten'
  BY <1>20 DEF Drained, listVars, svcVars, clientVars, TypeOK, TakenIsWritten
<1>21. ASSUME UNCHANGED vars PROVE TakenIsWritten'
  BY <1>21 DEF vars, listVars, svcVars, clientVars, TypeOK, TakenIsWritten
<1> QED BY <1>1, <1>2, <1>3, <1>4, <1>5, <1>6, <1>7, <1>8, <1>9, <1>10, <1>11,
           <1>12, <1>13, <1>14, <1>15, <1>16, <1>17, <1>18, <1>19, <1>20, <1>21
        DEF LogStep

\* A freed logger is read only by a walk that a removal overlapped.
LEMMA DanglingStep ==
    ASSUME LogInv, LogStep
    PROVE  DanglingOnlyOnOverlap'
<1> USE CapacityAssumption, NamesAssumption, BoundsAssumption DEF LogInv
<1>1. ASSUME NEW c \in Client, NEW l \in Logger, NEW lvl \in Level, bio_add_logger(c, l, lvl)
       PROVE  DanglingOnlyOnOverlap'
  BY <1>1 DEF bio_add_logger, Running, TypeOK, Walk, DanglingOnlyOnOverlap
<1>2. ASSUME NEW c \in Client, NEW l \in Logger, NEW lvl \in Level, bio_set_min_log_level(c, l, lvl)
       PROVE  DanglingOnlyOnOverlap'
  BY <1>2 DEF bio_set_min_log_level, Running, svcVars, clientVars, TypeOK, Walk, DanglingOnlyOnOverlap
<1>3. ASSUME NEW c \in Client, NEW lvl \in Level, bio_vlog(c, lvl)
       PROVE  DanglingOnlyOnOverlap'
  BY <1>3 DEF bio_vlog, Running, listVars, svcVars, TypeOK, Walk, DanglingOnlyOnOverlap
<1>4. ASSUME NEW c \in Client, NEW l \in Logger, bio_remove_logger(c, l)
       PROVE  DanglingOnlyOnOverlap'
  BY <1>4 DEF bio_remove_logger, Running, svcVars, TypeOK, Walk, DanglingOnlyOnOverlap
<1>5. ASSUME NEW c \in Client, NEW l \in Logger, ClientFrees(c, l)
       PROVE  DanglingOnlyOnOverlap'
  BY <1>5 DEF ClientFrees, Frees, Running, TypeOK, Walk, DanglingOnlyOnOverlap
<1>6. ASSUME NEW c \in Client, NEW l \in Logger, ReadsFreed(c, l)
       PROVE  DanglingOnlyOnOverlap'
  <2>1. c \in overlapped
    BY <1>6 DEF ReadsFreed, Reads, TypeOK, End
  <2> QED BY <1>6, <2>1 DEF ReadsFreed, Undefined, clientVars, DanglingOnlyOnOverlap
<1>7. ASSUME NEW c \in Client, NEW l \in Logger, Sends(c, l)
       PROVE  DanglingOnlyOnOverlap'
  BY <1>7 DEF Sends, Running, listVars, TypeOK, Walk, DanglingOnlyOnOverlap
<1>8. ASSUME NEW c \in Client, NEW l \in Logger, WalksOn(c, l)
       PROVE  DanglingOnlyOnOverlap'
  BY <1>8 DEF WalksOn, Walking, Running, listVars, svcVars, TypeOK, Walk, DanglingOnlyOnOverlap
<1>9. ASSUME NEW c \in Client, NEW l \in Logger, WalkSends(c, l)
       PROVE  DanglingOnlyOnOverlap'
  BY <1>9 DEF WalkSends, Walking, Running, listVars, svcVars, TypeOK, Walk, DanglingOnlyOnOverlap
<1>10. ASSUME NEW c \in Client, Added(c)
       PROVE  DanglingOnlyOnOverlap'
  BY <1>10 DEF Added, Running, svcVars, TypeOK, Walk, DanglingOnlyOnOverlap
<1>11. ASSUME NEW c \in Client, Yields(c)
       PROVE  DanglingOnlyOnOverlap'
  BY <1>11 DEF Yields, Running, listVars, svcVars, clientVars, TypeOK, Walk, DanglingOnlyOnOverlap
<1>12. ASSUME NEW c \in Client, WalkEnds(c)
       PROVE  DanglingOnlyOnOverlap'
  BY <1>12 DEF WalkEnds, Walking, Running, Returned, listVars, svcVars, TypeOK, Walk, DanglingOnlyOnOverlap
<1>13. ASSUME NEW l \in Logger, Starts(l)
       PROVE  DanglingOnlyOnOverlap'
  BY <1>13 DEF Starts, listVars, clientVars, TypeOK, Walk, DanglingOnlyOnOverlap
<1>14. ASSUME NEW l \in Logger, Dies(l)
       PROVE  DanglingOnlyOnOverlap'
  BY <1>14 DEF Dies, listVars, clientVars, TypeOK, Walk, DanglingOnlyOnOverlap
<1>15. ASSUME NEW l \in Logger, Takes(l)
       PROVE  DanglingOnlyOnOverlap'
  BY <1>15 DEF Takes, listVars, clientVars, TypeOK, Walk, DanglingOnlyOnOverlap
<1>16. ASSUME NEW l \in Logger, bio_log_to_file(l)
       PROVE  DanglingOnlyOnOverlap'
  BY <1>16 DEF bio_log_to_file, listVars, clientVars, TypeOK, Walk, DanglingOnlyOnOverlap
<1>17. ASSUME NEW l \in Logger, MainFrees(l)
       PROVE  DanglingOnlyOnOverlap'
  BY <1>17 DEF MainFrees, Frees, TypeOK, Walk, DanglingOnlyOnOverlap
<1>18. ASSUME bio_terminate PROVE DanglingOnlyOnOverlap'
  BY <1>18 DEF bio_terminate, listVars, svcVars, clientVars, TypeOK, Walk, DanglingOnlyOnOverlap
<1>19. ASSUME MainDone PROVE DanglingOnlyOnOverlap'
  BY <1>19 DEF MainDone, listVars, svcVars, clientVars, TypeOK, Walk, DanglingOnlyOnOverlap
<1>20. ASSUME Drained PROVE DanglingOnlyOnOverlap'
  BY <1>20 DEF Drained, listVars, svcVars, clientVars, TypeOK, Walk, DanglingOnlyOnOverlap
<1>21. ASSUME UNCHANGED vars PROVE DanglingOnlyOnOverlap'
  BY <1>21 DEF vars, listVars, svcVars, clientVars, TypeOK, Walk, DanglingOnlyOnOverlap
<1> QED BY <1>1, <1>2, <1>3, <1>4, <1>5, <1>6, <1>7, <1>8, <1>9, <1>10, <1>11,
           <1>12, <1>13, <1>14, <1>15, <1>16, <1>17, <1>18, <1>19, <1>20, <1>21
        DEF LogStep

\* In the initial state there is no logger, and every client is idle.
LEMMA LogInit ==
    ASSUME bio_logging_init
    PROVE  LogInv
<1> USE CapacityAssumption, NamesAssumption, BoundsAssumption DEF bio_logging_init
<1>1. TypeOK
  BY DEF TypeOK, Null, End
<1>2. Walk
  BY DEF Walk, Null, End
<1>3. Lives
  BY DEF Lives, Linked
<1>4. Reads
  BY DEF Reads
<1>5. Owes
  BY DEF Owes
<1>6. TakenIsWritten /\ DanglingOnlyOnOverlap
  BY DEF TakenIsWritten, DanglingOnlyOnOverlap
<1> QED BY <1>1, <1>2, <1>3, <1>4, <1>5, <1>6 DEF LogInv

\* The loggers, their list, their mailboxes and the walks of bio_vlog agree in every
\* state that coroutines, services and bio_terminate reach.
THEOREM LoggingInvariance == Spec => []LogInv
<1>1. bio_logging_init => LogInv
  BY LogInit
<1>2. LogInv /\ [Next]_vars => LogInv'
  <2> SUFFICES ASSUME LogInv, [Next]_vars PROVE LogInv'
    OBVIOUS
  <2>1. LogStep
    BY LogCases DEF LogInv
  <2> QED BY <2>1, LogTypeStep, WalkStep, LivesStep, ReadsStep, OwesStep, TakenStep, DanglingStep
          DEF LogInv
<1> QED BY <1>1, <1>2, PTL DEF Spec

\* The state of logging.c and of its services is well typed, and no mailbox of a logger
\* holds more than its capacity.
THEOREM LoggingTypeCorrect == Spec => []TypeOK
<1>1. LogInv => TypeOK
  BY DEF LogInv
<1> QED BY <1>1, LoggingInvariance, PTL

\* bio_vlog reads a freed logger only when bio_remove_logger ran while it was suspended
\* on a full mailbox.
THEOREM DanglingCorrect == Spec => []DanglingOnlyOnOverlap
<1>1. LogInv => DanglingOnlyOnOverlap
  BY DEF LogInv
<1> QED BY <1>1, LoggingInvariance, PTL

\* A message that an open logger took is written before its log function is told to free
\* its data.
THEOREM TakenCorrect == Spec => []TakenIsWritten
<1>1. LogInv => TakenIsWritten
  BY DEF LogInv
<1> QED BY <1>1, LoggingInvariance, PTL
=============================================================================
