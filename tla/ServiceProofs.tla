---------------------------- MODULE ServiceProofs ---------------------------
(***************************************************************************)
(* A service and its clients, proved for every number of clients, of calls  *)
(* and every mailbox capacity: the response block of a call runs exactly    *)
(* when the call returns OK.                                                *)
(***************************************************************************)
EXTENDS Service, SequenceTheorems, TLAPS

InCall(c) == pc[c] \in {"sending", "waiting"}

\* The messages in the mailbox, and with the one that is being handled.
Queued == {queue[i] : i \in 1 .. Len(queue)}
InFlight == Queued \cup (IF coro = "handling" THEN {msg} ELSE {})

\* A service that is not alive has no messages, and a call that lost its monitor
\* has a target that is dead.
Lifetime ==
    /\ coro = "handling" <=> msg # NoMsg
    /\ ~Alive => ~open
    /\ ~open => queue = <<>>
    /\ \A c \in Client : InCall(c) /\ ~monitored[c] => coro = "dead"

\* No message is in flight twice.
Distinct ==
    /\ \A i, j \in 1 .. Len(queue) : queue[i] = queue[j] => i = j
    /\ coro = "handling" => msg \notin Queued

\* Messages, responses and outcomes belong to calls that were made.
Numbered ==
    /\ \A m \in InFlight : m[2] <= num[m[1]]
    /\ \A w \in written : w[2] <= num[w[1]]
    /\ \A o \in outcome : o[1][2] <= num[o[1][1]]

\* The ack signal of a message is that of a caller who still waits for it, unless
\* the call was cancelled.
Answerable ==
    \A c \in Client, n \in 1 .. MaxCalls :
        <<c, n, TRUE>> \in InFlight =>
            CancelRaised(c, n) \/ (n = num[c] /\ pc[c] = "waiting" /\ ack[c])

\* A caller who still tries to send has no message in flight.
Unsent ==
    \A c \in Client :
        pc[c] = "sending" => ack[c] /\ <<c, num[c], TRUE>> \notin InFlight

\* A call under way was answered exactly when its ack signal was raised, and has no
\* outcome yet.
Current ==
    \A c \in Client : InCall(c) =>
        /\ num[c] # 0
        /\ <<c, num[c]>> \in written <=> ~ack[c]
        /\ \A o \in outcome : o[1] # <<c, num[c]>>

IInv ==
    /\ TypeOK /\ Lifetime /\ Distinct /\ Numbered /\ Answerable /\ Unsent /\ Current
    /\ OutcomeExact
-----------------------------------------------------------------------------
\* NoMsg is no message, and a mailbox may be empty.
LEMMA ConstantFacts ==
    NoMsg \notin Message /\ <<>> \in Seq(Message) /\ Len(<<>>) <= Capacity
<1>1. NoMsg \notin Message
  <2>1. 1 .. MaxCalls \subseteq Nat
    BY MaxCallsAssumption
  <2>2. Message \subseteq Client \X Nat \X BOOLEAN
    BY <2>1 DEF Message
  <2> QED BY <2>2, NoMsgAssumption
<1>2. <<>> \in Seq(Message) /\ Len(<<>>) = 0
  BY EmptySeq
<1> QED BY <1>1, <1>2, CapacityAssumption

(***************************************************************************)
(* How the messages in flight change.                                       *)
(***************************************************************************)

\* What is in flight is a message.
LEMMA InFlightType ==
    ASSUME TypeOK, Lifetime
    PROVE  InFlight \subseteq Message
BY DEF InFlight, Queued, TypeOK, Lifetime

\* bio__mailbox_send adds a message that is not in flight.
LEMMA SentInFlight ==
    ASSUME TypeOK, Lifetime, Distinct, NEW m \in Message, m \notin InFlight,
           queue' = Append(queue, m), UNCHANGED <<coro, msg>>
    PROVE  InFlight' = InFlight \cup {m} /\ Distinct'
<1>1. queue \in Seq(Message)
  BY DEF TypeOK
<1>2. /\ Len(queue') = Len(queue) + 1 /\ Len(queue) \in Nat
      /\ \A i \in 1 .. Len(queue) : queue'[i] = queue[i]
      /\ queue'[Len(queue) + 1] = m
  BY <1>1, AppendProperties, LenProperties
<1>3. Queued' = Queued \cup {m}
  <2>1. Queued' \subseteq Queued \cup {m}
    BY <1>2 DEF Queued
  <2>2. Queued \cup {m} \subseteq Queued'
    BY <1>2 DEF Queued
  <2> QED BY <2>1, <2>2
<1>4. InFlight' = InFlight \cup {m}
  BY <1>3 DEF InFlight
<1>5. \A i \in 1 .. Len(queue) : queue[i] # m
  BY DEF InFlight, Queued
<1>6. \A i, j \in 1 .. Len(queue') : queue'[i] = queue'[j] => i = j
  <2> SUFFICES ASSUME NEW i \in 1 .. Len(queue'), NEW j \in 1 .. Len(queue'),
                      queue'[i] = queue'[j]
               PROVE  i = j
    OBVIOUS
  <2>1. CASE i \in 1 .. Len(queue) /\ j \in 1 .. Len(queue)
    BY <1>2, <2>1 DEF Distinct
  <2>2. CASE i \notin 1 .. Len(queue) \/ j \notin 1 .. Len(queue)
    BY <1>2, <1>5, <2>2
  <2> QED BY <2>1, <2>2
<1>7. coro' = "handling" => msg' \notin Queued'
  BY <1>3 DEF Distinct, InFlight
<1> QED BY <1>4, <1>6, <1>7 DEF Distinct

\* bio__mailbox_recv takes the first message out; no other is the same.
LEMMA TakenInFlight ==
    ASSUME TypeOK, Distinct, queue # <<>>, queue' = Tail(queue)
    PROVE  /\ Head(queue) \in Queued /\ Head(queue) \in Message
           /\ Head(queue) \notin Queued'
           /\ Queued' \subseteq Queued
           /\ queue' \in Seq(Message) /\ Len(queue') <= Len(queue)
           /\ \A i, j \in 1 .. Len(queue') : queue'[i] = queue'[j] => i = j
<1>1. queue \in Seq(Message) /\ Len(queue) \in Nat
  BY LenProperties DEF TypeOK
<1>2. /\ queue' \in Seq(Message)
      /\ Len(queue') = Len(queue) - 1 /\ Len(queue) > 0
      /\ \A i \in 1 .. Len(queue') : queue'[i] = queue[i + 1]
      /\ Head(queue) = queue[1] /\ Head(queue) \in Message
  BY <1>1, HeadTailProperties, EmptySeq
<1>3. Head(queue) \in Queued
  BY <1>1, <1>2 DEF Queued
<1>4. Queued' \subseteq Queued
  BY <1>1, <1>2 DEF Queued
<1>5. \A i, j \in 1 .. Len(queue') : queue'[i] = queue'[j] => i = j
  BY <1>1, <1>2 DEF Distinct
<1>6. Head(queue) \notin Queued'
  BY <1>1, <1>2 DEF Queued, Distinct
<1> QED BY <1>1, <1>2, <1>3, <1>4, <1>5, <1>6

\* A step that neither sends nor receives, and does not take up a message.
LEMMA FewerInFlight ==
    ASSUME Distinct, queue' = queue \/ queue' = <<>>,
           coro' = "handling" => coro = "handling" /\ msg' = msg
    PROVE  InFlight' \subseteq InFlight /\ Distinct'
<1>1. Queued' \subseteq Queued
  <2>1. CASE queue' = queue
    BY <2>1 DEF Queued
  <2>2. CASE queue' = <<>>
    BY <2>2 DEF Queued
  <2> QED BY <2>1, <2>2
<1>2. \A i, j \in 1 .. Len(queue') : queue'[i] = queue'[j] => i = j
  BY DEF Distinct
<1> QED BY <1>1, <1>2 DEF InFlight, Distinct
-----------------------------------------------------------------------------
(***************************************************************************)
(* The steps in which no call begins, ends, is cancelled or is answered.    *)
(***************************************************************************)
CallsUnchanged ==
    /\ UNCHANGED <<num, cancel, ack, written, outcome>>
    /\ \A c \in Client : /\ pc'[c] = "sending" <=> pc[c] = "sending"
                         /\ pc'[c] = "waiting" <=> pc[c] = "waiting"
    /\ InFlight' \subseteq InFlight
    /\ Distinct'

\* Nothing that is said of calls changes.
LEMMA CallsUnchangedStep ==
    ASSUME IInv, CallsUnchanged, TypeOK', Lifetime'
    PROVE  IInv'
<1>1. Numbered /\ Answerable /\ Unsent /\ Current /\ OutcomeExact
  BY DEF IInv
<1>2. Numbered'
  BY <1>1 DEF CallsUnchanged, Numbered
<1>3. Answerable'
  BY <1>1 DEF CallsUnchanged, Answerable, CancelRaised
<1>4. Unsent'
  BY <1>1 DEF CallsUnchanged, Unsent
<1>5. Current'
  BY <1>1 DEF CallsUnchanged, Current, InCall
<1>6. OutcomeExact'
  BY <1>1 DEF CallsUnchanged, OutcomeExact
<1> QED BY <1>2, <1>3, <1>4, <1>5, <1>6 DEF IInv, CallsUnchanged

\* Start and stop.
LEMMA StartStopStep ==
    ASSUME IInv, NEW c \in Client,
           bio__service_start(c) \/ bio__service_stop(c) \/ Stopped(c)
    PROVE  IInv'
<1>1. TypeOK /\ Lifetime /\ Distinct
  BY DEF IInv
<1>2. CASE bio__service_start(c)
  <2>1. TypeOK'
    BY <1>1, <1>2 DEF bio__service_start, callVars, TypeOK
  <2>2. Lifetime'
    BY <1>1, <1>2 DEF bio__service_start, callVars, TypeOK, Lifetime, Alive, InCall
  <2>3. InFlight' \subseteq InFlight /\ Distinct'
    BY <1>1, <1>2, FewerInFlight DEF bio__service_start
  <2>4. CallsUnchanged
    BY <1>1, <1>2, <2>3 DEF CallsUnchanged, bio__service_start, callVars, TypeOK
  <2> QED BY <2>1, <2>2, <2>4, CallsUnchangedStep
<1>3. CASE bio__service_stop(c)
  <2>1. TypeOK'
    BY <1>1, <1>3, ConstantFacts
    DEF bio__service_stop, bio__mailbox_close, callVars, TypeOK
  <2>2. Lifetime'
    BY <1>1, <1>3
    DEF bio__service_stop, bio__mailbox_close, callVars, TypeOK, Lifetime, Alive, InCall
  <2>3. InFlight' \subseteq InFlight /\ Distinct'
    BY <1>1, <1>3, FewerInFlight DEF bio__service_stop, bio__mailbox_close
  <2>4. CallsUnchanged
    BY <1>1, <1>3, <2>3 DEF CallsUnchanged, bio__service_stop, callVars, TypeOK
  <2> QED BY <2>1, <2>2, <2>4, CallsUnchangedStep
<1>4. CASE Stopped(c)
  <2>1. TypeOK'
    BY <1>1, <1>4 DEF Stopped, svcVars, callVars, TypeOK
  <2>2. Lifetime'
    BY <1>1, <1>4 DEF Stopped, svcVars, callVars, TypeOK, Lifetime, Alive, InCall
  <2>3. InFlight' \subseteq InFlight /\ Distinct'
    BY <1>1, <1>4, FewerInFlight DEF Stopped, svcVars
  <2>4. CallsUnchanged
    BY <1>1, <1>4, <2>3 DEF CallsUnchanged, Stopped, callVars, TypeOK
  <2> QED BY <2>1, <2>2, <2>4, CallsUnchangedStep
<1> QED BY <1>2, <1>3, <1>4

\* The service's own steps, but for a response.
LEMMA ServiceStepKeeps ==
    ASSUME IInv,
           \/ bio_service_wrapper \/ bio_service_loop \/ NoResponse("recv")
           \/ NoResponse("ending") \/ SelfStop \/ End
    PROVE  IInv'
<1>1. TypeOK /\ Lifetime /\ Distinct
  BY DEF IInv
<1>2. CASE bio_service_wrapper
  <2>1. TypeOK'
    BY <1>1, <1>2 DEF bio_service_wrapper, callVars, TypeOK
  <2>2. Lifetime'
    BY <1>1, <1>2 DEF bio_service_wrapper, callVars, TypeOK, Lifetime, Alive, InCall
  <2>3. InFlight' \subseteq InFlight /\ Distinct'
    BY <1>1, <1>2, FewerInFlight DEF bio_service_wrapper
  <2>4. CallsUnchanged
    BY <1>1, <1>2, <2>3 DEF CallsUnchanged, bio_service_wrapper, callVars, TypeOK
  <2> QED BY <2>1, <2>2, <2>4, CallsUnchangedStep
<1>3. CASE bio_service_loop
  <2>1. CASE queue # <<>> /\ queue' = Tail(queue)
    <3>1. /\ Head(queue) \in Queued /\ Head(queue) \in Message
          /\ Head(queue) \notin Queued'
          /\ Queued' \subseteq Queued
          /\ queue' \in Seq(Message) /\ Len(queue') <= Len(queue)
          /\ \A i, j \in 1 .. Len(queue') : queue'[i] = queue'[j] => i = j
      BY <1>1, <2>1, TakenInFlight
    <3>2. \/ coro' = "recv" /\ UNCHANGED <<coro, msg>>
          \/ coro' = "handling" /\ msg' = Head(queue)
          \/ queue' = queue
      BY <1>3 DEF bio_service_loop
    <3>3. queue' # queue
      BY <3>1 DEF Queued
    <3>4. TypeOK'
      <4>1. Len(queue') <= Capacity
        BY <1>1, <3>1, CapacityAssumption, LenProperties DEF TypeOK
      <4> QED BY <1>1, <1>3, <3>1, <3>2, <3>3, <4>1 DEF bio_service_loop, callVars, TypeOK
    <3>5. Lifetime'
      <4>1. Head(queue) # NoMsg
        BY <3>1, ConstantFacts
      <4>2. open
        BY <1>1, <2>1 DEF Lifetime
      <4> QED BY <1>1, <1>3, <3>2, <3>3, <4>1, <4>2
              DEF bio_service_loop, callVars, TypeOK, Lifetime, Alive, InCall
    <3>6. InFlight' \subseteq InFlight /\ Distinct'
      BY <1>1, <1>3, <3>1, <3>2, <3>3 DEF InFlight, Distinct, bio_service_loop
    <3>7. CallsUnchanged
      BY <1>3, <3>6 DEF CallsUnchanged, bio_service_loop, callVars
    <3> QED BY <3>4, <3>5, <3>7, CallsUnchangedStep
  <2>2. CASE ~open /\ coro' = "ending" /\ UNCHANGED <<msg, queue>>
    <3>1. TypeOK'
      BY <1>1, <1>3, <2>2 DEF bio_service_loop, callVars, TypeOK
    <3>2. Lifetime'
      BY <1>1, <1>3, <2>2
      DEF bio_service_loop, callVars, TypeOK, Lifetime, Alive, InCall
    <3>3. InFlight' \subseteq InFlight /\ Distinct'
      BY <1>1, <2>2, FewerInFlight
    <3>4. CallsUnchanged
      BY <1>3, <3>3 DEF CallsUnchanged, bio_service_loop, callVars
    <3> QED BY <3>1, <3>2, <3>4, CallsUnchangedStep
  <2> QED BY <1>3, <2>1, <2>2 DEF bio_service_loop
<1>4. ASSUME NEW next \in {"recv", "ending"}, NoResponse(next)
      PROVE  IInv'
  <2>1. TypeOK'
    BY <1>1, <1>4 DEF NoResponse, callVars, TypeOK
  <2>2. Lifetime'
    BY <1>1, <1>4 DEF NoResponse, callVars, TypeOK, Lifetime, Alive, InCall
  <2>3. InFlight' \subseteq InFlight /\ Distinct'
    BY <1>1, <1>4, FewerInFlight DEF NoResponse
  <2>4. CallsUnchanged
    BY <1>4, <2>3 DEF CallsUnchanged, NoResponse, callVars
  <2> QED BY <2>1, <2>2, <2>4, CallsUnchangedStep
<1>5. CASE SelfStop
  <2>1. TypeOK'
    BY <1>1, <1>5, ConstantFacts
    DEF SelfStop, bio__mailbox_close, callVars, TypeOK
  <2>2. Lifetime'
    BY <1>1, <1>5
    DEF SelfStop, bio__mailbox_close, callVars, TypeOK, Lifetime, Alive, InCall
  <2>3. InFlight' \subseteq InFlight /\ Distinct'
    BY <1>1, <1>5, FewerInFlight DEF SelfStop, bio__mailbox_close
  <2>4. CallsUnchanged
    BY <1>5, <2>3 DEF CallsUnchanged, SelfStop, callVars
  <2> QED BY <2>1, <2>2, <2>4, CallsUnchangedStep
<1>6. CASE End
  <2>1. TypeOK'
    BY <1>1, <1>6, ConstantFacts DEF End, bio__mailbox_close, TypeOK
  <2>2. Lifetime'
    BY <1>1, <1>6 DEF End, bio__mailbox_close, TypeOK, Lifetime, Alive, InCall
  <2>3. InFlight' \subseteq InFlight /\ Distinct'
    BY <1>1, <1>6, FewerInFlight DEF End, bio__mailbox_close
  <2>4. CallsUnchanged
    BY <1>6, <2>3 DEF CallsUnchanged, End
  <2> QED BY <2>1, <2>2, <2>4, CallsUnchangedStep
<1> QED BY <1>2, <1>3, <1>4, <1>5, <1>6
-----------------------------------------------------------------------------
(***************************************************************************)
(* The steps of calls.                                                      *)
(***************************************************************************)

\* Client c uses the number n, its own or a new one, and nothing else is known of
\* the cancel signals than that the old ones are the same.
NumberUsed(c, n) ==
    /\ num' = [num EXCEPT ![c] = n]
    /\ num[c] <= n
    /\ cancel' \in [Client -> Seq({"none", "live", "raised"})]
    /\ \A d \in Client : Len(cancel'[d]) = num'[d]
    /\ \A d \in Client : \A k \in 1 .. num[d] : cancel'[d][k] = cancel[d][k]

\* What belonged to calls that were made still does.
LEMMA NumbersGrow ==
    ASSUME IInv, NEW c \in Client, NEW n \in 1 .. MaxCalls, NumberUsed(c, n),
           NEW x, InFlight' \subseteq InFlight \cup {<<c, n, x>>},
           NEW y, outcome' \subseteq outcome \cup {<<<<c, n>>, y>>},
           written' = written
    PROVE  /\ Numbered'
           /\ num' \in [Client -> 0 .. MaxCalls] /\ num'[c] = n
           /\ \A d \in Client \ {c} : num'[d] = num[d]
<1>1. TypeOK /\ Lifetime /\ Numbered
  BY DEF IInv
<1>2. num' \in [Client -> 0 .. MaxCalls] /\ num'[c] = n
  BY <1>1, MaxCallsAssumption DEF TypeOK, NumberUsed
<1>3. /\ \A d \in Client : num'[d] \in Nat /\ num[d] \in Nat /\ num[d] <= num'[d]
      /\ \A d \in Client \ {c} : num'[d] = num[d]
  BY <1>1, MaxCallsAssumption DEF TypeOK, NumberUsed
<1>4. \A m \in InFlight' : m[2] <= num'[m[1]]
  <2> SUFFICES ASSUME NEW m \in InFlight' PROVE m[2] <= num'[m[1]]
    OBVIOUS
  <2>1. CASE m = <<c, n, x>>
    BY <1>2, <2>1
  <2>2. CASE m \in InFlight
    <3>1. m \in Message
      BY <1>1, <2>2, InFlightType
    <3>2. m[1] \in Client /\ m[2] \in Nat
      BY <3>1, MaxCallsAssumption DEF Message
    <3> QED BY <1>1, <1>3, <2>2, <3>2 DEF Numbered
  <2> QED BY <2>1, <2>2
<1>5. \A w \in written' : w[2] <= num'[w[1]]
  <2> SUFFICES ASSUME NEW w \in written' PROVE w[2] <= num'[w[1]]
    OBVIOUS
  <2>1. w \in written /\ w[1] \in Client /\ w[2] \in Nat
    BY <1>1, MaxCallsAssumption DEF TypeOK, Call
  <2> QED BY <1>1, <1>3, <2>1 DEF Numbered
<1>6. \A o \in outcome' : o[1][2] <= num'[o[1][1]]
  <2> SUFFICES ASSUME NEW o \in outcome' PROVE o[1][2] <= num'[o[1][1]]
    OBVIOUS
  <2>1. CASE o = <<<<c, n>>, y>>
    BY <1>2, <2>1
  <2>2. CASE o \in outcome
    <3>1. o[1][1] \in Client /\ o[1][2] \in Nat
      BY <1>1, <2>2, MaxCallsAssumption DEF TypeOK, Call
    <3> QED BY <1>1, <1>3, <2>2, <3>1 DEF Numbered
  <2> QED BY <2>1, <2>2
<1> QED BY <1>2, <1>3, <1>4, <1>5, <1>6 DEF Numbered

\* A message in flight can still be answered, or its call was cancelled, after a
\* step of a client that does not wait.
LEMMA OldAnswerable ==
    ASSUME IInv, NEW c \in Client, NEW n \in 1 .. MaxCalls, NumberUsed(c, n),
           pc[c] # "waiting",
           \A d \in Client \ {c} : pc'[d] = pc[d] /\ ack'[d] = ack[d]
    PROVE  \A d \in Client, k \in 1 .. MaxCalls :
               <<d, k, TRUE>> \in InFlight =>
                   cancel'[d][k] = "raised" \/ (k = num'[d] /\ pc'[d] = "waiting" /\ ack'[d])
<1> SUFFICES ASSUME NEW d \in Client, NEW k \in 1 .. MaxCalls, <<d, k, TRUE>> \in InFlight
             PROVE  cancel'[d][k] = "raised" \/ (k = num'[d] /\ pc'[d] = "waiting" /\ ack'[d])
  OBVIOUS
<1>1. TypeOK /\ Numbered /\ Answerable
  BY DEF IInv
<1>2. k \in 1 .. num[d]
  <2>1. k <= num[d]
    BY <1>1 DEF Numbered
  <2> QED BY <1>1, <2>1, MaxCallsAssumption DEF TypeOK
<1>3. CASE cancel[d][k] = "raised"
  BY <1>2, <1>3 DEF NumberUsed
<1>4. CASE k = num[d] /\ pc[d] = "waiting" /\ ack[d]
  BY <1>1, <1>4 DEF TypeOK, NumberUsed
<1> QED BY <1>1, <1>3, <1>4 DEF Answerable, CancelRaised

\* A caller with no message in flight leaves its call without an answer.
LEMMA GiveUpStep ==
    ASSUME IInv, NEW c \in Client, NEW n \in 1 .. MaxCalls, NumberUsed(c, n),
           NEW status \in {"CANCELLED", "TARGET_DEAD"},
           outcome' = outcome \cup {<<<<c, n>>, status>>},
           pc' = [pc EXCEPT ![c] = "idle"],
           ack' \in [Client -> BOOLEAN], monitored' \in [Client -> BOOLEAN],
           \A d \in Client \ {c} : ack'[d] = ack[d] /\ monitored'[d] = monitored[d],
           UNCHANGED <<coro, msg, open, queue, written>>,
           pc[c] # "waiting", <<c, n>> \notin written
    PROVE  IInv'
<1>1. TypeOK /\ Lifetime /\ Distinct /\ Numbered /\ Unsent /\ Current /\ OutcomeExact
  BY DEF IInv
<1>2. InFlight' \subseteq InFlight /\ Distinct'
  BY <1>1, FewerInFlight
<1>3. /\ Numbered'
      /\ num' \in [Client -> 0 .. MaxCalls]
      /\ \A d \in Client \ {c} : num'[d] = num[d]
  BY <1>2, NumbersGrow
<1>4. pc'[c] = "idle" /\ \A d \in Client \ {c} : pc'[d] = pc[d]
  BY <1>1 DEF TypeOK
<1>5. TypeOK'
  <2>1. <<<<c, n>>, status>> \in Call \X {"OK", "CANCELLED", "TARGET_DEAD"}
    BY DEF Call
  <2>2. outcome \subseteq Call \X {"OK", "CANCELLED", "TARGET_DEAD"}
    BY <1>1 DEF TypeOK
  <2>3. outcome' \subseteq Call \X {"OK", "CANCELLED", "TARGET_DEAD"}
    BY <2>1, <2>2
  <2> QED BY <1>1, <1>3, <2>3 DEF TypeOK, NumberUsed
<1>6. Lifetime'
  BY <1>1, <1>4 DEF Lifetime, Alive, InCall
<1>7. Answerable'
  BY <1>2, <1>4, OldAnswerable DEF Answerable, CancelRaised
<1>8. Unsent'
  BY <1>1, <1>2, <1>3, <1>4 DEF Unsent
<1>9. Current'
  <2> SUFFICES ASSUME NEW d \in Client, pc'[d] \in {"sending", "waiting"}
               PROVE  /\ num'[d] # 0
                      /\ <<d, num'[d]>> \in written <=> ~ack'[d]
                      /\ \A o \in outcome' : o[1] # <<d, num'[d]>>
    BY DEF Current, InCall
  <2>1. d # c /\ num'[d] = num[d] /\ pc'[d] = pc[d] /\ ack'[d] = ack[d]
    BY <1>3, <1>4
  <2> QED BY <1>1, <2>1 DEF Current, InCall
<1>10. OutcomeExact'
  <2> SUFFICES ASSUME NEW o \in outcome' PROVE o[2] = "OK" <=> o[1] \in written'
    BY DEF OutcomeExact
  <2>1. CASE o \in outcome
    BY <1>1, <2>1 DEF OutcomeExact
  <2>2. CASE o = <<<<c, n>>, status>>
    BY <2>2
  <2> QED BY <2>1, <2>2
<1> QED BY <1>2, <1>3, <1>5, <1>6, <1>7, <1>8, <1>9, <1>10 DEF IInv

\* A client with no message of that number in flight sends one, a call or a
\* notification, or sends none.
MayHaveSent(c, n, is_call) ==
    \/ /\ open /\ Len(queue) < Capacity
       /\ queue' = Append(queue, <<c, n, is_call>>)
       /\ is_call => pc'[c] = "waiting"
    \/ queue' = queue

\* What the mailbox then holds.
LEMMA SentFacts ==
    ASSUME IInv, NEW c \in Client, NEW n \in 1 .. MaxCalls, NEW is_call \in BOOLEAN,
           MayHaveSent(c, n, is_call), UNCHANGED <<coro, msg, open>>,
           <<c, n, is_call>> \notin InFlight
    PROVE  /\ \/ InFlight' = InFlight
              \/ /\ InFlight' = InFlight \cup {<<c, n, is_call>>}
                 /\ is_call => pc'[c] = "waiting"
           /\ Distinct'
           /\ queue' \in Seq(Message) /\ Len(queue') <= Capacity
           /\ ~open => queue' = <<>>
<1> DEFINE m == <<c, n, is_call>>
<1>1. TypeOK /\ Lifetime /\ Distinct
  BY DEF IInv
<1>2. /\ m \in Message /\ m \notin InFlight
      /\ queue \in Seq(Message) /\ Len(queue) <= Capacity
      /\ ~open => queue = <<>>
  BY <1>1 DEF TypeOK, Message, Lifetime
<1>3. \/ /\ open /\ Len(queue) < Capacity /\ queue' = Append(queue, m)
         /\ is_call => pc'[c] = "waiting"
      \/ queue' = queue
  BY DEF MayHaveSent
<1> HIDE DEF m
<1>4. CASE queue' = queue
  <2>1. Queued' = Queued
    BY <1>4 DEF Queued
  <2>2. InFlight' = InFlight
    BY <2>1 DEF InFlight
  <2>3. Distinct'
    BY <1>1, <1>4, <2>1 DEF Distinct
  <2> QED BY <1>2, <1>4, <2>2, <2>3
<1>5. CASE /\ open /\ Len(queue) < Capacity /\ queue' = Append(queue, m)
           /\ is_call => pc'[c] = "waiting"
  <2>1. InFlight' = InFlight \cup {m} /\ Distinct'
    BY <1>1, <1>2, <1>5, SentInFlight
  <2>2. Append(queue, m) \in Seq(Message) /\ Len(Append(queue, m)) = Len(queue) + 1
    BY <1>2, AppendProperties
  <2>3. Len(queue') <= Capacity
    BY <1>2, <1>5, <2>2, LenProperties, CapacityAssumption
  <2> QED BY <1>5, <2>1, <2>2, <2>3 DEF m
<1> QED BY <1>3, <1>4, <1>5

\* A caller with no message in flight sends one and waits, or finds the mailbox
\* full or closed and tries again.
LEMMA GoOnStep ==
    ASSUME IInv, NEW c \in Client, NEW n \in 1 .. MaxCalls, NumberUsed(c, n),
           MayHaveSent(c, n, TRUE),
           NEW next \in {"sending", "waiting"},
           next = "sending" => queue' = queue,
           pc' = [pc EXCEPT ![c] = next],
           ack' = [ack EXCEPT ![c] = TRUE],
           monitored' = [monitored EXCEPT ![c] = TRUE],
           UNCHANGED <<coro, msg, open, written, outcome>>,
           pc[c] # "waiting", <<c, n>> \notin written, <<c, n, TRUE>> \notin InFlight,
           \A o \in outcome : o[1] # <<c, n>>
    PROVE  IInv'
<1>1. TypeOK /\ Lifetime /\ Distinct /\ Numbered /\ Unsent /\ Current /\ OutcomeExact
  BY DEF IInv
<1>2. /\ InFlight' = InFlight \/ InFlight' = InFlight \cup {<<c, n, TRUE>>}
      /\ Distinct'
      /\ queue' \in Seq(Message) /\ Len(queue') <= Capacity
      /\ ~open => queue' = <<>>
  BY SentFacts
<1>3. /\ Numbered'
      /\ num' \in [Client -> 0 .. MaxCalls] /\ num'[c] = n
      /\ \A d \in Client \ {c} : num'[d] = num[d]
  <2>1. InFlight' \subseteq InFlight \cup {<<c, n, TRUE>>}
    BY <1>2
  <2>2. outcome' \subseteq outcome \cup {<<<<c, n>>, "OK">>}
    OBVIOUS
  <2> QED BY <2>1, <2>2, NumbersGrow
<1>4. /\ pc'[c] = next /\ ack'[c] = TRUE /\ monitored'[c] = TRUE
      /\ \A d \in Client \ {c} : /\ pc'[d] = pc[d] /\ ack'[d] = ack[d]
                                 /\ monitored'[d] = monitored[d]
  BY <1>1 DEF TypeOK
<1>5. TypeOK'
  BY <1>1, <1>2, <1>3 DEF TypeOK, NumberUsed
<1>6. Lifetime'
  BY <1>1, <1>2, <1>4 DEF Lifetime, Alive, InCall
<1>7. next = "sending" => InFlight' = InFlight
  BY DEF InFlight, Queued
<1>8. Answerable'
  <2> SUFFICES ASSUME NEW d \in Client, NEW k \in 1 .. MaxCalls,
                      <<d, k, TRUE>> \in InFlight'
               PROVE  cancel'[d][k] = "raised" \/ (k = num'[d] /\ pc'[d] = "waiting" /\ ack'[d])
    BY DEF Answerable, CancelRaised
  <2>1. CASE <<d, k, TRUE>> \in InFlight
    BY <1>4, <2>1, OldAnswerable
  <2>2. CASE <<d, k, TRUE>> \notin InFlight
    <3>1. <<d, k, TRUE>> = <<c, n, TRUE>> /\ next # "sending"
      BY <1>2, <1>7, <2>2, Zenon
    <3> QED BY <1>3, <1>4, <3>1
  <2> QED BY <2>1, <2>2
<1>9. Unsent'
  <2> SUFFICES ASSUME NEW d \in Client, pc'[d] = "sending"
               PROVE  ack'[d] /\ <<d, num'[d], TRUE>> \notin InFlight'
    BY DEF Unsent
  <2>1. CASE d = c
    BY <1>3, <1>4, <1>7, <2>1
  <2>2. CASE d # c
    <3>1. pc[d] = "sending" /\ ack'[d] = ack[d] /\ num'[d] = num[d]
      BY <1>3, <1>4, <2>2
    <3>2. <<d, num[d], TRUE>> # <<c, n, TRUE>>
      BY <2>2
    <3> QED BY <1>1, <1>2, <3>1, <3>2 DEF Unsent
  <2> QED BY <2>1, <2>2
<1>10. Current'
  <2> SUFFICES ASSUME NEW d \in Client, pc'[d] \in {"sending", "waiting"}
               PROVE  /\ num'[d] # 0
                      /\ <<d, num'[d]>> \in written <=> ~ack'[d]
                      /\ \A o \in outcome : o[1] # <<d, num'[d]>>
    BY DEF Current, InCall
  <2>1. CASE d = c
    BY <1>3, <1>4, <2>1
  <2>2. CASE d # c
    BY <1>1, <1>3, <1>4, <2>2 DEF Current, InCall
  <2> QED BY <2>1, <2>2
<1>11. OutcomeExact'
  BY <1>1 DEF OutcomeExact
<1> QED BY <1>2, <1>3, <1>5, <1>6, <1>8, <1>9, <1>10, <1>11 DEF IInv

\* One round of the loop of bio__service_call.
LEMMA AttemptStep ==
    ASSUME IInv, NEW c \in Client, NEW n \in 1 .. MaxCalls, NumberUsed(c, n),
           NEW cancelled \in BOOLEAN, NEW watched \in BOOLEAN,
           Attempt(c, n, cancelled, watched),
           UNCHANGED <<coro, msg, open, written>>,
           pc[c] # "waiting", <<c, n>> \notin written, <<c, n, TRUE>> \notin InFlight,
           \A o \in outcome : o[1] # <<c, n>>
    PROVE  IInv'
<1>1. TypeOK
  BY DEF IInv
<1>2. CASE /\ GivesUp(c, cancelled, watched)
           /\ Return(c, n, IF cancelled THEN "CANCELLED" ELSE "TARGET_DEAD")
           /\ UNCHANGED queue
  <2>1. PICK status \in {"CANCELLED", "TARGET_DEAD"} : Return(c, n, status)
    BY <1>2
  <2>2. /\ outcome' = outcome \cup {<<<<c, n>>, status>>}
        /\ pc' = [pc EXCEPT ![c] = "idle"]
        /\ ack' \in [Client -> BOOLEAN] /\ monitored' \in [Client -> BOOLEAN]
        /\ \A d \in Client \ {c} : ack'[d] = ack[d] /\ monitored'[d] = monitored[d]
    BY <1>1, <2>1 DEF Return, TypeOK
  <2> QED BY <1>2, <2>2, GiveUpStep
<1>3. CASE ~GivesUp(c, cancelled, watched)
  <2>1. watched = TRUE
    BY <1>3 DEF GivesUp
  <2>2. /\ ack' = [ack EXCEPT ![c] = TRUE]
        /\ monitored' = [monitored EXCEPT ![c] = TRUE]
        /\ UNCHANGED outcome
    BY <1>3, <2>1 DEF Attempt
  <2>3. CASE open /\ Len(queue) < Capacity
    <3>1. queue' = Append(queue, <<c, n, TRUE>>) /\ pc' = [pc EXCEPT ![c] = "waiting"]
      BY <1>3, <2>3 DEF Attempt
    <3>2. MayHaveSent(c, n, TRUE)
      BY <1>1, <2>3, <3>1 DEF MayHaveSent, TypeOK
    <3> QED BY <2>2, <3>1, <3>2, GoOnStep
  <2>4. CASE ~(open /\ Len(queue) < Capacity)
    <3>1. queue' = queue /\ pc' = [pc EXCEPT ![c] = "sending"]
      BY <1>3, <2>4 DEF Attempt
    <3>2. MayHaveSent(c, n, TRUE)
      BY <3>1 DEF MayHaveSent
    <3> QED BY <2>2, <3>1, <3>2, GoOnStep
  <2> QED BY <2>3, <2>4
<1> QED BY <1>2, <1>3 DEF Attempt

\* A new call or notification of c is known to nobody yet.
LEMMA NewNumber ==
    ASSUME IInv, NEW c \in Client, num[c] + 1 <= MaxCalls,
           NEW signal \in {"none", "live", "raised"},
           num' = [num EXCEPT ![c] = num[c] + 1],
           cancel' = [cancel EXCEPT ![c] = Append(@, signal)]
    PROVE  /\ num[c] + 1 \in 1 .. MaxCalls
           /\ NumberUsed(c, num[c] + 1)
           /\ <<c, num[c] + 1>> \notin written
           /\ \A x \in BOOLEAN : <<c, num[c] + 1, x>> \notin InFlight
           /\ \A o \in outcome : o[1] # <<c, num[c] + 1>>
<1> DEFINE n == num[c] + 1
           S == {"none", "live", "raised"}
<1>1. TypeOK /\ Numbered
  BY DEF IInv
<1>2. num[c] \in Nat /\ n \in 1 .. MaxCalls /\ ~(n <= num[c]) /\ num[c] <= n
  BY <1>1, MaxCallsAssumption DEF TypeOK
<1>3. /\ cancel[c] \in Seq(S) /\ Len(cancel[c]) = num[c]
      /\ Append(cancel[c], signal) \in Seq(S)
      /\ Len(Append(cancel[c], signal)) = n
      /\ \A k \in 1 .. num[c] : Append(cancel[c], signal)[k] = cancel[c][k]
  <2>1. cancel[c] \in Seq(S) /\ Len(cancel[c]) = num[c] /\ signal \in S
    BY <1>1 DEF TypeOK
  <2> HIDE DEF S
  <2> QED BY <2>1, AppendProperties
<1>4. NumberUsed(c, n)
  <2>1. cancel' \in [Client -> Seq(S)]
    BY <1>1, <1>3 DEF TypeOK
  <2>2. \A d \in Client : Len(cancel'[d]) = num'[d]
    BY <1>1, <1>3 DEF TypeOK
  <2>3. \A d \in Client : \A k \in 1 .. num[d] : cancel'[d][k] = cancel[d][k]
    BY <1>1, <1>3 DEF TypeOK
  <2> QED BY <1>2, <2>1, <2>2, <2>3 DEF NumberUsed
<1>5. <<c, n>> \notin written
  BY <1>1, <1>2 DEF Numbered
<1>6. \A x \in BOOLEAN : <<c, n, x>> \notin InFlight
  BY <1>1, <1>2 DEF Numbered
<1>7. \A o \in outcome : o[1] # <<c, n>>
  <2> SUFFICES ASSUME NEW o \in outcome, o[1] = <<c, n>> PROVE FALSE
    OBVIOUS
  <2>1. o[1][2] = n /\ o[1][1] = c
    OBVIOUS
  <2> QED BY <1>1, <1>2, <2>1 DEF Numbered
<1> QED BY <1>2, <1>4, <1>5, <1>6, <1>7

\* bio__service_call, to its first suspension.
LEMMA CallStep ==
    ASSUME IInv, NEW c \in Client, NEW signal \in {"none", "live", "raised"},
           bio__service_call(c, signal)
    PROVE  IInv'
<1> DEFINE n == num[c] + 1
<1>1. TypeOK
  BY DEF IInv
<1>2. /\ pc[c] = "idle" /\ n <= MaxCalls
      /\ num' = [num EXCEPT ![c] = n]
      /\ cancel' = [cancel EXCEPT ![c] = Append(@, signal)]
      /\ UNCHANGED <<coro, msg, open, written>>
  BY DEF bio__service_call
<1>3. /\ n \in 1 .. MaxCalls /\ NumberUsed(c, n) /\ <<c, n>> \notin written
      /\ <<c, n, TRUE>> \notin InFlight
      /\ \A o \in outcome : o[1] # <<c, n>>
  BY <1>2, NewNumber
<1>4. CASE /\ outcome' = outcome \cup {<<<<c, n>>, "TARGET_DEAD">>}
           /\ UNCHANGED <<pc, ack, monitored, queue>>
  <2>1. pc' = [pc EXCEPT ![c] = "idle"]
    BY <1>1, <1>2, <1>4 DEF TypeOK
  <2>2. ack' \in [Client -> BOOLEAN] /\ monitored' \in [Client -> BOOLEAN]
    BY <1>1, <1>4 DEF TypeOK
  <2> HIDE DEF n
  <2> QED BY <1>2, <1>3, <1>4, <2>1, <2>2, GiveUpStep
<1>5. CASE Attempt(c, n, signal = "raised", TRUE)
  <2> DEFINE cancelled == signal = "raised"
  <2>1. cancelled \in BOOLEAN /\ Attempt(c, n, cancelled, TRUE)
    BY <1>5
  <2>2. pc[c] # "waiting"
    BY <1>2
  <2> HIDE DEF n, cancelled
  <2> QED BY <1>2, <1>3, <2>1, <2>2, AttemptStep
<1> QED BY <1>4, <1>5 DEF bio__service_call

\* A call under way has a number.
LEMMA CurrentNumber ==
    ASSUME IInv, NEW c \in Client, InCall(c)
    PROVE  num[c] \in 1 .. MaxCalls
<1>1. num[c] # 0
  BY DEF IInv, Current
<1>2. num[c] \in 0 .. MaxCalls
  BY DEF IInv, TypeOK
<1> QED BY <1>1, <1>2, MaxCallsAssumption

\* The next round.
LEMMA ResendStep ==
    ASSUME IInv, NEW c \in Client, Resend(c)
    PROVE  IInv'
<1> DEFINE n == num[c]
           cancelled == CancelRaised(c, n)
<1>1. TypeOK /\ Unsent /\ Current
  BY DEF IInv
<1>2. /\ pc[c] = "sending" /\ Attempt(c, n, cancelled, monitored[c])
      /\ UNCHANGED <<coro, msg, open, num, cancel, written>>
  BY DEF Resend
<1>3. /\ <<c, n>> \notin written /\ <<c, n, TRUE>> \notin InFlight
      /\ \A o \in outcome : o[1] # <<c, n>>
  BY <1>1, <1>2 DEF Unsent, Current, InCall
<1>4. n \in 1 .. MaxCalls
  BY <1>2, CurrentNumber DEF InCall
<1>5. NumberUsed(c, n)
  BY <1>1, <1>2, MaxCallsAssumption DEF NumberUsed, TypeOK
<1>6. cancelled \in BOOLEAN /\ monitored[c] \in BOOLEAN /\ pc[c] # "waiting"
  BY <1>1, <1>2 DEF TypeOK, CancelRaised
<1> HIDE DEF n, cancelled
<1> QED BY <1>2, <1>3, <1>4, <1>5, <1>6, AttemptStep

\* A call under way is answered or has a message of its own in flight at most once:
\* what its status says is what happened to it.
LEMMA StatusExact ==
    ASSUME IInv, NEW c \in Client, pc[c] = "waiting",
           ~ack[c] \/ ~monitored[c] \/ CancelRaised(c, num[c])
    PROVE  /\ Status(c) \in {"OK", "CANCELLED", "TARGET_DEAD"}
           /\ Status(c) = "OK" <=> <<c, num[c]>> \in written
           /\ <<c, num[c], TRUE>> \in InFlight => CancelRaised(c, num[c])
<1>1. TypeOK /\ Lifetime /\ Answerable /\ Current
  BY DEF IInv
<1>2. num[c] \in 1 .. MaxCalls /\ ack[c] \in BOOLEAN
  BY <1>1, CurrentNumber DEF TypeOK, InCall
<1>3. <<c, num[c]>> \in written <=> ~ack[c]
  BY <1>1 DEF Current, InCall
<1>4. Status(c) = "OK" <=> ~ack[c]
  BY <1>2 DEF Status
<1>5. ASSUME <<c, num[c], TRUE>> \in InFlight PROVE CancelRaised(c, num[c])
  <2>1. CancelRaised(c, num[c]) \/ ack[c]
    BY <1>1, <1>2, <1>5 DEF Answerable
  <2>2. CASE ~monitored[c]
    <3>1. coro = "dead" /\ queue = <<>>
      BY <1>1, <2>2 DEF Lifetime, InCall, Alive
    <3>2. InFlight = {}
      BY <3>1 DEF InFlight, Queued
    <3> QED BY <1>5, <3>2
  <2> QED BY <2>1, <2>2
<1>6. Status(c) \in {"OK", "CANCELLED", "TARGET_DEAD"}
  BY DEF Status
<1> QED BY <1>3, <1>4, <1>5, <1>6

\* A caller leaves its call once one of its signals was raised.
LEMMA CallReturnsStep ==
    ASSUME IInv, NEW c \in Client, CallReturns(c)
    PROVE  IInv'
<1> DEFINE n == num[c]
           status == Status(c)
<1>1. TypeOK /\ Lifetime /\ Distinct /\ Numbered /\ Answerable /\ Unsent /\ Current
      /\ OutcomeExact
  BY DEF IInv
<1>2. /\ pc[c] = "waiting"
      /\ ~ack[c] \/ ~monitored[c] \/ CancelRaised(c, n)
      /\ Return(c, n, status)
      /\ UNCHANGED <<svcVars, num, cancel, written>>
  BY DEF CallReturns
<1>3. /\ status \in {"OK", "CANCELLED", "TARGET_DEAD"}
      /\ status = "OK" <=> <<c, n>> \in written
      /\ <<c, n, TRUE>> \in InFlight => CancelRaised(c, n)
  BY <1>2, StatusExact
<1>4. n \in 1 .. MaxCalls
  BY <1>2, CurrentNumber DEF InCall
<1> HIDE DEF n, status
<1>5. /\ pc' = [pc EXCEPT ![c] = "idle"]
      /\ ack' = [ack EXCEPT ![c] = FALSE]
      /\ monitored' = [monitored EXCEPT ![c] = FALSE]
      /\ outcome' = outcome \cup {<<<<c, n>>, status>>}
      /\ UNCHANGED <<coro, msg, open, queue>>
  BY <1>2 DEF Return, svcVars
<1>6. InFlight' = InFlight /\ Distinct'
  BY <1>1, <1>2, <1>5 DEF InFlight, Queued, Distinct
<1>7. /\ pc'[c] = "idle"
      /\ \A d \in Client \ {c} : pc'[d] = pc[d] /\ ack'[d] = ack[d] /\ monitored'[d] = monitored[d]
  BY <1>1, <1>5 DEF TypeOK
<1>8. TypeOK'
  <2>1. <<<<c, n>>, status>> \in Call \X {"OK", "CANCELLED", "TARGET_DEAD"}
    BY <1>3, <1>4 DEF Call
  <2>2. outcome \subseteq Call \X {"OK", "CANCELLED", "TARGET_DEAD"}
    BY <1>1 DEF TypeOK
  <2>3. outcome' \subseteq Call \X {"OK", "CANCELLED", "TARGET_DEAD"}
    BY <1>5, <2>1, <2>2
  <2> QED BY <1>1, <1>2, <1>5, <2>3 DEF TypeOK
<1>9. Lifetime'
  BY <1>1, <1>5, <1>7 DEF Lifetime, Alive, InCall
<1>10. Numbered'
  <2>1. \A o \in outcome' : o[1][2] <= num'[o[1][1]]
    <3> SUFFICES ASSUME NEW o \in outcome' PROVE o[1][2] <= num'[o[1][1]]
      OBVIOUS
    <3>1. CASE o \in outcome
      BY <1>1, <1>2, <3>1 DEF Numbered
    <3>2. CASE o = <<<<c, n>>, status>>
      BY <1>2, <1>4, <3>2, MaxCallsAssumption DEF n
    <3> QED BY <1>5, <3>1, <3>2
  <2> QED BY <1>1, <1>2, <1>6, <2>1 DEF Numbered
<1>11. Answerable'
  <2> SUFFICES ASSUME NEW d \in Client, NEW k \in 1 .. MaxCalls, <<d, k, TRUE>> \in InFlight
               PROVE  CancelRaised(d, k) \/ (k = num[d] /\ pc'[d] = "waiting" /\ ack'[d])
    BY <1>2, <1>6 DEF Answerable, CancelRaised
  <2>1. CASE d = c
    BY <1>1, <1>3, <2>1 DEF Answerable, n
  <2>2. CASE d # c
    BY <1>1, <1>7, <2>2 DEF Answerable
  <2> QED BY <2>1, <2>2
<1>12. Unsent'
  BY <1>1, <1>2, <1>6, <1>7 DEF Unsent
<1>13. Current'
  <2> SUFFICES ASSUME NEW d \in Client, pc'[d] \in {"sending", "waiting"}
               PROVE  /\ num[d] # 0
                      /\ <<d, num[d]>> \in written <=> ~ack'[d]
                      /\ \A o \in outcome' : o[1] # <<d, num[d]>>
    BY <1>2 DEF Current, InCall
  <2>1. d # c /\ pc'[d] = pc[d] /\ ack'[d] = ack[d]
    BY <1>7
  <2>2. \A o \in outcome' : o \in outcome \/ o[1] = <<c, n>>
    BY <1>5
  <2> QED BY <1>1, <2>1, <2>2 DEF Current, InCall
<1>14. OutcomeExact'
  <2> SUFFICES ASSUME NEW o \in outcome' PROVE o[2] = "OK" <=> o[1] \in written
    BY <1>2 DEF OutcomeExact
  <2>1. CASE o \in outcome
    BY <1>1, <2>1 DEF OutcomeExact
  <2>2. CASE o = <<<<c, n>>, status>>
    BY <1>3, <2>2
  <2> QED BY <1>5, <2>1, <2>2
<1> QED BY <1>6, <1>8, <1>9, <1>10, <1>11, <1>12, <1>13, <1>14 DEF IInv

\* One round of bio_notify_service.
LEMMA NotifyStep ==
    ASSUME IInv, NEW c \in Client, NEW retry \in BOOLEAN, bio_notify_service(c, retry)
    PROVE  IInv'
<1> DEFINE n == num[c] + 1
<1>1. TypeOK /\ Lifetime /\ Distinct /\ Numbered /\ Unsent /\ Current /\ OutcomeExact
  BY DEF IInv
<1>2. /\ pc[c] \in {"idle", "notifying"} /\ n <= MaxCalls
      /\ UNCHANGED <<coro, msg, open, ack, monitored, outcome, written>>
  BY DEF bio_notify_service
<1>3. CASE open /\ Alive /\ retry /\ Len(queue) >= Capacity
  <2>1. pc' = [pc EXCEPT ![c] = "notifying"] /\ UNCHANGED <<queue, num, cancel>>
    BY <1>3 DEF bio_notify_service
  <2>2. TypeOK'
    BY <1>1, <1>2, <2>1 DEF TypeOK
  <2>3. Lifetime'
    BY <1>1, <1>2, <2>1 DEF TypeOK, Lifetime, Alive, InCall
  <2>4. InFlight' \subseteq InFlight /\ Distinct'
    BY <1>1, <1>2, <2>1, FewerInFlight
  <2>5. CallsUnchanged
    BY <1>1, <1>2, <2>1, <2>4 DEF CallsUnchanged, TypeOK
  <2> QED BY <2>2, <2>3, <2>5, CallsUnchangedStep
<1>4. CASE ~(open /\ Alive /\ retry /\ Len(queue) >= Capacity)
  <2>1. /\ pc' = [pc EXCEPT ![c] = "idle"]
        /\ num' = [num EXCEPT ![c] = n]
        /\ cancel' = [cancel EXCEPT ![c] = Append(@, "none")]
        /\ queue' = IF open /\ Alive /\ retry THEN Append(queue, <<c, n, FALSE>>) ELSE queue
    BY <1>4 DEF bio_notify_service
  <2>2. /\ n \in 1 .. MaxCalls /\ NumberUsed(c, n)
        /\ <<c, n, FALSE>> \notin InFlight
    BY <1>2, <2>1, NewNumber
  <2>3. MayHaveSent(c, n, FALSE)
    <3>1. Len(queue) \in Nat
      BY <1>1, LenProperties DEF TypeOK
    <3>2. CASE open /\ Alive /\ retry
      <4>1. ~(Len(queue) >= Capacity)
        BY <1>4, <3>2, Zenon
      <4>2. open /\ Len(queue) < Capacity
        BY <3>1, <3>2, <4>1, CapacityAssumption
      <4>3. queue' = Append(queue, <<c, n, FALSE>>)
        BY <2>1, <3>2, Zenon
      <4> QED BY <4>2, <4>3, Zenon DEF MayHaveSent
    <3>3. CASE ~(open /\ Alive /\ retry)
      <4>1. queue' = queue
        BY <2>1, <3>3, Zenon
      <4> QED BY <4>1, Zenon DEF MayHaveSent
    <3> QED BY <3>2, <3>3
  <2> HIDE DEF n
  <2>4. /\ InFlight' = InFlight \/ InFlight' = InFlight \cup {<<c, n, FALSE>>}
        /\ Distinct'
        /\ queue' \in Seq(Message) /\ Len(queue') <= Capacity
        /\ ~open => queue' = <<>>
    BY <1>2, <2>2, <2>3, SentFacts
  <2>5. /\ Numbered'
        /\ num' \in [Client -> 0 .. MaxCalls]
        /\ \A d \in Client \ {c} : num'[d] = num[d]
    <3>1. InFlight' \subseteq InFlight \cup {<<c, n, FALSE>>}
      BY <2>4
    <3>2. outcome' \subseteq outcome \cup {<<<<c, n>>, "OK">>} /\ written' = written
      BY <1>2
    <3> QED BY <2>2, <3>1, <3>2, NumbersGrow
  <2>6. /\ pc'[c] = "idle"
        /\ \A d \in Client \ {c} : pc'[d] = pc[d]
    BY <1>1, <2>1 DEF TypeOK
  <2>7. TypeOK'
    BY <1>1, <1>2, <2>1, <2>2, <2>4, <2>5 DEF TypeOK, NumberUsed
  <2>8. Lifetime'
    BY <1>1, <1>2, <2>4, <2>6 DEF Lifetime, Alive, InCall
  <2>9. \A d \in Client, k \in Nat : <<d, k, TRUE>> \in InFlight' => <<d, k, TRUE>> \in InFlight
    <3> SUFFICES ASSUME NEW d \in Client, NEW k \in Nat, <<d, k, TRUE>> \in InFlight'
                 PROVE  <<d, k, TRUE>> \in InFlight
      OBVIOUS
    <3> DEFINE m == <<d, k, TRUE>>
               notice == <<c, n, FALSE>>
    <3>1. m # notice
      <4>1. m[3] = TRUE /\ notice[3] = FALSE
        OBVIOUS
      <4> HIDE DEF m, notice
      <4> QED BY <4>1
    <3> HIDE DEF m, notice
    <3>2. InFlight' = InFlight \/ InFlight' = InFlight \cup {notice}
      BY <2>4 DEF notice
    <3>3. m \in InFlight
      BY <3>1, <3>2 DEF m
    <3> QED BY <3>3 DEF m
  <2>10. Answerable'
    <3> SUFFICES ASSUME NEW d \in Client, NEW k \in 1 .. MaxCalls,
                        <<d, k, TRUE>> \in InFlight'
                 PROVE  cancel'[d][k] = "raised" \/ (k = num'[d] /\ pc'[d] = "waiting" /\ ack'[d])
      BY DEF Answerable, CancelRaised
    <3>1. <<d, k, TRUE>> \in InFlight
      <4>1. k \in Nat
        BY MaxCallsAssumption
      <4> QED BY <2>9, <4>1, Zenon
    <3>2. /\ pc[c] # "waiting"
          /\ \A e \in Client \ {c} : pc'[e] = pc[e] /\ ack'[e] = ack[e]
      BY <1>2, <2>6
    <3> QED BY <2>2, <3>1, <3>2, OldAnswerable
  <2>11. Unsent'
    <3> SUFFICES ASSUME NEW d \in Client, pc'[d] = "sending"
                 PROVE  ack'[d] /\ <<d, num'[d], TRUE>> \notin InFlight'
      BY DEF Unsent
    <3>1. pc[d] = "sending" /\ num'[d] = num[d] /\ ack'[d] = ack[d]
      BY <1>2, <2>5, <2>6
    <3>2. num[d] \in Nat
      BY <1>1, MaxCallsAssumption DEF TypeOK
    <3> QED BY <1>1, <2>9, <3>1, <3>2 DEF Unsent
  <2>12. Current'
    <3> SUFFICES ASSUME NEW d \in Client, pc'[d] \in {"sending", "waiting"}
                 PROVE  /\ num'[d] # 0
                        /\ <<d, num'[d]>> \in written <=> ~ack[d]
                        /\ \A o \in outcome : o[1] # <<d, num'[d]>>
      BY <1>2 DEF Current, InCall
    <3>1. pc'[d] = pc[d] /\ num'[d] = num[d]
      BY <2>5, <2>6
    <3> QED BY <1>1, <3>1 DEF Current, InCall
  <2>13. OutcomeExact'
    BY <1>1, <1>2 DEF OutcomeExact
  <2> QED BY <2>4, <2>5, <2>7, <2>8, <2>10, <2>11, <2>12, <2>13 DEF IInv
<1> QED BY <1>3, <1>4

\* The cancel signal of a call is raised: its message need not be answerable.
LEMMA CancelStep ==
    ASSUME IInv, NEW c \in Client, Cancel(c)
    PROVE  IInv'
<1> DEFINE n == num[c]
           S == {"none", "live", "raised"}
<1>1. TypeOK /\ Lifetime /\ Distinct /\ Numbered /\ Answerable /\ Unsent /\ Current
      /\ OutcomeExact
  BY DEF IInv
<1>2. /\ InCall(c)
      /\ cancel' = [cancel EXCEPT ![c] = [cancel[c] EXCEPT ![n] = "raised"]]
      /\ UNCHANGED <<coro, msg, open, queue, pc, num, ack, monitored, outcome, written>>
  BY DEF Cancel, InCall, svcVars
<1>3. n \in 1 .. MaxCalls
  BY <1>2, CurrentNumber
<1>4. /\ [cancel[c] EXCEPT ![n] = "raised"] \in Seq(S)
      /\ Len([cancel[c] EXCEPT ![n] = "raised"]) = num[c]
      /\ \A k \in 1 .. num[c] : cancel[c][k] = "raised" =>
            [cancel[c] EXCEPT ![n] = "raised"][k] = "raised"
  <2>1. cancel[c] \in Seq(S) /\ Len(cancel[c]) = num[c] /\ "raised" \in S
    BY <1>1 DEF TypeOK
  <2>2. n \in 1 .. Len(cancel[c])
    BY <1>3, <2>1
  <2> HIDE DEF S, n
  <2>3. /\ [cancel[c] EXCEPT ![n] = "raised"] \in Seq(S)
        /\ Len([cancel[c] EXCEPT ![n] = "raised"]) = Len(cancel[c])
        /\ \A k \in 1 .. Len(cancel[c]) :
              [cancel[c] EXCEPT ![n] = "raised"][k] = IF k = n THEN "raised" ELSE cancel[c][k]
    BY <2>1, <2>2, ExceptSeq
  <2> QED BY <2>1, <2>3
<1>5. /\ cancel' \in [Client -> Seq(S)]
      /\ \A d \in Client : Len(cancel'[d]) = num[d]
      /\ \A d \in Client : \A k \in 1 .. num[d] : cancel[d][k] = "raised" => cancel'[d][k] = "raised"
  BY <1>1, <1>2, <1>4 DEF TypeOK
<1>6. TypeOK'
  BY <1>1, <1>2, <1>5 DEF TypeOK
<1>7. Lifetime' /\ InFlight' = InFlight /\ Distinct'
  BY <1>1, <1>2 DEF Lifetime, Alive, InCall, InFlight, Queued, Distinct
<1>8. Answerable'
  <2> SUFFICES ASSUME NEW d \in Client, NEW k \in 1 .. MaxCalls, <<d, k, TRUE>> \in InFlight
               PROVE  cancel'[d][k] = "raised" \/ (k = num[d] /\ pc[d] = "waiting" /\ ack[d])
    BY <1>2, <1>7 DEF Answerable, CancelRaised
  <2>1. k <= num[d]
    BY <1>1 DEF Numbered
  <2>2. k \in 1 .. num[d]
    BY <1>1, <2>1, MaxCallsAssumption DEF TypeOK
  <2> QED BY <1>1, <1>5, <2>2 DEF Answerable, CancelRaised
<1>9. Numbered' /\ Unsent' /\ Current' /\ OutcomeExact'
  BY <1>1, <1>2, <1>7 DEF Numbered, Unsent, Current, InCall, OutcomeExact
<1> QED BY <1>6, <1>7, <1>8, <1>9 DEF IInv

\* bio_respond writes to the stack of a caller who is waiting for it, or not at all.
LEMMA RespondStep ==
    ASSUME IInv, bio_respond
    PROVE  IInv'
<1>1. TypeOK /\ Lifetime /\ Distinct /\ Numbered /\ Answerable /\ Unsent /\ Current
      /\ OutcomeExact
  BY DEF IInv
<1>2. /\ coro = "handling" /\ coro' = "recv" /\ msg' = NoMsg
      /\ UNCHANGED <<open, queue, pc, num, cancel, monitored, outcome>>
  BY DEF bio_respond
<1>3. InFlight' = Queued /\ Queued \subseteq InFlight /\ Distinct'
  BY <1>1, <1>2 DEF InFlight, Queued, Distinct
<1>4. Lifetime'
  BY <1>1, <1>2 DEF Lifetime, Alive, InCall
<1>5. msg \in Message /\ msg \in InFlight /\ msg \notin Queued
  BY <1>1, <1>2 DEF TypeOK, Lifetime, InFlight, Distinct
<1>6. CASE ~bio__service_begin_response(msg)
  <2>1. UNCHANGED <<written, ack>>
    BY <1>6 DEF bio_respond
  <2>2. TypeOK'
    BY <1>1, <1>2, <2>1 DEF TypeOK
  <2>3. CallsUnchanged
    BY <1>2, <1>3, <2>1 DEF CallsUnchanged
  <2> QED BY <1>4, <2>2, <2>3, CallsUnchangedStep
<1>7. CASE bio__service_begin_response(msg)
  <2>1. PICK c \in Client, n \in 1 .. MaxCalls : msg = <<c, n, TRUE>>
    <3>1. PICK c \in Client, n \in 1 .. MaxCalls, b \in BOOLEAN : msg = <<c, n, b>>
      BY <1>5 DEF Message
    <3>2. b = TRUE
      BY <1>7, <3>1 DEF bio__service_begin_response
    <3> QED BY <3>1, <3>2
  <2>2. msg[1] = c /\ msg[2] = n
    BY <2>1
  <2>3. n = num[c] /\ pc[c] = "waiting" /\ ack[c]
    BY <1>1, <1>5, <1>7, <2>1, <2>2
    DEF Answerable, bio__service_begin_response, bio__service_is_call_cancelled
  <2>4. written' = written \cup {<<c, n>>} /\ ack' = [ack EXCEPT ![c] = FALSE]
    BY <1>7, <2>2, <2>3 DEF bio_respond
  <2>5. ack'[c] = FALSE /\ \A d \in Client \ {c} : ack'[d] = ack[d]
    BY <1>1, <2>4 DEF TypeOK
  <2>6. TypeOK'
    <3>1. <<c, n>> \in Call
      BY DEF Call
    <3> QED BY <1>1, <1>2, <2>4, <3>1 DEF TypeOK
  <2>7. <<c, n, TRUE>> \notin InFlight'
    BY <1>3, <1>5, <2>1
  <2>8. Numbered'
    <3>1. \A w \in written' : w[2] <= num[w[1]]
      <4> SUFFICES ASSUME NEW w \in written' PROVE w[2] <= num[w[1]]
        OBVIOUS
      <4>1. CASE w \in written
        BY <1>1, <4>1 DEF Numbered
      <4>2. CASE w = <<c, n>>
        BY <2>3, <4>2, MaxCallsAssumption
      <4> QED BY <2>4, <4>1, <4>2
    <3> QED BY <1>1, <1>2, <1>3, <3>1 DEF Numbered
  <2>9. Answerable'
    <3> SUFFICES ASSUME NEW d \in Client, NEW k \in 1 .. MaxCalls,
                        <<d, k, TRUE>> \in InFlight'
                 PROVE  CancelRaised(d, k) \/ (k = num[d] /\ pc[d] = "waiting" /\ ack'[d])
      BY <1>2 DEF Answerable, CancelRaised
    <3>1. CancelRaised(d, k) \/ (k = num[d] /\ pc[d] = "waiting" /\ ack[d])
      BY <1>1, <1>3 DEF Answerable
    <3>2. d = c /\ k = num[d] => FALSE
      BY <2>3, <2>7
    <3> QED BY <2>5, <3>1, <3>2
  <2>10. Unsent'
    <3> SUFFICES ASSUME NEW d \in Client, pc[d] = "sending"
                 PROVE  ack'[d] /\ <<d, num[d], TRUE>> \notin InFlight'
      BY <1>2 DEF Unsent
    <3> QED BY <1>1, <1>3, <2>3, <2>5 DEF Unsent
  <2>11. Current'
    <3> SUFFICES ASSUME NEW d \in Client, InCall(d)
                 PROVE  /\ num[d] # 0
                        /\ <<d, num[d]>> \in written' <=> ~ack'[d]
                        /\ \A o \in outcome : o[1] # <<d, num[d]>>
      BY <1>2 DEF Current, InCall
    <3>1. CASE d = c
      BY <1>1, <2>3, <2>4, <2>5, <3>1 DEF Current
    <3>2. CASE d # c
      BY <1>1, <2>4, <2>5, <3>2 DEF Current
    <3> QED BY <3>1, <3>2
  <2>12. OutcomeExact'
    <3>1. \A o \in outcome : o[1] # <<c, n>>
      BY <1>1, <2>3 DEF Current, InCall
    <3> QED BY <1>1, <1>2, <2>4, <3>1 DEF OutcomeExact
  <2> QED BY <1>3, <1>4, <2>6, <2>8, <2>9, <2>10, <2>11, <2>12 DEF IInv
<1> QED BY <1>6, <1>7
-----------------------------------------------------------------------------
\* Before the service is started nothing is in flight and nobody calls.
LEMMA InitInvariant == Init => IInv
<1> SUFFICES ASSUME Init PROVE IInv
  OBVIOUS
<1>1. TypeOK
  <2>1. \A c \in Client : cancel[c] = <<>>
    BY DEF Init
  <2>2. cancel \in [Client -> Seq({"none", "live", "raised"})]
    <3>1. <<>> \in Seq({"none", "live", "raised"})
      BY EmptySeq
    <3> QED BY <3>1 DEF Init
  <2>3. \A c \in Client : Len(cancel[c]) = num[c]
    BY <2>1, EmptySeq DEF Init
  <2>4. num \in [Client -> 0 .. MaxCalls]
    BY MaxCallsAssumption DEF Init
  <2> QED BY <2>2, <2>3, <2>4, ConstantFacts DEF Init, TypeOK
<1>2. InFlight = {}
  BY DEF Init, InFlight, Queued
<1>3. Lifetime /\ Distinct
  BY DEF Init, Lifetime, Distinct, Alive, InCall
<1>4. Numbered /\ Answerable /\ Unsent /\ Current /\ OutcomeExact
  BY <1>2 DEF Init, Numbered, Answerable, Unsent, Current, InCall, OutcomeExact
<1> QED BY <1>1, <1>3, <1>4 DEF IInv

\* Every step keeps the invariant.
LEMMA NextInvariant == IInv /\ [Next]_vars => IInv'
<1> SUFFICES ASSUME IInv, [Next]_vars PROVE IInv'
  OBVIOUS
<1>1. CASE ServiceStep \/ SelfStop
  BY <1>1, ServiceStepKeeps, RespondStep DEF ServiceStep, Handled
<1>2. ASSUME NEW c \in Client, ClientStep(c)
      PROVE  IInv'
  BY <1>2, ResendStep, CallReturnsStep, StartStopStep, NotifyStep DEF ClientStep
<1>3. ASSUME NEW c \in Client,
             \/ bio__service_start(c) \/ bio__service_stop(c) \/ Cancel(c)
             \/ \E signal \in {"none", "live", "raised"} : bio__service_call(c, signal)
             \/ \E retry \in BOOLEAN : bio_notify_service(c, retry)
      PROVE  IInv'
  BY <1>3, StartStopStep, CancelStep, CallStep, NotifyStep
<1>4. CASE UNCHANGED vars
  <2>1. UNCHANGED <<coro, msg, open, queue, pc, num, cancel, ack, monitored, outcome, written>>
    BY <1>4 DEF vars, svcVars, callVars
  <2>2. TypeOK' /\ Lifetime' /\ Distinct'
    BY <2>1 DEF IInv, TypeOK, Lifetime, Distinct, Queued, Alive, InCall
  <2>3. CallsUnchanged
    BY <2>1, <2>2 DEF CallsUnchanged, InFlight, Queued
  <2> QED BY <2>2, <2>3, CallsUnchangedStep
<1> QED BY <1>1, <1>2, <1>3, <1>4 DEF Next

\* The invariant holds in every behaviour.
THEOREM Invariance == Spec => []IInv
BY InitInvariant, NextInvariant, PTL DEF Spec

\* The state of a service and of its clients is well-formed, and the mailbox never
\* holds more than its capacity.
THEOREM TypeCorrect == Spec => []TypeOK
<1>1. IInv => TypeOK
  BY DEF IInv
<1> QED BY <1>1, Invariance, PTL

\* bio_respond writes through the pointers of a call exactly when the call returns
\* BIO_CALL_OK (service.h: "The call was handled by the service"), for any number of clients,
\* however cancellations, responses, the end of the service and the returns of the
\* callers interleave.
THEOREM OutcomeCorrect == Spec => []OutcomeExact
<1>1. IInv => OutcomeExact
  BY DEF IInv
<1> QED BY <1>1, Invariance, PTL
=============================================================================
