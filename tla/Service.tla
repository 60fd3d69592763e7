------------------------------- MODULE Service ------------------------------
(***************************************************************************)
(* Services (src/src/service.c, src/include/bio/service.h): a coroutine     *)
(* that answers calls and notifications from its mailbox, and the           *)
(* coroutines that start, call, notify and stop it.                         *)
(*                                                                          *)
(* Coroutines are not preempted: a step is what one does between two points *)
(* where it may suspend.  The mailbox is the FIFO that Mailbox shows it to  *)
(* be.  A signal that was raised is a handle that no longer resolves, so    *)
(* raising it again, or raising the signal of a call that is over, does     *)
(* nothing.  What the service does with a message is left open: it may      *)
(* suspend any number of times, then respond, drop the message, stop itself *)
(* or end.                                                                  *)
(***************************************************************************)
EXTENDS Naturals, Sequences

CONSTANTS
    Client,        \* coroutines that use the service
    Capacity,      \* mailbox_capacity
    MaxCalls,      \* bound: calls and notifications of each client
    NoMsg          \* the service holds no message

ASSUME CapacityAssumption == Capacity \in Nat \ {0}
ASSUME MaxCallsAssumption == MaxCalls \in Nat
ASSUME NoMsgAssumption == NoMsg \notin Client \X Nat \X BOOLEAN

VARIABLES
    coro,          \* where the coroutine of the service is
    msg,           \* the message it works on
    open,          \* its mailbox is open
    queue,         \* the messages in the mailbox
    pc,            \* where each client is
    num,           \* number of the current call of each client
    cancel,        \* state of the cancel signal of each call made so far
    ack,           \* the ack signal of the current call is not raised yet
    monitored,     \* the monitor signal of the current call is not raised yet
    written,       \* auxiliary: calls whose response block was executed
    outcome        \* auxiliary: the calls that returned, with their status

svcVars == <<coro, msg, open, queue>>
callVars == <<num, cancel, ack, monitored, outcome>>
vars == <<svcVars, pc, callVars, written>>

Call == Client \X (1 .. MaxCalls)

\* A message: who sent it, its number, and whether it carries an ack signal.
Message == Client \X (1 .. MaxCalls) \X BOOLEAN

Alive == coro \notin {"none", "dead"}
-----------------------------------------------------------------------------
(***************************************************************************)
(* Start and stop.                                                          *)
(***************************************************************************)
\* The mailbox is opened and the coroutine spawned; the client waits for
\* ready_signal.
bio__service_start(c) ==
    /\ pc[c] = "idle"
    /\ coro = "none"
    /\ coro' = "spawned"
    /\ open' = TRUE
    /\ pc' = [pc EXCEPT ![c] = "starting"]
    /\ UNCHANGED <<msg, queue, callVars, written>>

\* bio_service_wrapper raises ready_signal and runs the entry, which copies its
\* arguments from the stack of the client that starts it (bio__service_get_info)
\* and waits for the first message.
bio_service_wrapper ==
    /\ coro = "spawned"
    /\ coro' = "recv"
    /\ pc' = [c \in Client |-> IF pc[c] = "starting" THEN "idle" ELSE pc[c]]
    /\ UNCHANGED <<msg, open, queue, callVars, written>>

bio__mailbox_close ==
    /\ open' = FALSE
    /\ queue' = <<>>

\* The client closes the mailbox and joins the coroutine.
bio__service_stop(c) ==
    /\ pc[c] = "idle"
    /\ coro # "none"
    /\ bio__mailbox_close
    /\ pc' = [pc EXCEPT ![c] = IF coro = "dead" THEN "idle" ELSE "stopping"]
    /\ UNCHANGED <<coro, msg, callVars, written>>

\* bio_join returns.
Stopped(c) ==
    /\ pc[c] = "stopping"
    /\ coro = "dead"
    /\ pc' = [pc EXCEPT ![c] = "idle"]
    /\ UNCHANGED <<svcVars, callVars, written>>
-----------------------------------------------------------------------------
(***************************************************************************)
(* Calls and notifications.                                                 *)
(***************************************************************************)
CancelRaised(c, n) == cancel[c][n] = "raised"

\* Mutant: a call that was answered and cancelled is reported as cancelled.
StatusCancelFirst(c) ==
    IF CancelRaised(c, num[c]) THEN "CANCELLED" ELSE IF ~ack[c] THEN "OK" ELSE "TARGET_DEAD"

\* What the call returns once one of its signals was raised.
Status(c) ==
    IF ~ack[c] THEN "OK" ELSE IF CancelRaised(c, num[c]) THEN "CANCELLED" ELSE "TARGET_DEAD"

\* The call returns; its signals are raised so that the service finds them dead.
Return(c, n, status) ==
    /\ pc' = [pc EXCEPT ![c] = "idle"]
    /\ ack' = [ack EXCEPT ![c] = FALSE]
    /\ monitored' = [monitored EXCEPT ![c] = FALSE]
    /\ outcome' = outcome \cup {<<<<c, n>>, status>>}

\* Mutant: the loop does not look at the monitor signal.
GivesUpOnCancel(c, cancelled, watched) == cancelled

\* The call was cancelled or its target died.
GivesUp(c, cancelled, watched) == cancelled \/ ~watched

\* One round of the loop of bio__service_call, and the wait behind it: the call
\* gives up, and the wait returns at once; or the message is sent and the client
\* waits; or the mailbox is full or closed, and the client yields.
Attempt(c, n, cancelled, watched) ==
    \/ /\ GivesUp(c, cancelled, watched)
       /\ Return(c, n, IF cancelled THEN "CANCELLED" ELSE "TARGET_DEAD")
       /\ UNCHANGED queue
    \/ /\ ~GivesUp(c, cancelled, watched)
       /\ IF open /\ Len(queue) < Capacity
          THEN /\ queue' = Append(queue, <<c, n, TRUE>>)
               /\ pc' = [pc EXCEPT ![c] = "waiting"]
          ELSE /\ pc' = [pc EXCEPT ![c] = "sending"]
               /\ UNCHANGED queue
       /\ ack' = [ack EXCEPT ![c] = TRUE]
       /\ monitored' = [monitored EXCEPT ![c] = watched]
       /\ UNCHANGED outcome

\* signal: the call is not cancellable, or its cancel signal is live or raised.
bio__service_call(c, signal) ==
    LET n == num[c] + 1 IN
    /\ pc[c] = "idle"
    /\ coro # "none"
    /\ n <= MaxCalls
    /\ num' = [num EXCEPT ![c] = n]
    /\ cancel' = [cancel EXCEPT ![c] = Append(@, signal)]
    /\ \/ /\ ~Alive
          /\ outcome' = outcome \cup {<<<<c, n>>, "TARGET_DEAD">>}
          /\ UNCHANGED <<pc, ack, monitored, queue>>
       \/ /\ Alive
          /\ Attempt(c, n, signal = "raised", TRUE)
    /\ UNCHANGED <<coro, msg, open, written>>

\* The client was resumed after it yielded.
Resend(c) ==
    /\ pc[c] = "sending"
    /\ Attempt(c, num[c], CancelRaised(c, num[c]), monitored[c])
    /\ UNCHANGED <<coro, msg, open, num, cancel, written>>

\* The client was resumed because one of the three signals was raised.
CallReturns(c) ==
    /\ pc[c] = "waiting"
    /\ ~ack[c] \/ ~monitored[c] \/ CancelRaised(c, num[c])
    /\ Return(c, num[c], Status(c))
    /\ UNCHANGED <<svcVars, num, cancel, written>>

\* bio_notify_service, one round: the caller's retry_condition may end it too.
bio_notify_service(c, retry) ==
    LET n == num[c] + 1 IN
    /\ pc[c] \in {"idle", "notifying"}
    /\ coro # "none"
    /\ n <= MaxCalls
    /\ IF open /\ Alive /\ retry /\ Len(queue) >= Capacity
       THEN /\ pc' = [pc EXCEPT ![c] = "notifying"]
            /\ UNCHANGED <<queue, num, cancel>>
       ELSE /\ pc' = [pc EXCEPT ![c] = "idle"]
            /\ num' = [num EXCEPT ![c] = n]
            /\ cancel' = [cancel EXCEPT ![c] = Append(@, "none")]
            /\ queue' = IF open /\ Alive /\ retry THEN Append(queue, <<c, n, FALSE>>) ELSE queue
    /\ UNCHANGED <<coro, msg, open, ack, monitored, outcome, written>>

\* Somebody raises the cancel signal of a call: a timeout, another coroutine.
Cancel(c) ==
    /\ pc[c] \in {"sending", "waiting"}
    /\ cancel[c][num[c]] = "live"
    /\ cancel' = [cancel EXCEPT ![c][num[c]] = "raised"]
    /\ UNCHANGED <<svcVars, pc, num, ack, monitored, outcome, written>>
-----------------------------------------------------------------------------
(***************************************************************************)
(* The service.                                                             *)
(***************************************************************************)
bio__service_is_call_cancelled(m) == CancelRaised(m[1], m[2])

\* bio_service_loop: the next message, unless its call was cancelled; a closed
\* mailbox ends the loop.
bio_service_loop ==
    /\ coro = "recv"
    /\ \/ /\ queue # <<>>
          /\ queue' = Tail(queue)
          /\ IF bio__service_is_call_cancelled(Head(queue))
             THEN UNCHANGED <<coro, msg>>
             ELSE /\ coro' = "handling"
                  /\ msg' = Head(queue)
       \/ /\ ~open
          /\ coro' = "ending"
          /\ UNCHANGED <<msg, queue>>
    /\ UNCHANGED <<open, pc, callVars, written>>

\* The message carries an ack signal and its call was not cancelled.
bio__service_begin_response(m) == m[3] /\ ~bio__service_is_call_cancelled(m)

\* bio_respond: the block writes through the message's pointers, into the stack of
\* the caller, and the ack signal is raised.
bio_respond ==
    /\ coro = "handling"
    /\ coro' = "recv"
    /\ msg' = NoMsg
    /\ IF bio__service_begin_response(msg)
       THEN /\ written' = written \cup {<<msg[1], msg[2]>>}
            /\ ack' = [ack EXCEPT ![msg[1]] = @ /\ num[msg[1]] # msg[2]]
       ELSE UNCHANGED <<written, ack>>
    /\ UNCHANGED <<open, queue, pc, num, cancel, monitored, outcome>>

\* The handler is done and has not responded, or leaves the loop.
NoResponse(next) ==
    /\ coro = "handling"
    /\ coro' = next
    /\ msg' = NoMsg
    /\ UNCHANGED <<open, queue, pc, callVars, written>>

\* The service stops itself: joining itself returns at once.
SelfStop ==
    /\ coro = "handling"
    /\ open
    /\ bio__mailbox_close
    /\ UNCHANGED <<coro, msg, pc, callVars, written>>

\* The entry returns to bio_service_wrapper, which closes the mailbox; the end of
\* the coroutine raises the signals of its monitors.
End ==
    /\ coro = "ending"
    /\ coro' = "dead"
    /\ bio__mailbox_close
    /\ monitored' = [c \in Client |-> FALSE]
    /\ UNCHANGED <<msg, pc, num, cancel, ack, outcome, written>>
-----------------------------------------------------------------------------
Init ==
    /\ coro = "none"
    /\ msg = NoMsg
    /\ open = FALSE
    /\ queue = <<>>
    /\ pc = [c \in Client |-> "idle"]
    /\ num = [c \in Client |-> 0]
    /\ cancel = [c \in Client |-> <<>>]
    /\ ack = [c \in Client |-> FALSE]
    /\ monitored = [c \in Client |-> FALSE]
    /\ written = {}
    /\ outcome = {}

Handled == bio_respond \/ NoResponse("recv") \/ NoResponse("ending")

ServiceStep == bio_service_wrapper \/ bio_service_loop \/ Handled \/ End

ClientStep(c) ==
    \/ Resend(c)
    \/ CallReturns(c)
    \/ Stopped(c)
    \/ pc[c] = "notifying" /\ \E retry \in BOOLEAN : bio_notify_service(c, retry)

Next ==
    \/ ServiceStep
    \/ SelfStop
    \/ \E c \in Client :
          \/ ClientStep(c)
          \/ bio__service_start(c)
          \/ bio__service_stop(c)
          \/ Cancel(c)
          \/ \E signal \in {"none", "live", "raised"} : bio__service_call(c, signal)
          \/ \E retry \in BOOLEAN : bio_notify_service(c, retry)

Spec == Init /\ [][Next]_vars

\* bio_loop runs every ready coroutine, and a handler ends sooner or later.
FairSpec ==
    /\ Spec
    /\ WF_vars(ServiceStep)
    /\ \A c \in Client : WF_vars(ClientStep(c))
-----------------------------------------------------------------------------
TypeOK ==
    /\ coro \in {"none", "spawned", "recv", "handling", "ending", "dead"}
    /\ msg \in Message \cup {NoMsg}
    /\ open \in BOOLEAN
    /\ queue \in Seq(Message)
    /\ Len(queue) <= Capacity
    /\ pc \in [Client -> {"idle", "starting", "stopping", "sending", "waiting", "notifying"}]
    /\ num \in [Client -> 0 .. MaxCalls]
    /\ cancel \in [Client -> Seq({"none", "live", "raised"})]
    /\ \A c \in Client : Len(cancel[c]) = num[c]
    /\ ack \in [Client -> BOOLEAN]
    /\ monitored \in [Client -> BOOLEAN]
    /\ written \subseteq Call
    /\ outcome \subseteq Call \X {"OK", "CANCELLED", "TARGET_DEAD"}

\* A call that returned was answered exactly when it returned OK.  The service
\* never writes to the stack of a client that has left the call (tests/service.c:
\* "service must not write to var"), however the cancellation, the response, the
\* end of the service and the client's return interleave, and a client that is
\* told its call was cancelled finds its variables untouched.
OutcomeExact == \A o \in outcome : o[2] = "OK" <=> o[1] \in written

\* A call that was cancelled, or is under way when the service is stopped, returns:
\* its message may be unsent, queued, dropped or being handled.  bio_stop_service
\* and a notification return as well.
ClientsReturn ==
    \A c \in Client :
        /\ pc[c] \in {"sending", "waiting"} /\ (~open \/ CancelRaised(c, num[c]))
              ~> pc[c] = "idle"
        /\ pc[c] \in {"starting", "stopping"} ~> pc[c] = "idle"
        /\ pc[c] = "notifying" /\ ~open ~> pc[c] = "idle"
=============================================================================
