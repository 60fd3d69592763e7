------------------------------- MODULE Logging ------------------------------
(***************************************************************************)
(* Logging (src/src/logging.c, src/src/logging/file.c): bio_vlog walks the  *)
(* list of loggers and sends each a copy of the message; every logger is a  *)
(* daemon service that passes the copies to its log function.               *)
(*                                                                          *)
(* cpu says who runs: a client keeps it from one point where it suspends to *)
(* the next, bio_terminate for as long as it is outside bio_loop.  A step   *)
(* that reads a logger after it was freed is undefined: cpu is then         *)
(* "undefined" and nothing is said about what follows.                      *)
(***************************************************************************)
EXTENDS Naturals, Sequences

CONSTANTS
    Client,        \* coroutines that log, add and remove loggers
    Daemon,        \* those that are daemons: bio_loop returns without waiting for them
    Logger,        \* loggers that may be added
    Level,         \* log levels
    Capacity,      \* mailbox_capacity of a logger (16 in the code)
    MaxMsgs        \* bound: messages logged

ASSUME CapacityAssumption == Capacity \in Nat \ {0}
ASSUME NamesAssumption ==
    "end" \notin Logger /\ Client \cap {"loop", "main", "undefined"} = {}
ASSUME DaemonAssumption == Daemon \subseteq Client
ASSUME BoundsAssumption == Level \subseteq Nat /\ MaxMsgs \in Nat

VARIABLES
    cpu,           \* the client that runs, or "loop", "main", "undefined"
    main,          \* "loop", "cleanup", "drain" or "ended": how far bio_terminate is
    loggers,       \* bio_ctx.loggers
    impl,          \* bio_logger_impl_t: "none", "starting", "open", "closed" or "freed"
    min_level,
    svc,           \* the service: "none", "spawned", "recv", "writing", "dead"
    queue,         \* its mailbox
    held,          \* the message it passes to its log function
    pc, itr, next, level, msg,   \* of each client: where it is and its variables
    formatted,     \* clients whose message is formatted
    num,           \* messages logged so far, each known by its number
    owed,          \* auxiliary: copies taken by an open logger, not yet written
    overlapped     \* auxiliary: a logger was freed while the client was suspended

listVars == <<loggers, impl, min_level>>
svcVars == <<svc, queue, held, owed>>
clientVars == <<pc, itr, next, level, msg, formatted, num>>
vars == <<cpu, main, listVars, svcVars, clientVars, overlapped>>

Null == 0          \* the message that ends a logger, or no message yet
End == "end"       \* the head of the list, where a walk ends
-----------------------------------------------------------------------------
First == IF loggers = <<>> THEN End ELSE Head(loggers)

After(l) ==
    LET rest == {i \in DOMAIN loggers : loggers[i] = l /\ i < Len(loggers)}
    IN IF rest = {} THEN End ELSE loggers[(CHOOSE i \in rest : TRUE) + 1]

\* A coroutine runs in the bio_loop of the program or, a daemon, in that of bio_terminate.
Running(c) ==
    /\ main = "loop" \/ (main = "drain" /\ c \in Daemon)
    /\ cpu \in {"loop", c}

\* The service of a logger still takes messages.
Accepts(l) == svc[l] # "dead"

Full(l) == Len(queue[l]) >= Capacity

Undefined ==
    /\ cpu' = "undefined"
    /\ UNCHANGED <<main, listVars, svcVars, clientVars, overlapped>>
-----------------------------------------------------------------------------
(***************************************************************************)
(* Adding and removing loggers.                                             *)
(***************************************************************************)
\* The service is started; the client suspends until it runs.
bio_add_logger(c, l, lvl) ==
    /\ Running(c) /\ cpu = "loop" /\ pc[c] = "idle"
    /\ impl[l] = "none"
    /\ impl' = [impl EXCEPT ![l] = "starting"]
    /\ min_level' = [min_level EXCEPT ![l] = lvl]
    /\ svc' = [svc EXCEPT ![l] = "spawned"]
    /\ pc' = [pc EXCEPT ![c] = "adding"]
    /\ itr' = [itr EXCEPT ![c] = l]
    /\ UNCHANGED <<cpu, main, loggers, queue, held, owed, next, level, msg, formatted, num, overlapped>>

\* The client is resumed: only now is the logger linked and its handle made.
Added(c) ==
    /\ Running(c) /\ cpu = "loop" /\ pc[c] = "adding"
    /\ svc[itr[c]] # "spawned"
    /\ impl' = [impl EXCEPT ![itr[c]] = "open"]
    /\ loggers' = Append(loggers, itr[c])
    /\ pc' = [pc EXCEPT ![c] = "idle"]
    /\ itr' = [itr EXCEPT ![c] = End]
    /\ UNCHANGED <<cpu, main, min_level, svcVars, next, level, msg, formatted, num, overlapped>>

bio_set_min_log_level(c, l, lvl) ==
    /\ Running(c) /\ cpu = "loop" /\ pc[c] = "idle"
    /\ impl[l] = "open"
    /\ min_level' = [min_level EXCEPT ![l] = lvl]
    /\ UNCHANGED <<cpu, main, loggers, impl, svcVars, clientVars, overlapped>>

\* Mutant: the farewell overtakes the messages.
FarewellFirst(q) == <<Null>> \o q

Farewell(q) == Append(q, Null)

\* Mutant: the logger stays in the list.
KeepLinked(l) == loggers

\* Where a logger is in the list.
At(l) == CHOOSE i \in DOMAIN loggers : loggers[i] = l

Unlink(l) == SubSeq(loggers, 1, At(l) - 1) \o SubSeq(loggers, At(l) + 1, Len(loggers))

\* Clients that are suspended in bio_vlog when a logger is freed.
Suspended == {c \in Client : pc[c] = "send"}

\* The end of bio_remove_logger: the farewell was sent, or the service is dead.
Remove(l) ==
    /\ queue' = [queue EXCEPT ![l] = IF Accepts(l) THEN Farewell(@) ELSE @]
    /\ loggers' = Unlink(l)
    /\ impl' = [impl EXCEPT ![l] = "freed"]
    /\ overlapped' = overlapped \cup Suspended

bio_remove_logger(c, l) ==
    /\ Running(c) /\ cpu = "loop" /\ pc[c] = "idle"
    /\ impl[l] = "open"
    /\ impl' = [impl EXCEPT ![l] = "closed"]
    /\ pc' = [pc EXCEPT ![c] = "remove"]
    /\ itr' = [itr EXCEPT ![c] = l]
    /\ cpu' = c
    /\ UNCHANGED <<main, loggers, min_level, svcVars, next, level, msg, formatted, num, overlapped>>

\* One round of its bio_notify_service: the client yields while the mailbox is full.
RemoveRound(c) ==
    /\ Running(c) /\ pc[c] = "remove"
    /\ cpu' = "loop"
    /\ IF Accepts(itr[c]) /\ Full(itr[c])
       THEN /\ cpu = c
            /\ UNCHANGED <<listVars, queue, pc, itr, overlapped>>
       ELSE /\ Remove(itr[c])
            /\ pc' = [pc EXCEPT ![c] = "idle"]
            /\ itr' = [itr EXCEPT ![c] = End]
            /\ UNCHANGED min_level
    /\ UNCHANGED <<main, svc, held, owed, next, level, msg, formatted, num>>
-----------------------------------------------------------------------------
(***************************************************************************)
(* Logging a message.                                                       *)
(***************************************************************************)
bio_vlog(c, lvl) ==
    /\ Running(c) /\ cpu = "loop" /\ pc[c] = "idle"
    /\ num < MaxMsgs
    /\ num' = num + 1
    /\ msg' = [msg EXCEPT ![c] = num + 1]
    /\ level' = [level EXCEPT ![c] = lvl]
    /\ pc' = [pc EXCEPT ![c] = "visit"]
    /\ itr' = [itr EXCEPT ![c] = First]
    /\ cpu' = c
    /\ UNCHANGED <<main, listVars, svcVars, next, formatted, overlapped>>

Returned(c) ==
    /\ cpu' = "loop"
    /\ pc' = [pc EXCEPT ![c] = "idle"]
    /\ itr' = [itr EXCEPT ![c] = End]
    /\ next' = [next EXCEPT ![c] = End]
    /\ level' = [level EXCEPT ![c] = 0]
    /\ msg' = [msg EXCEPT ![c] = Null]
    /\ formatted' = formatted \ {c}

\* The head of the loop and its tests, before the logger's mailbox.  The text is
\* formatted for the first logger that wants it; a format error ends bio_vlog.
Visit(c, formats) ==
    LET l == itr[c] IN
    /\ IF l = End THEN Returned(c)
       ELSE IF level[c] < min_level[l]
       THEN /\ itr' = [itr EXCEPT ![c] = After(l)]
            /\ UNCHANGED <<cpu, pc, next, level, msg, formatted>>
       ELSE IF c \notin formatted /\ ~formats THEN Returned(c)
       ELSE /\ formatted' = formatted \cup {c}
            /\ IF svc[l] = "dead"
               THEN itr' = [itr EXCEPT ![c] = After(l)] /\ UNCHANGED <<pc, next>>
               ELSE /\ pc' = [pc EXCEPT ![c] = "send"]
                    /\ next' = [next EXCEPT ![c] = After(l)]
                    /\ UNCHANGED itr
            /\ UNCHANGED <<cpu, level, msg>>
    /\ UNCHANGED <<main, listVars, svcVars, num, overlapped>>

\* The logger is read again in every round, and next was read before the first.
VisitStep(c) ==
    /\ Running(c) /\ cpu = c /\ pc[c] = "visit"
    /\ IF itr[c] # End /\ impl[itr[c]] = "freed" THEN Undefined
       ELSE \E formats \in BOOLEAN : Visit(c, formats)

\* One round of bio_notify_service: the client yields while the mailbox is full.
Send(c) ==
    LET l == itr[c] IN
    /\ IF Accepts(l) /\ Full(l)
       THEN /\ cpu = c
            /\ cpu' = "loop"
            /\ UNCHANGED <<queue, owed, pc, itr, next>>
       ELSE /\ queue' = [queue EXCEPT ![l] = IF Accepts(l) THEN Append(@, msg[c]) ELSE @]
            /\ owed' = [owed EXCEPT ![l] =
                           IF Accepts(l) /\ impl[l] = "open" THEN @ \cup {msg[c]} ELSE @]
            /\ cpu' = c
            /\ pc' = [pc EXCEPT ![c] = "visit"]
            /\ itr' = [itr EXCEPT ![c] = next[c]]
            /\ next' = [next EXCEPT ![c] = End]
    /\ UNCHANGED <<main, listVars, svc, held, level, msg, formatted, num, overlapped>>

SendStep(c) ==
    /\ Running(c) /\ pc[c] = "send"
    /\ IF impl[itr[c]] = "freed" THEN Undefined ELSE Send(c)
-----------------------------------------------------------------------------
(***************************************************************************)
(* The services, while bio_loop runs them.                                  *)
(***************************************************************************)
bio_log_service_entry(l) ==
    /\ cpu = "loop"
    /\ \/ /\ svc[l] = "spawned"
          /\ svc' = [svc EXCEPT ![l] = "recv"]
          /\ UNCHANGED <<queue, held>>
       \/ /\ svc[l] = "recv" /\ queue[l] # <<>>
          /\ IF Head(queue[l]) = Null
             THEN /\ svc' = [svc EXCEPT ![l] = "dead"]      \* log_fn(NULL): userdata is freed
                  /\ queue' = [queue EXCEPT ![l] = <<>>]    \* with what came after
                  /\ UNCHANGED held
             ELSE /\ svc' = [svc EXCEPT ![l] = "writing"]
                  /\ queue' = [queue EXCEPT ![l] = Tail(@)]
                  /\ held' = [held EXCEPT ![l] = Head(queue[l])]
    /\ UNCHANGED <<cpu, main, listVars, owed, clientVars, overlapped>>

\* The log function has written the message and the copy is freed.  Writing to a
\* file suspends the service, so that other coroutines run meanwhile.
bio_log_to_file(l) ==
    /\ cpu = "loop" /\ svc[l] = "writing"
    /\ svc' = [svc EXCEPT ![l] = "recv"]
    /\ owed' = [owed EXCEPT ![l] = @ \ {held[l]}]
    /\ held' = [held EXCEPT ![l] = Null]
    /\ UNCHANGED <<cpu, main, listVars, queue, clientVars, overlapped>>
-----------------------------------------------------------------------------
(***************************************************************************)
(* bio_terminate, after bio_loop has returned: outside every coroutine,     *)
(* where bio_yield does nothing.  bio_loop has returned when only daemons   *)
(* are left, wherever these are suspended.                                  *)
(***************************************************************************)
bio_terminate ==
    /\ main = "loop" /\ cpu = "loop"
    /\ \A c \in Client \ Daemon : pc[c] = "idle"
    /\ main' = "cleanup"
    /\ cpu' = "main"
    /\ UNCHANGED <<listVars, svcVars, clientVars, overlapped>>

\* Mutant: the loop removes one logger only.
CleanupOnce == Len(loggers) < 2

CleanupDone == loggers = <<>>

\* The loop of bio_logging_cleanup never ends on a logger that a daemon has begun to
\* remove: bio_remove_logger does nothing with its closed handle and leaves it first
\* in the list.  With a full mailbox, the loop of bio_notify_service never ends.
Stuck ==
    /\ main = "cleanup" /\ loggers # <<>>
    /\ impl[First] = "closed" \/ (Accepts(First) /\ Full(First))

bio_logging_cleanup ==
    /\ main = "cleanup"
    /\ IF CleanupDone
       THEN /\ main' = "drain"
            /\ cpu' = "loop"
            /\ UNCHANGED <<loggers, impl, queue, overlapped>>
       ELSE /\ ~Stuck
            /\ Remove(First)
            /\ UNCHANGED <<main, cpu>>
    /\ UNCHANGED <<min_level, svc, held, owed, clientVars>>

\* bio_loop runs until no coroutine is left, daemons included.
Drained ==
    /\ main = "drain"
    /\ \A c \in Client : pc[c] = "idle"
    /\ \A l \in Logger : svc[l] \in {"none", "dead"}
    /\ main' = "ended"
    /\ UNCHANGED <<cpu, listVars, svcVars, clientVars, overlapped>>
-----------------------------------------------------------------------------
bio_logging_init ==
    /\ cpu = "loop"
    /\ main = "loop"
    /\ loggers = <<>>
    /\ impl = [l \in Logger |-> "none"]
    /\ min_level = [l \in Logger |-> 0]
    /\ svc = [l \in Logger |-> "none"]
    /\ queue = [l \in Logger |-> <<>>]
    /\ held = [l \in Logger |-> Null]
    /\ pc = [c \in Client |-> "idle"]
    /\ itr = [c \in Client |-> End]
    /\ next = [c \in Client |-> End]
    /\ level = [c \in Client |-> 0]
    /\ msg = [c \in Client |-> Null]
    /\ formatted = {}
    /\ num = 0
    /\ owed = [l \in Logger |-> {}]
    /\ overlapped = {}

ClientStep(c) == Added(c) \/ RemoveRound(c) \/ VisitStep(c) \/ SendStep(c)

ServiceStep(l) == bio_log_service_entry(l) \/ bio_log_to_file(l)

MainStep == bio_logging_cleanup \/ Drained

Next ==
    \/ MainStep
    \/ bio_terminate
    \/ \E l \in Logger : ServiceStep(l)
    \/ \E c \in Client :
          \/ ClientStep(c)
          \/ \E lvl \in Level : bio_vlog(c, lvl)
          \/ \E l \in Logger :
                \/ bio_remove_logger(c, l)
                \/ \E lvl \in Level :
                      bio_add_logger(c, l, lvl) \/ bio_set_min_log_level(c, l, lvl)

Spec == bio_logging_init /\ [][Next]_vars

\* bio_loop runs every ready coroutine, writes to the log's file end, and
\* bio_terminate goes on.
FairSpec ==
    /\ Spec
    /\ WF_vars(MainStep)
    /\ \A c \in Client : WF_vars(ClientStep(c))
    /\ \A l \in Logger : WF_vars(ServiceStep(l))
-----------------------------------------------------------------------------
TypeOK ==
    /\ cpu \in Client \cup {"loop", "main", "undefined"}
    /\ main \in {"loop", "cleanup", "drain", "ended"}
    /\ loggers \in Seq(Logger)
    /\ impl \in [Logger -> {"none", "starting", "open", "closed", "freed"}]
    /\ min_level \in [Logger -> Level \cup {0}]
    /\ svc \in [Logger -> {"none", "spawned", "recv", "writing", "dead"}]
    /\ queue \in [Logger -> Seq(0 .. MaxMsgs)]
    /\ \A l \in Logger : Len(queue[l]) <= Capacity
    /\ held \in [Logger -> 0 .. MaxMsgs]
    /\ owed \in [Logger -> SUBSET (1 .. MaxMsgs)]
    /\ pc \in [Client -> {"idle", "adding", "remove", "visit", "send"}]
    /\ level \in [Client -> Level \cup {0}]
    /\ msg \in [Client -> 0 .. MaxMsgs]
    /\ formatted \subseteq Client
    /\ overlapped \subseteq Client
    /\ num \in 0 .. MaxMsgs
    /\ itr \in [Client -> Logger \cup {End}]
    /\ next \in [Client -> Logger \cup {End}]

\* A logger is only read after it was freed by a bio_vlog that was suspended on a
\* full mailbox while another coroutine removed a logger: everywhere else the list,
\* the handles and the services agree on which loggers exist.
DanglingOnlyOnOverlap ==
    cpu = "undefined" => \E c \in overlapped : pc[c] \in {"visit", "send"}

\* A message taken by a logger before its removal was asked for is written before
\* the log function is told to free its data.
TakenIsWritten == \A l \in Logger : svc[l] = "dead" => owed[l] = {}

\* A daemon adds a logger after bio_logging_cleanup, which has removed all it found.
Late == main = "drain" /\ \E c \in Client : pc[c] = "adding"

\* A logger whose removal was asked for ends, and bio_terminate returns, wherever
\* bio_loop left the daemons when it returned.  The exceptions: a full mailbox, or a
\* logger that a daemon has begun to remove, keeps bio_terminate in its loop; a logger
\* added after the clean-up keeps its bio_loop running; a logger was used after its end.
LoggingEnds ==
    /\ \A l \in Logger : impl[l] \in {"closed", "freed"}
          ~> svc[l] = "dead" \/ Stuck \/ cpu = "undefined"
    /\ main = "cleanup" ~> main = "ended" \/ Stuck \/ Late \/ cpu = "undefined"
=============================================================================
