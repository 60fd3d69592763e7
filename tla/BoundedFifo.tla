----------------------------- MODULE BoundedFifo ----------------------------
(***************************************************************************)
(* What a mailbox promises (mailbox.h): messages come out in the order they *)
(* went in, each once and unchanged, never more than Capacity are held, and *)
(* closing discards what is left.                                           *)
(***************************************************************************)
EXTENDS Sequences, Naturals

CONSTANTS Msg, Capacity

VARIABLES
    queue,   \* the messages held
    open,
    last     \* the message that was received last

Init == queue = <<>> /\ open = TRUE /\ last \in Msg

Send(m) ==
    /\ open
    /\ Len(queue) < Capacity
    /\ queue' = Append(queue, m)
    /\ UNCHANGED <<open, last>>

Recv ==
    /\ open
    /\ queue # <<>>
    /\ last' = Head(queue)
    /\ queue' = Tail(queue)
    /\ UNCHANGED open

Close ==
    /\ open
    /\ open' = FALSE
    /\ queue' = <<>>
    /\ UNCHANGED last

Next == (\E m \in Msg : Send(m)) \/ Recv \/ Close

Spec == Init /\ [][Next]_<<queue, open, last>>
=============================================================================
