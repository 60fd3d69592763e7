------------------------------- MODULE Mailbox ------------------------------
(***************************************************************************)
(* One mailbox of src/src/mailbox.c and the coroutines that use it: a ring  *)
(* addressed by two free-running 32-bit counters, and one signal for one    *)
(* waiting receiver.                                                        *)
(*                                                                          *)
(* A receiver is idle, waiting (suspended on the signal), or woken (its     *)
(* signal was raised, bio_loop has not resumed it yet).  Any other          *)
(* coroutine may run between the raise and the resumption, so the order of  *)
(* resumption is left open.                                                 *)
(***************************************************************************)
EXTENDS Integers, Sequences

CONSTANTS
    Sender, Receiver, \* coroutines that send and receive
    Msg,              \* messages
    Capacity,         \* capacity after bio_next_pow2
    CounterMod,       \* 2^32, the modulus of read and write
    None              \* no receiver; no message

ASSUME CapacityAssumption == Capacity \in Nat \ {0}
ASSUME CounterAssumption ==
    /\ CounterMod \in Nat
    /\ CounterMod > Capacity
    /\ CounterMod % Capacity = 0
ASSUME NoneAssumption == None \notin Receiver /\ None \notin Msg

VARIABLES
    open,             \* the handle resolves
    read, write,      \* the counters of bio_mailbox_t
    data,             \* its ring
    signal,           \* the receiver whose signal it holds, or None
    recv_state,       \* of each receiver
    ret,              \* what bio__mailbox_recv last returned to each receiver
    sending,          \* the message each sender retries, or None
    received          \* the message received last

mailboxVars ==
    <<open, read, write, data, signal, recv_state, ret, sending, received>>

\* ++ in uint32_t.
Incremented(v) == (v + 1) % CounterMod

bio_queue_index(vindex) == vindex % Capacity

\* write - read in uint32_t.
NumMessages == (write - read) % CounterMod

bio__mailbox_open ==
    /\ open = TRUE
    /\ read = 0
    /\ write = 0
    /\ data \in [0 .. Capacity - 1 -> Msg]   \* not initialised
    /\ signal = None

MailboxInit ==
    /\ bio__mailbox_open
    /\ recv_state = [r \in Receiver |-> "idle"]
    /\ ret = [r \in Receiver |-> "none"]
    /\ sending = [x \in Sender |-> None]
    /\ received \in Msg

bio__mailbox_can_recv == open /\ read # write

bio__mailbox_can_send == open /\ NumMessages < Capacity

\* Mutant: the signal is not raised.
WakesNobody == UNCHANGED recv_state

WakeReceiver ==
    recv_state' = IF signal = None THEN recv_state
                  ELSE [recv_state EXCEPT ![signal] = "woken"]

bio__mailbox_close ==
    /\ open
    /\ open' = FALSE
    /\ WakeReceiver
    /\ UNCHANGED <<read, write, data, signal, ret, sending, received>>

\* Mutant: the raised signal is not forgotten.
SignalKept == signal

\* mailbox->signal.handle = BIO_INVALID_HANDLE
SignalCleared == None

bio__mailbox_send(m) ==
    /\ bio__mailbox_can_send
    /\ write' = Incremented(write)
    /\ data' = [data EXCEPT ![bio_queue_index(write)] = m]
    /\ WakeReceiver
    /\ signal' = SignalCleared

(***************************************************************************)
(* bio_wait_and_send_message: try, and yield while the mailbox is full and  *)
(* open; the caller's condition may also end it.                            *)
(***************************************************************************)
StartSend(x, m) ==
    /\ sending[x] = None
    /\ sending' = [sending EXCEPT ![x] = m]
    /\ UNCHANGED <<open, read, write, data, signal, recv_state, ret, received>>

TrySend(x) ==
    /\ sending[x] # None
    /\ bio__mailbox_send(sending[x])
    /\ sending' = [sending EXCEPT ![x] = None]
    /\ UNCHANGED <<open, read, ret, received>>

StopSending(x) ==
    /\ sending[x] # None
    /\ sending' = [sending EXCEPT ![x] = None]
    /\ UNCHANGED <<open, read, write, data, signal, recv_state, ret, received>>

(***************************************************************************)
(* bio__mailbox_recv, up to its wait and after it.                          *)
(***************************************************************************)
Return(r, result) ==
    /\ ret' = [ret EXCEPT ![r] = result]
    /\ recv_state' = [recv_state EXCEPT ![r] = "idle"]

\* Mutant: the counter is advanced before the message is copied.
DequeueNext ==
    /\ read' = Incremented(read)
    /\ received' = data[bio_queue_index(Incremented(read))]

Dequeue ==
    /\ read' = Incremented(read)
    /\ received' = data[bio_queue_index(read)]

bio__mailbox_recv(r) ==
    /\ recv_state[r] = "idle"
    /\ \/ bio__mailbox_can_recv /\ Dequeue /\ Return(r, "true") /\ UNCHANGED signal
       \/ /\ open /\ read = write /\ signal = None
          /\ signal' = r
          /\ recv_state' = [recv_state EXCEPT ![r] = "waiting"]
          /\ ret' = [ret EXCEPT ![r] = "none"]
          /\ UNCHANGED <<read, received>>
       \/ /\ ~open \/ (read = write /\ signal # None)
          /\ Return(r, "false")
          /\ UNCHANGED <<read, received, signal>>
    /\ UNCHANGED <<open, write, data, sending>>

\* After the wait the mailbox is resolved again: it may be closed, or another
\* receiver may have emptied it.
RecvResumed(r) ==
    /\ recv_state[r] = "woken"
    /\ \/ bio__mailbox_can_recv /\ Dequeue /\ Return(r, "true")
       \/ ~bio__mailbox_can_recv /\ Return(r, "false") /\ UNCHANGED <<read, received>>
    /\ UNCHANGED <<open, write, data, signal, sending>>

Receive(r) == bio__mailbox_recv(r) \/ RecvResumed(r)

MailboxNext ==
    \/ \E x \in Sender, m \in Msg : StartSend(x, m)
    \/ \E x \in Sender : TrySend(x) \/ StopSending(x)
    \/ \E r \in Receiver : Receive(r)
    \/ bio__mailbox_close

MailboxSpec == MailboxInit /\ [][MailboxNext]_mailboxVars

\* A woken receiver is resumed (Scheduler: RaisedRuns), and receivers receive in
\* a loop as bio_foreach_message does.
MailboxFairSpec == MailboxSpec /\ \A r \in Receiver : WF_mailboxVars(Receive(r))
-----------------------------------------------------------------------------
MailboxTypeOK ==
    /\ open \in BOOLEAN
    /\ read \in 0 .. CounterMod - 1
    /\ write \in 0 .. CounterMod - 1
    /\ data \in [0 .. Capacity - 1 -> Msg]
    /\ signal \in Receiver \cup {None}
    /\ recv_state \in [Receiver -> {"idle", "waiting", "woken"}]
    /\ ret \in [Receiver -> {"none", "true", "false"}]
    /\ sending \in [Sender -> Msg \cup {None}]
    /\ received \in Msg

(***************************************************************************)
(* The ring and its counters implement a bounded FIFO queue.                *)
(***************************************************************************)
Messages ==
    IF open THEN [i \in 1 .. NumMessages |-> data[bio_queue_index(read + i - 1)]] ELSE <<>>

MailboxFifo == INSTANCE BoundedFifo WITH queue <- Messages, last <- received

\* Every send, receive and close of mailbox.c, in any interleaving of senders
\* and receivers and across the wrap of the counters, is a step of the queue:
\* nothing is lost, duplicated, reordered or corrupted.
MailboxIsFifo == MailboxFifo!Spec

\* The message at the head of the ring is eventually received, or the mailbox
\* is closed: no wakeup is lost between bio__mailbox_send and bio__mailbox_recv.
HeadReceived ==
    \A k \in 0 .. CounterMod - 1 : read = k /\ read # write ~> read # k \/ ~open

\* bio__mailbox_recv fails, and so ends bio_foreach_message, only on a mailbox
\* that is closed, unless a second receiver waits there or took the message: one
\* receiver alone is never refused, nor woken for nothing.
FalseJustified ==
    [][\A r \in Receiver : ret[r] # "false" /\ ret'[r] = "false" =>
          \/ ~open
          \/ \E q \in Receiver \ {r} : recv_state[q] # "idle" \/ ret[q] = "true"]_mailboxVars
=============================================================================
