------------------------------ MODULE SpscQueue -----------------------------
(***************************************************************************)
(* The queue between the scheduler's thread and one worker thread           *)
(* (bio_spscq_t of src/src/thread.c): a ring with an atomic count, and a    *)
(* mutex and a condition variable for each end that may have to wait.       *)
(*                                                                          *)
(* One thread produces and one consumes.  A step is one atomic operation,   *)
(* one access to the ring, or one operation on a mutex or condition         *)
(* variable; a thread that is asleep in cnd_wait may also wake spuriously.  *)
(***************************************************************************)
EXTENDS Integers, Sequences

CONSTANTS
    Item,        \* what is queued
    Size,        \* queue->size
    IndexMod     \* the modulus of head and tail as unsigned int (2^32)

ASSUME SizeAssumption == Size \in Nat \ {0}
ASSUME IndexAssumption == IndexMod \in Nat \ {0} /\ IndexMod % Size = 0

VARIABLES
    count, head, tail, values,   \* bio_spscq_t
    producer, consumer,          \* where each thread is in its call
    wait,                        \* each thread's argument of that name
    item,                        \* what the producer produces, what the consumer read
    index,                       \* each thread's local copy of tail or head
    mtx,                         \* each mutex: who holds it
    last                         \* what bio_spscq_consume returned last

vars == <<count, head, tail, values, producer, consumer, wait, item, index, mtx, last>>

Thread == {"producer", "consumer"}

\* The names are those of the operation that comes next.
PC == {"idle", "load", "lock", "check", "sleep", "asleep", "relock", "unlock", "index",
       "access", "count", "raise_lock", "raise_signal", "raise_unlock"}

bio_spscq_init ==
    /\ count = 0
    /\ head = 0
    /\ tail = 0
    /\ values \in [0 .. Size - 1 -> Item]   \* not initialised

Init ==
    /\ bio_spscq_init
    /\ producer = "idle"
    /\ consumer = "idle"
    /\ wait = [t \in Thread |-> FALSE]
    /\ item \in [Thread -> Item]
    /\ index = [t \in Thread |-> 0]
    /\ mtx = [t \in Thread |-> "free"]
    /\ last \in Item

At(i) == i % Size

queueVars == <<count, head, tail, values>>
localVars == <<wait, item, index>>
-----------------------------------------------------------------------------
(***************************************************************************)
(* Waiting is the same at both ends.  mtx["producer"] and the condition     *)
(* variable with it are can_produce, which the producer waits on and the    *)
(* consumer raises; mtx["consumer"] is can_consume.                         *)
(***************************************************************************)
PcOf(t) == IF t = "producer" THEN producer ELSE consumer

Other(t) == IF t = "producer" THEN "consumer" ELSE "producer"

Goto(t, pc) ==
    IF t = "producer" THEN producer' = pc /\ UNCHANGED consumer
                      ELSE consumer' = pc /\ UNCHANGED producer

\* The state of the queue in which t cannot go on.
Blocked(t) == IF t = "producer" THEN count = Size ELSE count = 0

\* The first look at count takes no lock.
Load(t) ==
    /\ PcOf(t) = "load"
    /\ Goto(t, IF ~Blocked(t) THEN "index" ELSE IF wait[t] THEN "lock" ELSE "idle")
    /\ UNCHANGED <<queueVars, localVars, mtx, last>>

Lock(t) ==
    /\ PcOf(t) \in {"lock", "relock"}
    /\ mtx[t] = "free"
    /\ mtx' = [mtx EXCEPT ![t] = t]
    /\ Goto(t, "check")
    /\ UNCHANGED <<queueVars, localVars, last>>

\* The while condition reads count with the mutex held; the other thread may
\* change count before cnd_wait, but it cannot signal.
Check(t) ==
    /\ PcOf(t) = "check"
    /\ Goto(t, IF Blocked(t) THEN "sleep" ELSE "unlock")
    /\ UNCHANGED <<queueVars, localVars, mtx, last>>

\* cnd_wait releases the mutex and sleeps in one step.
CndWait(t) ==
    /\ PcOf(t) = "sleep"
    /\ mtx' = [mtx EXCEPT ![t] = "free"]
    /\ Goto(t, "asleep")
    /\ UNCHANGED <<queueVars, localVars, last>>

SpuriousWakeup(t) ==
    /\ PcOf(t) = "asleep"
    /\ Goto(t, "relock")
    /\ UNCHANGED <<queueVars, localVars, mtx, last>>

Unlock(t) ==
    /\ PcOf(t) = "unlock"
    /\ mtx' = [mtx EXCEPT ![t] = "free"]
    /\ Goto(t, "index")
    /\ UNCHANGED <<queueVars, localVars, last>>

\* bio_thread_signal_raise, on the condition variable of the other thread.
RaiseLock(t) ==
    /\ PcOf(t) = "raise_lock"
    /\ mtx[Other(t)] = "free"
    /\ mtx' = [mtx EXCEPT ![Other(t)] = t]
    /\ Goto(t, "raise_signal")
    /\ UNCHANGED <<queueVars, localVars, last>>

\* Mutant: the signal wakes nobody.
SignalNobody(t) ==
    /\ PcOf(t) = "raise_signal"
    /\ Goto(t, "raise_unlock")
    /\ UNCHANGED <<queueVars, localVars, mtx, last>>

RaiseSignal(t) ==
    /\ PcOf(t) = "raise_signal"
    /\ IF t = "producer"
       THEN /\ producer' = "raise_unlock"
            /\ consumer' = IF consumer = "asleep" THEN "relock" ELSE consumer
       ELSE /\ consumer' = "raise_unlock"
            /\ producer' = IF producer = "asleep" THEN "relock" ELSE producer
    /\ UNCHANGED <<queueVars, localVars, mtx, last>>

RaiseUnlock(t) ==
    /\ PcOf(t) = "raise_unlock"
    /\ mtx' = [mtx EXCEPT ![Other(t)] = "free"]
    /\ Goto(t, "idle")
    /\ UNCHANGED <<queueVars, localVars, last>>
-----------------------------------------------------------------------------
(***************************************************************************)
(* bio_spscq_produce                                                        *)
(***************************************************************************)
CallProduce(x, may_wait) ==
    /\ producer = "idle"
    /\ producer' = "load"
    /\ wait' = [wait EXCEPT !["producer"] = may_wait]
    /\ item' = [item EXCEPT !["producer"] = x]
    /\ UNCHANGED <<queueVars, consumer, index, mtx, last>>

\* Mutant: the index is taken after tail has moved.
IndexAfter ==
    /\ producer = "index"
    /\ index' = [index EXCEPT !["producer"] = (tail + 1) % IndexMod]
    /\ tail' = (tail + 1) % IndexMod
    /\ producer' = "access"
    /\ UNCHANGED <<count, head, values, consumer, wait, item, mtx, last>>

ProduceIndex ==
    /\ producer = "index"
    /\ index' = [index EXCEPT !["producer"] = tail]
    /\ tail' = (tail + 1) % IndexMod
    /\ producer' = "access"
    /\ UNCHANGED <<count, head, values, consumer, wait, item, mtx, last>>

ProduceAccess ==
    /\ producer = "access"
    /\ values' = [values EXCEPT ![At(index["producer"])] = item["producer"]]
    /\ producer' = "count"
    /\ UNCHANGED <<count, head, tail, consumer, localVars, mtx, last>>

\* Only the first item of an empty queue wakes the consumer.
ProduceCount ==
    /\ producer = "count"
    /\ count' = count + 1
    /\ producer' = IF count = 0 THEN "raise_lock" ELSE "idle"
    /\ UNCHANGED <<head, tail, values, consumer, localVars, mtx, last>>

(***************************************************************************)
(* bio_spscq_consume                                                        *)
(***************************************************************************)
CallConsume(may_wait) ==
    /\ consumer = "idle"
    /\ consumer' = "load"
    /\ wait' = [wait EXCEPT !["consumer"] = may_wait]
    /\ UNCHANGED <<queueVars, producer, item, index, mtx, last>>

ConsumeIndex ==
    /\ consumer = "index"
    /\ index' = [index EXCEPT !["consumer"] = head]
    /\ head' = (head + 1) % IndexMod
    /\ consumer' = "access"
    /\ UNCHANGED <<count, tail, values, producer, wait, item, mtx, last>>

ConsumeAccess ==
    /\ consumer = "access"
    /\ item' = [item EXCEPT !["consumer"] = values[At(index["consumer"])]]
    /\ consumer' = "count"
    /\ UNCHANGED <<queueVars, producer, wait, index, mtx, last>>

\* Mutant: a full queue is not seen to have become not full.
RaiseWhenEmptied == count = 1

\* Only the first slot of a full queue wakes the producer.
WasFull == count = Size

ConsumeCount ==
    /\ consumer = "count"
    /\ count' = count - 1
    /\ last' = item["consumer"]
    /\ consumer' = IF WasFull THEN "raise_lock" ELSE "idle"
    /\ UNCHANGED <<head, tail, values, producer, localVars, mtx>>
-----------------------------------------------------------------------------
Shared(t) ==
    \/ Load(t) \/ Lock(t) \/ Check(t) \/ CndWait(t) \/ Unlock(t)
    \/ RaiseLock(t) \/ RaiseSignal(t) \/ RaiseUnlock(t)

Produce == Shared("producer") \/ ProduceIndex \/ ProduceAccess \/ ProduceCount
Consume == Shared("consumer") \/ ConsumeIndex \/ ConsumeAccess \/ ConsumeCount

Next ==
    \/ \E x \in Item, may_wait \in BOOLEAN : CallProduce(x, may_wait)
    \/ \E may_wait \in BOOLEAN : CallConsume(may_wait)
    \/ Produce
    \/ Consume
    \/ \E t \in Thread : SpuriousWakeup(t)

Spec == Init /\ [][Next]_vars

\* The operating system runs both threads, and a mutex that is free again and
\* again is granted in the end (only spurious wakeups could take it for ever);
\* nothing is assumed of the callers.
FairSpec ==
    /\ Spec
    /\ WF_vars(Produce)
    /\ WF_vars(Consume)
    /\ \A t \in Thread : SF_vars(Lock(t)) /\ SF_vars(RaiseLock(t))
-----------------------------------------------------------------------------
TypeOK ==
    /\ count \in 0 .. Size
    /\ head \in 0 .. IndexMod - 1
    /\ tail \in 0 .. IndexMod - 1
    /\ values \in [0 .. Size - 1 -> Item]
    /\ producer \in PC
    /\ consumer \in PC
    /\ wait \in [Thread -> BOOLEAN]
    /\ item \in [Thread -> Item]
    /\ index \in [Thread -> 0 .. IndexMod - 1]
    /\ mtx \in [Thread -> Thread \cup {"free"}]
    /\ last \in Item

(***************************************************************************)
(* A thread asleep on a queue that no longer blocks it will be woken: the   *)
(* other thread is on its way through bio_thread_signal_raise.  So testing  *)
(* count without the lock, and signalling only on the change from empty or  *)
(* from full, loses no wakeup.                                              *)
(***************************************************************************)
NoLostWakeup ==
    \A t \in Thread :
        PcOf(t) = "asleep" /\ ~Blocked(t) => PcOf(Other(t)) \in {"raise_lock", "raise_signal"}

(***************************************************************************)
(* The queue implements a bounded FIFO: the items counted, from the first   *)
(* one whose slot the consumer has not given back.                          *)
(***************************************************************************)
First == IF consumer \in {"access", "count"} THEN index["consumer"] ELSE head

Contents == [i \in 1 .. count |-> values[At(First + i - 1)]]

Fifo == INSTANCE BoundedFifo
    WITH Msg <- Item, Capacity <- Size, queue <- Contents, open <- TRUE, last <- last

\* At the grain of single atomic operations, bio_spscq_produce and
\* bio_spscq_consume put items in and take them out in order, each once; an item
\* is never read from a slot before it is written or after it is overwritten.
ImplementsFifo == Fifo!Spec

\* A call returns once the queue does not block it, whether the caller sleeps, is
\* about to, or is waking the other end.
CallReturns == \A t \in Thread : PcOf(t) # "idle" /\ ~Blocked(t) ~> PcOf(t) = "idle"
=============================================================================
