------------------------------ MODULE TimerHeap -----------------------------
(***************************************************************************)
(* Delayed signals (src/src/timer.c): bio_raise_signal_after puts a signal  *)
(* in a binary heap ordered by due time, bio_timer_update raises those that *)
(* are due, and bio_time_until_next_timer tells bio_loop how long it may    *)
(* sleep.                                                                   *)
(*                                                                          *)
(* A step is one turn of a loop of these functions.  They do not suspend,   *)
(* so nothing but time comes between two turns.  now is the clock of the    *)
(* platform and current_time_ms the copy taken by bio_timer_update.  Heap   *)
(* positions start at 1.                                                    *)
(***************************************************************************)
EXTENDS Integers, Sequences

CONSTANTS
    Signal,        \* signals that may be delayed
    Delays,        \* delays passed to bio_raise_signal_after
    MaxTime        \* bound: time stops here

ASSUME DelaysAssumption == Delays \subseteq Int
ASSUME MaxTimeAssumption == MaxTime \in Nat

VARIABLES
    now,               \* bio_platform_current_time_ms
    current_time_ms,   \* bio_ctx.current_time_ms
    timer_entries,     \* the heap of bio_ctx
    heap_pc,           \* the loop that runs, or "idle"
    position,          \* current of the insertion, index of the deletion
    armed,             \* auxiliary: signals passed to bio_raise_signal_after
    raised             \* auxiliary: those that were raised

heapVars == <<now, current_time_ms, timer_entries, heap_pc, position, armed, raised>>

bio_timer_init ==
    /\ now = 0
    /\ current_time_ms = 0
    /\ timer_entries = <<>>
    /\ heap_pc = "idle"
    /\ position = 1
    /\ armed = {}
    /\ raised = {}

Tick ==
    /\ now < MaxTime
    /\ now' = now + 1
    /\ UNCHANGED <<current_time_ms, timer_entries, heap_pc, position, armed, raised>>
-----------------------------------------------------------------------------
bio_heap_parent(i) == i \div 2

\* bio_heap_swap, and position goes with the entry that was at i.
bio_heap_swap(i, j) ==
    /\ timer_entries' = [timer_entries EXCEPT ![i] = timer_entries[j], ![j] = timer_entries[i]]
    /\ position' = j

(***************************************************************************)
(* bio_raise_signal_after adds to the cached time.  The new entry is put    *)
(* last and rises while its parent is later.                                *)
(***************************************************************************)
bio_raise_signal_after(s, time_ms) ==
    /\ heap_pc = "idle"
    /\ s \notin armed
    /\ armed' = armed \cup {s}
    /\ IF time_ms > 0
       THEN /\ timer_entries' =
                   Append(timer_entries, [signal |-> s, due |-> current_time_ms + time_ms])
            /\ position' = Len(timer_entries) + 1
            /\ heap_pc' = "insert"
            /\ UNCHANGED raised
       ELSE /\ raised' = raised \cup {s}
            /\ UNCHANGED <<timer_entries, position, heap_pc>>
    /\ UNCHANGED <<now, current_time_ms>>

Rises ==
    /\ position > 1
    /\ timer_entries[bio_heap_parent(position)].due > timer_entries[position].due

SiftUp ==
    /\ heap_pc = "insert"
    /\ \/ /\ Rises
          /\ bio_heap_swap(position, bio_heap_parent(position))
          /\ UNCHANGED heap_pc
       \/ ~Rises /\ heap_pc' = "idle" /\ UNCHANGED <<timer_entries, position>>
    /\ UNCHANGED <<now, current_time_ms, armed, raised>>
-----------------------------------------------------------------------------
(***************************************************************************)
(* bio_timer_update raises the first entry while it is due.  The last one   *)
(* takes its place and sinks while a child is earlier.                      *)
(***************************************************************************)
bio_timer_update ==
    /\ heap_pc = "idle"
    /\ current_time_ms' = now
    /\ heap_pc' = "expire"
    /\ UNCHANGED <<now, timer_entries, position, armed, raised>>

\* Mutant: the count is lowered after the last entry is read.
WithoutLast ==
    [i \in 1 .. Len(timer_entries) - 1 |->
        timer_entries[IF i = 1 THEN Len(timer_entries) - 1 ELSE i]]

WithoutFirst ==
    [i \in 1 .. Len(timer_entries) - 1 |->
        timer_entries[IF i = 1 THEN Len(timer_entries) ELSE i]]

IsDue == timer_entries # <<>> /\ timer_entries[1].due <= current_time_ms

Expire ==
    /\ heap_pc = "expire"
    /\ \/ /\ IsDue
          /\ raised' = raised \cup {timer_entries[1].signal}
          /\ timer_entries' = WithoutFirst
          /\ position' = 1
          /\ heap_pc' = "delete"
       \/ ~IsDue /\ heap_pc' = "idle" /\ UNCHANGED <<timer_entries, position, raised>>
    /\ UNCHANGED <<now, current_time_ms, armed>>

Smaller(i, j) ==
    IF j <= Len(timer_entries) /\ timer_entries[j].due < timer_entries[i].due THEN j ELSE i

\* Mutant: the right child is never looked at.
SmallestLeft == Smaller(position, 2 * position)

Smallest == Smaller(Smaller(position, 2 * position), 2 * position + 1)

SiftDown ==
    /\ heap_pc = "delete"
    /\ \/ Smallest # position /\ bio_heap_swap(position, Smallest) /\ UNCHANGED heap_pc
       \/ Smallest = position /\ heap_pc' = "expire" /\ UNCHANGED <<timer_entries, position>>
    /\ UNCHANGED <<now, current_time_ms, armed, raised>>

\* What bio_loop may sleep.
bio_time_until_next_timer ==
    IF timer_entries = <<>> THEN -1
    ELSE IF timer_entries[1].due < now THEN 0
    ELSE timer_entries[1].due - now

HeapNext ==
    \/ Tick
    \/ \E s \in Signal, time_ms \in Delays : bio_raise_signal_after(s, time_ms)
    \/ SiftUp
    \/ bio_timer_update
    \/ Expire
    \/ SiftDown

HeapSpec == bio_timer_init /\ [][HeapNext]_heapVars
-----------------------------------------------------------------------------
HeapTypeOK ==
    /\ now \in Nat
    /\ current_time_ms \in Nat
    /\ timer_entries \in Seq([signal : Signal, due : Nat])
    /\ heap_pc \in {"idle", "insert", "expire", "delete"}
    /\ position \in Nat \ {0}
    /\ armed \subseteq Signal
    /\ raised \subseteq Signal

Entries == {timer_entries[i] : i \in DOMAIN timer_entries}

\* Whenever bio_loop asks, it is told to sleep exactly until the earliest signal is
\* due, in whatever order signals were inserted and expired: the swaps of
\* bio_raise_signal_after and bio_timer_update bring the minimum to the front.
SleepExact ==
    heap_pc = "idle" =>
        bio_time_until_next_timer =
            IF Entries = {} THEN -1
            ELSE LET first == CHOOSE e \in Entries : \A f \in Entries : e.due <= f.due
                 IN IF first.due < now THEN 0 ELSE first.due - now

\* No delayed signal is lost, doubled or raised while it is still in the heap, by
\* the swaps of the insertion and the deletion.
NothingLost ==
    /\ armed = raised \cup {e.signal : e \in Entries}
    /\ \A i, j \in DOMAIN timer_entries :
          timer_entries[i].signal = timer_entries[j].signal => i = j
    /\ \A e \in Entries : e.signal \notin raised
=============================================================================
