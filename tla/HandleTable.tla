----------------------------- MODULE HandleTable ----------------------------
(***************************************************************************)
(* The handle table of src/src/handle.c: an array of slots that doubles     *)
(* when it is full, a free list threaded through the unused slots, and a    *)
(* generation number per slot that makes the handles of closed objects      *)
(* stale.  Every coroutine, signal, monitor, mailbox, timer, file and       *)
(* socket of bio is reached through this table.                             *)
(*                                                                          *)
(* issued, bound and free are auxiliary: they record what the program was   *)
(* given and decide nothing.                                                *)
(***************************************************************************)
EXTENDS Integers, Sequences, FiniteSets

CONSTANTS
    Obj,               \* the objects handles are made for
    Tag,               \* the tags (bio_tag_t) that type them
    NULL,              \* the C null pointer
    InitialCapacity,   \* BIO_INITIAL_HANDLE_CAPACITY
    MaxCapacity,       \* bound: the table is not grown past it
    MaxGen             \* bound: no slot is closed more often (INT32_MAX in C)

ASSUME CapacityAssumption == 
    /\ InitialCapacity \in Nat \ {0}
    /\ MaxCapacity \in Nat
    /\ InitialCapacity <= MaxCapacity
ASSUME GenAssumption == MaxGen \in Nat
ASSUME NullAssumption == NULL \notin Obj /\ NULL \notin Tag

VARIABLES
    slots,             \* bio_ctx.handle_slots
    handle_capacity,   \* bio_ctx.handle_capacity
    next_handle_slot,  \* bio_ctx.next_handle_slot, the head of the free list
    num_handles,       \* bio_ctx.num_handles
    issued,            \* auxiliary: every handle bio_make_handle has returned
    bound,             \* auxiliary: each handle not yet closed -> its object and tag
    free               \* auxiliary: the free list, its head last

vars == <<slots, handle_capacity, next_handle_slot, num_handles, issued,
          bound, free>>

Handle == [index : 1 .. MaxCapacity, gen : 0 .. MaxGen]

InvalidHandle == [index |-> 0, gen |-> 0]

\* bio_handle_slot_t
Slot == [gen : 0 .. MaxGen, tag : Tag \cup {NULL}, obj : Obj \cup {NULL}, next : Nat]

(***************************************************************************)
(* Growing: the new slots are chained in index order and the last one       *)
(* points one past the end of the table.                                    *)
(***************************************************************************)
\* Mutant: the chain of new slots skips one.
FreshSlotSkips(i) == [gen |-> 0, tag |-> NULL, obj |-> NULL, next |-> i + 2]

FreshSlot(i) == [gen |-> 0, tag |-> NULL, obj |-> NULL, next |-> i + 1]

GrownSlots(old, new_capacity) ==
    [i \in 0 .. new_capacity - 1 |->
        IF i \in DOMAIN old THEN old[i] ELSE FreshSlot(i)]

\* The chain of the slots old_capacity .. new_capacity - 1, its head last.
FreshChain(old_capacity, new_capacity) ==
    [i \in 1 .. new_capacity - old_capacity |-> new_capacity - i]

bio_handle_table_init ==
    /\ slots = GrownSlots(<<>>, InitialCapacity)
    /\ handle_capacity = InitialCapacity
    /\ next_handle_slot = 0
    /\ num_handles = 0
    /\ issued = {}
    /\ bound = [h \in {} |-> [obj |-> NULL, tag |-> NULL]]
    /\ free = FreshChain(0, InitialCapacity)

\* Take the slot at the head of the free list of a table.
TakeSlot(table, capacity, head, chain, obj, tag) ==
    /\ slots' = [table EXCEPT ![head] = [@ EXCEPT !.obj = obj, !.tag = tag]]
    /\ handle_capacity' = capacity
    /\ next_handle_slot' = table[head].next
    /\ num_handles' = num_handles + 1
    /\ LET h == [index |-> head + 1, gen |-> table[head].gen] IN
          /\ issued' = issued \cup {h}
          /\ bound' = [g \in DOMAIN bound \cup {h} |->
                          IF g = h THEN [obj |-> obj, tag |-> tag] ELSE bound[g]]
    /\ free' = SubSeq(chain, 1, Len(chain) - 1)

bio_make_handle(obj, tag) ==
    \/ /\ num_handles < handle_capacity
       /\ TakeSlot(slots, handle_capacity, next_handle_slot, free, obj, tag)
    \/ /\ num_handles >= handle_capacity
       /\ 2 * handle_capacity <= MaxCapacity
       /\ TakeSlot(GrownSlots(slots, 2 * handle_capacity), 2 * handle_capacity,
                   handle_capacity, FreshChain(handle_capacity, 2 * handle_capacity),
                   obj, tag)

(***************************************************************************)
(* The three operations that take a handle look it up the same way.         *)
(***************************************************************************)
InTable(h) == h.index >= 1 /\ h.index - 1 < handle_capacity

SlotOf(h) == slots[h.index - 1]

bio_resolve_handle(h, tag) ==
    IF InTable(h) /\ SlotOf(h).gen = h.gen /\ SlotOf(h).tag = tag
    THEN SlotOf(h).obj
    ELSE NULL

bio_handle_info(h) ==
    IF InTable(h) /\ SlotOf(h).gen = h.gen THEN SlotOf(h).tag ELSE NULL

\* Mutant: the generation stays.
KeepsGen(slot) == [slot EXCEPT !.next = next_handle_slot]

\* Mutant: the slot is not linked to the rest of the free list.
KeepsLink(slot) == [slot EXCEPT !.gen = @ + 1]

\* A closed slot goes to the head of the free list; its object and tag stay.
Released(slot) == [slot EXCEPT !.gen = @ + 1, !.next = next_handle_slot]

CountAfterClose == num_handles - 1

CanClose(h, tag) == InTable(h) /\ SlotOf(h).gen = h.gen /\ SlotOf(h).tag = tag

\* A stale handle, the zero handle or another tag is ignored.
bio_close_handle(h, tag) ==
    \/ /\ CanClose(h, tag)
       /\ SlotOf(h).gen < MaxGen
       /\ slots' = [slots EXCEPT ![h.index - 1] = Released(@)]
       /\ next_handle_slot' = h.index - 1
       /\ num_handles' = CountAfterClose
       /\ bound' = [g \in DOMAIN bound \ {h} |-> bound[g]]
       /\ free' = Append(free, h.index - 1)
       /\ UNCHANGED <<handle_capacity, issued>>
    \/ /\ ~CanClose(h, tag)
       /\ UNCHANGED vars

\* The program only holds handles the table gave it, and the zero handle.
Held == issued \cup {InvalidHandle}

Next ==
    \/ \E obj \in Obj, tag \in Tag : bio_make_handle(obj, tag)
    \/ \E h \in Held, tag \in Tag : bio_close_handle(h, tag)

Spec == bio_handle_table_init /\ [][Next]_vars
-----------------------------------------------------------------------------
(***************************************************************************)
(* Properties                                                               *)
(***************************************************************************)
TypeOK ==
    /\ handle_capacity \in 1 .. MaxCapacity
    /\ slots \in [0 .. handle_capacity - 1 -> Slot]
    /\ next_handle_slot \in 0 .. handle_capacity
    /\ num_handles \in 0 .. handle_capacity
    /\ issued \subseteq {h \in Handle : h.index <= handle_capacity}
    /\ DOMAIN bound \subseteq issued
    /\ \A h \in DOMAIN bound : bound[h] \in [obj : Obj, tag : Tag]
    /\ free \in Seq(0 .. handle_capacity - 1)

LiveSlots == {h.index - 1 : h \in DOMAIN bound}

FreeSlots == {free[i] : i \in 1 .. Len(free)}

\* The links of the C structure spell the auxiliary sequence.
FreeListLinks ==
    /\ Len(free) = 0 => next_handle_slot = handle_capacity
    /\ Len(free) > 0 => next_handle_slot = free[Len(free)]
    /\ \A i \in 1 .. Len(free) :
          /\ i = 1 => slots[free[i]].next = handle_capacity
          /\ i > 1 => slots[free[i]].next = free[i - 1]

(***************************************************************************)
(* Following next_handle_slot from the head visits every unused slot once   *)
(* and ends one past the table, whatever the order of closes and growths;   *)
(* so bio_make_handle never takes a slot in use and never indexes past the  *)
(* array.                                                                   *)
(***************************************************************************)
FreeListExact ==
    /\ FreeListLinks
    /\ \A i, j \in 1 .. Len(free) : free[i] = free[j] => i = j
    /\ FreeSlots = (0 .. handle_capacity - 1) \ LiveSlots

\* num_handles, which alone decides when the table grows, is the number of open
\* handles, and the free list is empty exactly when bio_make_handle grows it.
CountExact ==
    /\ IsFiniteSet(DOMAIN bound)
    /\ num_handles = Cardinality(DOMAIN bound)
    /\ num_handles + Len(free) = handle_capacity

(***************************************************************************)
(* A handle resolves to the object it was made for until it is closed, and  *)
(* to NULL ever after, also when its slot is reused by bio_make_handle or   *)
(* moved by a growth; no two open handles share a slot; and the zero handle *)
(* resolves to nothing (bio_resolve_handle, bio_handle_info).               *)
(***************************************************************************)
ResolveExact ==
    \A h \in Held :
        /\ \A tag \in Tag :
              bio_resolve_handle(h, tag) =
                  IF h \in DOMAIN bound /\ bound[h].tag = tag
                  THEN bound[h].obj ELSE NULL
        /\ bio_handle_info(h) = IF h \in DOMAIN bound THEN bound[h].tag ELSE NULL

Abstract == INSTANCE HandleSpec WITH used <- issued

\* Every behaviour of the slots, generations and free list of handle.c is one
\* of HandleSpec: bio_make_handle returns a handle never returned before, and
\* bio_close_handle closes that one object only, with its own tag only.
ImplementsHandleSpec == Abstract!Spec
=============================================================================
