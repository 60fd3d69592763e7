-------------------------- MODULE HandleTableProofs -------------------------
(***************************************************************************)
(* For every initial capacity, every bound on growth and on generations,    *)
(* and any sets of objects and tags: the handle table keeps its free list,  *)
(* its count and its answers exact, and implements HandleSpec.              *)
(***************************************************************************)
EXTENDS HandleTable, FiniteSetTheorems, SequenceTheorems, TLAPS

(***************************************************************************)
(* The inductive invariant.  Generations is what makes a reused slot safe:  *)
(* a handle that left the table never has a generation its slot will have   *)
(* again, so the handle made from a free slot is new.                       *)
(***************************************************************************)
Generations ==
    \A h \in issued :
        /\ h.gen <= SlotOf(h).gen
        /\ h \in DOMAIN bound <=> h.gen = SlotOf(h).gen
        /\ h \in DOMAIN bound =>
              bound[h] = [obj |-> SlotOf(h).obj, tag |-> SlotOf(h).tag]

BoundIsFunction == bound = [h \in DOMAIN bound |-> bound[h]]

IInv == TypeOK /\ FreeListExact /\ CountExact /\ Generations /\ BoundIsFunction

\* A table whose free list has a slot gives out that slot: everything a call of
\* bio_make_handle does once the table is large enough.
TableOK(table, capacity, head, chain) ==
    /\ capacity \in 1 .. MaxCapacity
    /\ table \in [0 .. capacity - 1 -> Slot]
    /\ chain \in Seq(0 .. capacity - 1)
    /\ Len(chain) > 0
    /\ head = chain[Len(chain)]
    /\ \A i \in 1 .. Len(chain) :
          /\ i = 1 => table[chain[i]].next = capacity
          /\ i > 1 => table[chain[i]].next = chain[i - 1]
    /\ \A i, j \in 1 .. Len(chain) : chain[i] = chain[j] => i = j
    /\ {chain[i] : i \in 1 .. Len(chain)} = (0 .. capacity - 1) \ LiveSlots
    /\ num_handles + Len(chain) = capacity
    /\ \A h \in issued :
          /\ h \in Handle
          /\ h.index <= capacity
          /\ h.gen <= table[h.index - 1].gen
          /\ h \in DOMAIN bound <=> h.gen = table[h.index - 1].gen
          /\ h \in DOMAIN bound =>
                bound[h] = [obj |-> table[h.index - 1].obj, tag |-> table[h.index - 1].tag]

\* The slot taken belongs to no open handle, and its handle is new.
LEMMA TakenSlotIsNew ==
    ASSUME TypeOK,
           NEW table, NEW capacity, NEW head, NEW chain,
           TableOK(table, capacity, head, chain)
    PROVE  /\ head \in 0 .. capacity - 1
           /\ head \notin LiveSlots
           /\ [index |-> head + 1, gen |-> table[head].gen] \in Handle
           /\ [index |-> head + 1, gen |-> table[head].gen] \notin issued
<1>1. head \in 0 .. capacity - 1 /\ head \notin LiveSlots
  BY DEF TableOK
<1>2. table[head] \in Slot /\ capacity \in 1 .. MaxCapacity
  BY <1>1 DEF TableOK
<1>3. [index |-> head + 1, gen |-> table[head].gen] \in Handle
  BY <1>1, <1>2, CapacityAssumption DEF Handle, Slot
<1>4. ASSUME [index |-> head + 1, gen |-> table[head].gen] \in issued
      PROVE  FALSE
  <2> DEFINE h == [index |-> head + 1, gen |-> table[head].gen]
  <2>1. h.index - 1 = head /\ h.gen = table[h.index - 1].gen
    BY <1>1
  <2>2. h \in DOMAIN bound
    BY <1>4, <2>1 DEF TableOK
  <2>3. head \in LiveSlots
    BY <2>1, <2>2 DEF LiveSlots
  <2> QED BY <1>1, <2>3
<1> QED BY <1>1, <1>3, <1>4

\* Giving out the head of the free list of such a table restores the invariant.
LEMMA TakeSlotKeepsInvariant ==
    ASSUME IInv,
           NEW table, NEW capacity, NEW head, NEW chain,
           NEW obj \in Obj, NEW tag \in Tag,
           TableOK(table, capacity, head, chain),
           TakeSlot(table, capacity, head, chain, obj, tag)
    PROVE  IInv'
<1> DEFINE h == [index |-> head + 1, gen |-> table[head].gen]
           rest == Len(chain) - 1
<1>0. /\ TypeOK
      /\ capacity \in 1 .. MaxCapacity
      /\ MaxCapacity \in Nat
      /\ table \in [0 .. capacity - 1 -> Slot]
      /\ chain \in Seq(0 .. capacity - 1)
      /\ rest \in Nat /\ Len(chain) = rest + 1
      /\ head = chain[rest + 1]
      /\ num_handles + rest + 1 = capacity
      /\ num_handles \in Nat
  BY CapacityAssumption DEF IInv, TypeOK, TableOK
<1>1. /\ head \in 0 .. capacity - 1
      /\ head \notin LiveSlots
      /\ h \in Handle
      /\ h \notin issued
  BY <1>0, TakenSlotIsNew
<1>2. /\ slots' = [table EXCEPT ![head] = [@ EXCEPT !.obj = obj, !.tag = tag]]
      /\ handle_capacity' = capacity
      /\ next_handle_slot' = table[head].next
      /\ num_handles' = num_handles + 1
      /\ issued' = issued \cup {h}
      /\ bound' = [g \in DOMAIN bound \cup {h} |->
                      IF g = h THEN [obj |-> obj, tag |-> tag] ELSE bound[g]]
      /\ free' = SubSeq(chain, 1, rest)
  BY DEF TakeSlot
<1>a. /\ \A i \in 1 .. rest + 1 :
            /\ i = 1 => table[chain[i]].next = capacity
            /\ i > 1 => table[chain[i]].next = chain[i - 1]
      /\ \A i, j \in 1 .. rest + 1 : chain[i] = chain[j] => i = j
  BY <1>0 DEF TableOK
<1> HIDE DEF rest
<1>3. /\ \A i \in 0 .. capacity - 1 :
            /\ slots'[i].gen = table[i].gen
            /\ slots'[i].next = table[i].next
            /\ i # head => slots'[i] = table[i]
      /\ slots'[head].obj = obj /\ slots'[head].tag = tag
      /\ slots' \in [0 .. capacity - 1 -> Slot]
  <2>1. table[head] \in Slot
    BY <1>0, <1>1
  <2>2. slots'[head] = [table[head] EXCEPT !.obj = obj, !.tag = tag]
    BY <1>0, <1>1, <1>2
  <2>3. /\ slots'[head] \in Slot
        /\ slots'[head].gen = table[head].gen
        /\ slots'[head].next = table[head].next
        /\ slots'[head].obj = obj /\ slots'[head].tag = tag
    BY <2>1, <2>2 DEF Slot
  <2>4. \A i \in 0 .. capacity - 1 : i # head => slots'[i] = table[i]
    BY <1>0, <1>1, <1>2
  <2>5. slots' \in [0 .. capacity - 1 -> Slot]
    BY <1>0, <1>1, <1>2, <2>2, <2>3
  <2> QED BY <2>3, <2>4, <2>5
<1>4. /\ free' \in Seq(0 .. capacity - 1)
      /\ Len(free') = rest
      /\ \A i \in 1 .. rest : free'[i] = chain[i]
  <2>1. \A i \in 1 .. rest : chain[i] \in 0 .. capacity - 1
    BY <1>0
  <2>2. /\ SubSeq(chain, 1, rest) \in Seq(0 .. capacity - 1)
        /\ Len(SubSeq(chain, 1, rest)) = IF 1 <= rest THEN rest - 1 + 1 ELSE 0
        /\ \A i \in 1 .. rest - 1 + 1 : SubSeq(chain, 1, rest)[i] = chain[1 + i - 1]
    BY <2>1, <1>0, SubSeqProperties
  <2>3. \A i \in 1 .. rest : 1 + i - 1 = i /\ i \in 1 .. rest - 1 + 1
    BY <1>0
  <2>4. Len(SubSeq(chain, 1, rest)) = rest
    BY <1>0, <2>2
  <2>5. \A i \in 1 .. rest : SubSeq(chain, 1, rest)[i] = chain[i]
    BY <2>2, <2>3
  <2> QED BY <1>2, <2>2, <2>4, <2>5
<1>5. /\ rest = 0 => next_handle_slot' = capacity
      /\ rest > 0 => next_handle_slot' = chain[rest]
  <2>1. rest + 1 \in 1 .. Len(chain)
    BY <1>0
  <2>2. /\ rest + 1 = 1 => table[chain[rest + 1]].next = capacity
        /\ rest + 1 > 1 => table[chain[rest + 1]].next = chain[rest + 1 - 1]
    BY <1>0, <1>a, <2>1
  <2>3. rest + 1 - 1 = rest /\ (rest = 0 <=> rest + 1 = 1) /\ (rest > 0 <=> rest + 1 > 1)
    BY <1>0
  <2>4. table[head].next = table[chain[rest + 1]].next
    BY <1>0
  <2> QED BY <1>2, <2>2, <2>3, <2>4
<1>6. next_handle_slot' \in 0 .. capacity
  <2>1. CASE rest = 0
    BY <2>1, <1>0, <1>5
  <2>2. CASE rest # 0
    <3>1. chain[rest] \in 0 .. capacity - 1
      BY <2>2, <1>0
    <3> QED BY <2>2, <3>1, <1>0, <1>5
  <2> QED BY <2>1, <2>2
<1>7. DOMAIN bound \subseteq issued
  BY <1>0 DEF TypeOK
<1>8. DOMAIN bound' = DOMAIN bound \cup {h} /\ h \notin DOMAIN bound
  BY <1>1, <1>2, <1>7
<1>9. \A g \in issued : g \in Handle /\ g.index <= capacity
  BY DEF TableOK
<1>10. TypeOK'
  <2>1. issued' \subseteq {g \in Handle : g.index <= capacity}
    BY <1>0, <1>1, <1>2, <1>9, SMTT(20)
  <2>2. \A g \in DOMAIN bound' : bound'[g] \in [obj : Obj, tag : Tag]
    BY <1>0, <1>2, <1>8 DEF TypeOK
  <2>3. DOMAIN bound' \subseteq issued'
    BY <1>2, <1>7, <1>8
  <2>4. num_handles' \in 0 .. capacity
    BY <1>0, <1>2, SMTT(20)
  <2> QED BY <1>0, <1>2, <1>3, <1>4, <1>6, <2>1, <2>2, <2>3, <2>4 DEF TypeOK
<1>11. LiveSlots' = LiveSlots \cup {head}
  <2>1. h.index - 1 = head
    BY <1>1
  <2> QED BY <1>8, <2>1 DEF LiveSlots
<1>12. FreeListExact'
  <2>1. \A i, j \in 1 .. Len(free') : free'[i] = free'[j] => i = j
    BY <1>0, <1>4, <1>a
  <2>2. FreeSlots' = (0 .. capacity - 1) \ LiveSlots'
    <3>1. {chain[i] : i \in 1 .. rest + 1} = (0 .. capacity - 1) \ LiveSlots
      BY <1>0 DEF TableOK
    <3>2. \A i \in 1 .. rest : chain[i] # head
      BY <1>0, <1>a
    <3>3. FreeSlots' = {chain[i] : i \in 1 .. rest}
      BY <1>4 DEF FreeSlots
    <3>4. {chain[i] : i \in 1 .. rest + 1} = {chain[i] : i \in 1 .. rest} \cup {head}
      BY <1>0
    <3> QED BY <3>1, <3>2, <3>3, <3>4, <1>11
  <2>3. FreeListLinks'
    <3>1. /\ Len(free') = 0 => next_handle_slot' = handle_capacity'
          /\ Len(free') > 0 => next_handle_slot' = free'[Len(free')]
      BY <1>0, <1>2, <1>4, <1>5, SMTT(20)
    <3>2. ASSUME NEW i \in 1 .. Len(free')
          PROVE  /\ i = 1 => slots'[free'[i]].next = handle_capacity'
                 /\ i > 1 => slots'[free'[i]].next = free'[i - 1]
      <4>1. i \in 1 .. rest + 1 /\ i \in 1 .. rest /\ (i > 1 => i - 1 \in 1 .. rest)
        BY <1>0, <1>4
      <4>2. chain[i] \in 0 .. capacity - 1 /\ free'[i] = chain[i]
        BY <1>0, <1>4, <4>1
      <4>3. i > 1 => free'[i - 1] = chain[i - 1]
        BY <1>4, <4>1
      <4>4. slots'[chain[i]].next = table[chain[i]].next
        BY <4>2, <1>3
      <4> QED BY <1>2, <1>a, <4>1, <4>2, <4>3, <4>4
    <3> QED BY <3>1, <3>2 DEF FreeListLinks
  <2> QED BY <1>2, <2>1, <2>2, <2>3 DEF FreeListExact
<1>13. CountExact'
  <2>1. IsFiniteSet(DOMAIN bound) /\ num_handles = Cardinality(DOMAIN bound)
    BY DEF IInv, CountExact
  <2>2. /\ IsFiniteSet(DOMAIN bound \cup {h})
        /\ Cardinality(DOMAIN bound \cup {h}) = Cardinality(DOMAIN bound) + 1
    BY <2>1, <1>8, FS_AddElement
  <2>3. num_handles' + Len(free') = handle_capacity'
    BY <1>0, <1>2, <1>4
  <2>4. IsFiniteSet(DOMAIN bound') /\ num_handles' = Cardinality(DOMAIN bound')
    BY <2>1, <2>2, <1>2, <1>8
  <2> QED BY <2>3, <2>4 DEF CountExact
<1>14. Generations'
  <2> SUFFICES ASSUME NEW g \in issued'
               PROVE  /\ g.gen <= slots'[g.index - 1].gen
                      /\ g \in DOMAIN bound' <=> g.gen = slots'[g.index - 1].gen
                      /\ g \in DOMAIN bound' =>
                            bound'[g] = [obj |-> slots'[g.index - 1].obj,
                                         tag |-> slots'[g.index - 1].tag]
    BY DEF Generations, SlotOf
  <2>1. CASE g = h
    <3>1. g.index - 1 = head /\ g.gen = table[head].gen
      BY <2>1, <1>1
    <3>2. bound'[g] = [obj |-> obj, tag |-> tag] /\ g \in DOMAIN bound'
      BY <2>1, <1>2, <1>8
    <3>3. table[head].gen \in Nat
      BY <1>0, <1>1, GenAssumption DEF Slot
    <3> QED BY <3>1, <3>2, <3>3, <1>1, <1>3
  <2>2. CASE g # h
    <3>1. g \in issued /\ (g \in DOMAIN bound' <=> g \in DOMAIN bound)
      BY <2>2, <1>2, <1>8
    <3>2. /\ g \in Handle /\ g.index <= capacity
          /\ g.gen <= table[g.index - 1].gen
          /\ g \in DOMAIN bound <=> g.gen = table[g.index - 1].gen
          /\ g \in DOMAIN bound =>
                bound[g] = [obj |-> table[g.index - 1].obj, tag |-> table[g.index - 1].tag]
      BY <3>1 DEF TableOK
    <3>3. g.index - 1 \in 0 .. capacity - 1
      BY <3>2, <1>0 DEF Handle
    <3>4. CASE g \in DOMAIN bound
      <4>1. g.index - 1 # head
        BY <3>4, <1>1 DEF LiveSlots
      <4>2. bound'[g] = bound[g]
        BY <3>4, <2>2, <1>2, <1>8
      <4> QED BY <3>1, <3>2, <3>3, <3>4, <4>1, <4>2, <1>3
    <3>5. CASE g \notin DOMAIN bound
      BY <3>1, <3>2, <3>3, <3>5, <1>3
    <3> QED BY <3>4, <3>5
  <2> QED BY <2>1, <2>2
<1>15. BoundIsFunction'
  BY <1>2, <1>8 DEF BoundIsFunction
<1> QED BY <1>10, <1>12, <1>13, <1>14, <1>15 DEF IInv

\* The chain of fresh slots, position by position.
LEMMA FreshChainFacts ==
    ASSUME NEW a \in Nat, NEW b \in Nat, a < b
    PROVE  /\ FreshChain(a, b) \in Seq(0 .. b - 1)
           /\ Len(FreshChain(a, b)) = b - a
           /\ \A i \in 1 .. b - a : FreshChain(a, b)[i] = b - i
           /\ {FreshChain(a, b)[i] : i \in 1 .. b - a} = a .. b - 1
<1> DEFINE chain == FreshChain(a, b)
<1>1. chain \in [1 .. b - a -> 0 .. b - 1] /\ b - a \in Nat
  BY DEF FreshChain
<1>2. chain \in Seq(0 .. b - 1) /\ Len(chain) = b - a
  BY <1>1
<1>3. \A i \in 1 .. b - a : chain[i] = b - i
  BY DEF FreshChain
<1>4. \A x \in a .. b - 1 : b - x \in 1 .. b - a /\ b - (b - x) = x
  OBVIOUS
<1>5. a .. b - 1 \subseteq {chain[i] : i \in 1 .. b - a}
  BY <1>3, <1>4
<1>6. {chain[i] : i \in 1 .. b - a} \subseteq a .. b - 1
  BY <1>3
<1> QED BY <1>2, <1>3, <1>5, <1>6

\* bio_handle_table_init builds a table in order, with every slot free.
LEMMA InitInvariant ==
    bio_handle_table_init => IInv
<1> SUFFICES ASSUME bio_handle_table_init PROVE IInv
  OBVIOUS
<1>0. InitialCapacity \in Nat /\ InitialCapacity > 0 /\ InitialCapacity \in 1 .. MaxCapacity
  BY CapacityAssumption
<1>1. /\ free \in Seq(0 .. InitialCapacity - 1)
      /\ Len(free) = InitialCapacity
      /\ \A i \in 1 .. InitialCapacity : free[i] = InitialCapacity - i
      /\ {free[i] : i \in 1 .. InitialCapacity} = 0 .. InitialCapacity - 1
  <2>1. InitialCapacity - 0 = InitialCapacity /\ 0 \in Nat /\ 0 < InitialCapacity
    BY <1>0
  <2>2. /\ FreshChain(0, InitialCapacity) \in Seq(0 .. InitialCapacity - 1)
        /\ Len(FreshChain(0, InitialCapacity)) = InitialCapacity - 0
        /\ \A i \in 1 .. InitialCapacity - 0 :
              FreshChain(0, InitialCapacity)[i] = InitialCapacity - i
        /\ {FreshChain(0, InitialCapacity)[i] : i \in 1 .. InitialCapacity - 0}
              = 0 .. InitialCapacity - 1
    BY <1>0, <2>1, FreshChainFacts
  <2>3. free = FreshChain(0, InitialCapacity)
    BY DEF bio_handle_table_init
  <2> QED BY <2>1, <2>2, <2>3
<1>2. /\ slots \in [0 .. InitialCapacity - 1 -> Slot]
      /\ \A i \in 0 .. InitialCapacity - 1 : slots[i].next = i + 1
  <2>1. DOMAIN <<>> = {}
    OBVIOUS
  <2>2. slots = [i \in 0 .. InitialCapacity - 1 |-> FreshSlot(i)]
    BY <2>1 DEF GrownSlots, bio_handle_table_init
  <2> QED BY <1>0, <2>2, GenAssumption DEF FreshSlot, Slot
<1>3. /\ DOMAIN bound = {} /\ bound = [h \in {} |-> [obj |-> NULL, tag |-> NULL]]
      /\ issued = {}
      /\ num_handles = 0 /\ next_handle_slot = 0 /\ handle_capacity = InitialCapacity
  BY DEF bio_handle_table_init
<1>4. TypeOK
  BY <1>0, <1>1, <1>2, <1>3 DEF TypeOK
<1>5. FreeListExact
  <2>1. LiveSlots = {}
    BY <1>3 DEF LiveSlots
  <2>2. \A i, j \in 1 .. Len(free) : free[i] = free[j] => i = j
    BY <1>0, <1>1
  <2>3. free[Len(free)] = 0
    BY <1>0, <1>1
  <2>4. ASSUME NEW i \in 1 .. Len(free)
        PROVE  /\ i = 1 => slots[free[i]].next = handle_capacity
               /\ i > 1 => slots[free[i]].next = free[i - 1]
    <3>1. /\ free[i] = InitialCapacity - i
          /\ free[i] \in 0 .. InitialCapacity - 1
          /\ i > 1 => free[i - 1] = InitialCapacity - (i - 1)
      <4>1. i \in 1 .. InitialCapacity /\ (i > 1 => i - 1 \in 1 .. InitialCapacity)
        BY <1>0, <1>1
      <4> QED BY <1>0, <1>1, <4>1
    <3>2. slots[free[i]].next = InitialCapacity - i + 1
      BY <1>2, <3>1
    <3> QED BY <1>0, <1>1, <1>3, <3>1, <3>2
  <2>5. FreeListLinks
    BY <1>0, <1>1, <1>3, <2>3, <2>4 DEF FreeListLinks
  <2> QED BY <1>1, <1>3, <2>1, <2>2, <2>5 DEF FreeListExact, FreeSlots
<1>6. CountExact
  BY <1>0, <1>1, <1>3, FS_EmptySet DEF CountExact
<1>7. Generations /\ BoundIsFunction
  BY <1>3 DEF Generations, BoundIsFunction
<1> QED BY <1>4, <1>5, <1>6, <1>7 DEF IInv

\* Both branches of bio_make_handle take a slot of a table in order.
LEMMA MakeTakesSlot ==
    ASSUME IInv, NEW obj \in Obj, NEW tag \in Tag, bio_make_handle(obj, tag)
    PROVE  \E table, capacity, head, chain :
              /\ TableOK(table, capacity, head, chain)
              /\ TakeSlot(table, capacity, head, chain, obj, tag)
<1>0. /\ TypeOK /\ FreeListExact /\ CountExact /\ Generations
      /\ handle_capacity \in Nat /\ handle_capacity > 0
      /\ num_handles \in Nat /\ Len(free) \in Nat
      /\ MaxCapacity \in Nat
  BY CapacityAssumption DEF IInv, TypeOK
<1>1. CASE /\ num_handles < handle_capacity
           /\ TakeSlot(slots, handle_capacity, next_handle_slot, free, obj, tag)
  <2>1. Len(free) > 0
    BY <1>0, <1>1 DEF CountExact
  <2>2. TableOK(slots, handle_capacity, next_handle_slot, free)
    BY <1>0, <2>1
    DEF TableOK, TypeOK, FreeListExact, FreeListLinks, FreeSlots, CountExact,
        Generations, SlotOf
  <2> QED BY <1>1, <2>2
<1>2. CASE /\ num_handles >= handle_capacity
           /\ 2 * handle_capacity <= MaxCapacity
           /\ TakeSlot(GrownSlots(slots, 2 * handle_capacity), 2 * handle_capacity,
                       handle_capacity, FreshChain(handle_capacity, 2 * handle_capacity),
                       obj, tag)
  <2> DEFINE new == 2 * handle_capacity
             table == GrownSlots(slots, new)
             chain == FreshChain(handle_capacity, new)
  <2>1. new \in Nat /\ handle_capacity < new /\ new - handle_capacity = handle_capacity
        /\ new \in 1 .. MaxCapacity
    BY <1>0, <1>2
  <2>2. Len(free) = 0 /\ num_handles = handle_capacity
    BY <1>0, <1>2 DEF CountExact
  <2>3. LiveSlots = 0 .. handle_capacity - 1
    <3>1. FreeSlots = {}
      BY <2>2 DEF FreeSlots
    <3>2. \A h \in DOMAIN bound : h \in Handle /\ h.index <= handle_capacity
      BY <1>0 DEF TypeOK
    <3>3. LiveSlots \subseteq 0 .. handle_capacity - 1
      BY <3>2, <1>0 DEF LiveSlots, Handle
    <3> QED BY <3>1, <3>3, <1>0 DEF FreeListExact
  <2>4. /\ chain \in Seq(0 .. new - 1)
        /\ Len(chain) = handle_capacity
        /\ \A i \in 1 .. handle_capacity : chain[i] = new - i
        /\ {chain[i] : i \in 1 .. handle_capacity} = handle_capacity .. new - 1
    BY <1>0, <2>1, FreshChainFacts, ZenonT(60)
  <2>5. /\ table \in [0 .. new - 1 -> Slot]
        /\ \A i \in 0 .. handle_capacity - 1 : table[i] = slots[i]
        /\ \A i \in handle_capacity .. new - 1 : table[i].next = i + 1
    <3>1. DOMAIN slots = 0 .. handle_capacity - 1 /\ slots \in [0 .. handle_capacity - 1 -> Slot]
      BY <1>0 DEF TypeOK
    <3>2. \A i \in 0 .. new - 1 : FreshSlot(i) \in Slot /\ FreshSlot(i).next = i + 1
      BY <2>1, GenAssumption DEF FreshSlot, Slot
    <3>3. table \in [0 .. new - 1 -> Slot]
      BY <3>1, <3>2, <2>1 DEF GrownSlots
    <3>4. \A i \in 0 .. handle_capacity - 1 : table[i] = slots[i]
      BY <3>1, <2>1, <1>0 DEF GrownSlots
    <3>5. ASSUME NEW i \in handle_capacity .. new - 1 PROVE table[i].next = i + 1
      <4>1. i \in 0 .. new - 1 /\ i \notin DOMAIN slots
        BY <3>1, <1>0, <2>1
      <4>2. table[i] = FreshSlot(i)
        BY <4>1 DEF GrownSlots
      <4> QED BY <4>1, <4>2, <3>2
    <3> QED BY <3>3, <3>4, <3>5
  <2> HIDE DEF table, chain, new
  <2>6. /\ Len(chain) > 0
        /\ handle_capacity = chain[Len(chain)]
        /\ num_handles + Len(chain) = new
    BY <1>0, <2>1, <2>2, <2>4
  <2>7. ASSUME NEW i \in 1 .. Len(chain)
        PROVE  /\ i = 1 => table[chain[i]].next = new
               /\ i > 1 => table[chain[i]].next = chain[i - 1]
    <3>1. /\ chain[i] = new - i
          /\ chain[i] \in handle_capacity .. new - 1
          /\ i > 1 => chain[i - 1] = new - (i - 1)
      BY <1>0, <2>1, <2>4
    <3>2. table[chain[i]].next = new - i + 1
      BY <2>5, <3>1
    <3> QED BY <2>1, <2>4, <3>1, <3>2
  <2>8. \A i, j \in 1 .. Len(chain) : chain[i] = chain[j] => i = j
    BY <1>0, <2>1, <2>4
  <2>9. {chain[i] : i \in 1 .. Len(chain)} = (0 .. new - 1) \ LiveSlots
    BY <1>0, <2>1, <2>3, <2>4
  <2>10. ASSUME NEW h \in issued
         PROVE  /\ h \in Handle
                /\ h.index <= new
                /\ h.gen <= table[h.index - 1].gen
                /\ h \in DOMAIN bound <=> h.gen = table[h.index - 1].gen
                /\ h \in DOMAIN bound =>
                      bound[h] = [obj |-> table[h.index - 1].obj,
                                  tag |-> table[h.index - 1].tag]
    <3>1. h \in Handle /\ h.index <= handle_capacity
      BY <1>0 DEF TypeOK
    <3>2. h.index - 1 \in 0 .. handle_capacity - 1 /\ h.index <= new
      BY <1>0, <2>1, <3>1 DEF Handle
    <3>3. table[h.index - 1] = slots[h.index - 1]
      BY <2>5, <3>2
    <3> QED BY <1>0, <3>1, <3>2, <3>3 DEF Generations, SlotOf
  <2>11. TableOK(table, new, handle_capacity, chain)
    BY <2>1, <2>4, <2>5, <2>6, <2>7, <2>8, <2>9, <2>10 DEF TableOK
  <2>12. TakeSlot(table, new, handle_capacity, chain, obj, tag)
    BY <1>2 DEF table, new, chain
  <2> QED BY <2>11, <2>12
<1> QED BY <1>1, <1>2 DEF bio_make_handle

\* Closing: the slot becomes the head of the free list with the next generation.
LEMMA CloseKeepsInvariant ==
    ASSUME IInv, NEW h \in Held, NEW tag \in Tag, bio_close_handle(h, tag),
           CanClose(h, tag)
    PROVE  IInv' /\ h \in DOMAIN bound /\ bound[h].tag = tag
<1> DEFINE k == h.index - 1
<1>0. /\ TypeOK /\ FreeListExact /\ CountExact /\ Generations
      /\ handle_capacity \in Nat /\ handle_capacity > 0
      /\ num_handles \in Nat
      /\ Len(free) \in Nat
      /\ MaxCapacity \in Nat /\ MaxGen \in Nat
      /\ slots \in [0 .. handle_capacity - 1 -> Slot]
      /\ free \in Seq(0 .. handle_capacity - 1)
      /\ next_handle_slot \in 0 .. handle_capacity
  BY CapacityAssumption, GenAssumption DEF IInv, TypeOK
<1>1. h \in issued
  BY DEF CanClose, InTable, Held, InvalidHandle
<1>2. h \in Handle /\ k \in 0 .. handle_capacity - 1 /\ h.gen = slots[k].gen
  <2>1. h \in Handle /\ h.index <= handle_capacity
    BY <1>0, <1>1 DEF TypeOK
  <2> QED BY <1>0, <2>1 DEF Handle, CanClose, SlotOf
<1>3. /\ slots[k].gen < MaxGen
      /\ slots' = [slots EXCEPT ![k] = Released(@)]
      /\ next_handle_slot' = k
      /\ num_handles' = num_handles - 1
      /\ bound' = [g \in DOMAIN bound \ {h} |-> bound[g]]
      /\ free' = Append(free, k)
      /\ handle_capacity' = handle_capacity
      /\ issued' = issued
  BY DEF bio_close_handle, SlotOf, CountAfterClose
<1>4. h \in DOMAIN bound /\ bound[h].tag = tag
  BY <1>0, <1>1, <1>2 DEF Generations, SlotOf, CanClose
<1> HIDE DEF k
<1>5. /\ \A i \in 0 .. handle_capacity - 1 : i # k => slots'[i] = slots[i]
      /\ slots'[k].gen = slots[k].gen + 1
      /\ slots'[k].next = next_handle_slot
      /\ slots' \in [0 .. handle_capacity - 1 -> Slot]
  <2>1. slots[k] \in Slot
    BY <1>0, <1>2
  <2>2. slots'[k] = [slots[k] EXCEPT !.gen = slots[k].gen + 1, !.next = next_handle_slot]
    BY <1>0, <1>2, <1>3 DEF Released
  <2>3. /\ slots'[k] \in Slot
        /\ slots'[k].gen = slots[k].gen + 1
        /\ slots'[k].next = next_handle_slot
    <3>1. slots[k].gen + 1 \in 0 .. MaxGen /\ next_handle_slot \in Nat
      BY <1>0, <1>3, <2>1, SMTT(20) DEF Slot
    <3> QED BY <2>1, <2>2, <3>1 DEF Slot
  <2>4. \A i \in 0 .. handle_capacity - 1 : i # k => slots'[i] = slots[i]
    BY <1>0, <1>2, <1>3
  <2>5. slots' \in [0 .. handle_capacity - 1 -> Slot]
    BY <1>0, <1>2, <1>3, <2>2, <2>3
  <2> QED BY <2>3, <2>4, <2>5
<1>6. /\ free' \in Seq(0 .. handle_capacity - 1)
      /\ Len(free') = Len(free) + 1
      /\ \A i \in 1 .. Len(free) : free'[i] = free[i]
      /\ free'[Len(free) + 1] = k
  BY <1>0, <1>2, <1>3, AppendProperties
<1>6a. /\ 1 .. Len(free') = 1 .. Len(free) \cup {Len(free) + 1}
       /\ Len(free) + 1 \notin 1 .. Len(free)
  BY <1>0, <1>6
<1>7. DOMAIN bound' = DOMAIN bound \ {h}
  BY <1>3
<1>8. \A g \in DOMAIN bound : g.index = h.index => g = h
  <2> SUFFICES ASSUME NEW g \in DOMAIN bound, g.index = h.index PROVE g = h
    OBVIOUS
  <2>1. g \in issued /\ g \in Handle
    BY <1>0 DEF TypeOK
  <2>2. g.gen = h.gen
    BY <1>0, <1>1, <1>4, <2>1 DEF Generations, SlotOf
  <2> QED BY <1>2, <2>1, <2>2 DEF Handle
<1>9. LiveSlots' = LiveSlots \ {k} /\ k \in LiveSlots
  <2>0. \A g \in DOMAIN bound : g \in Handle
    BY <1>0 DEF TypeOK
  <2>1. \A g \in DOMAIN bound : g.index - 1 = k => g = h
    BY <1>2, <1>8, <2>0 DEF k, Handle
  <2>2. k \in LiveSlots
    BY <1>4 DEF LiveSlots, k
  <2>3. LiveSlots' \subseteq LiveSlots \ {k}
    BY <1>7, <2>1 DEF LiveSlots
  <2>4. LiveSlots \ {k} \subseteq LiveSlots'
    BY <1>7 DEF LiveSlots, k
  <2> QED BY <2>2, <2>3, <2>4
<1>10. CountExact'
  <2>1. IsFiniteSet(DOMAIN bound) /\ num_handles = Cardinality(DOMAIN bound)
    BY <1>0 DEF CountExact
  <2>2. /\ IsFiniteSet(DOMAIN bound \ {h})
        /\ Cardinality(DOMAIN bound \ {h}) = Cardinality(DOMAIN bound) - 1
    BY <1>4, <2>1, FS_RemoveElement
  <2>3. num_handles' + Len(free') = handle_capacity'
    BY <1>0, <1>3, <1>6 DEF CountExact
  <2>4. IsFiniteSet(DOMAIN bound') /\ num_handles' = Cardinality(DOMAIN bound')
    BY <1>3, <1>7, <2>1, <2>2
  <2> QED BY <2>3, <2>4 DEF CountExact
<1>11. TypeOK'
  <2>1. num_handles' \in 0 .. handle_capacity
    <3>1. num_handles' \in Nat
      BY <1>10, FS_CardinalityType DEF CountExact
    <3>2. num_handles' + Len(free') = handle_capacity /\ Len(free') \in Nat
      BY <1>0, <1>3, <1>6, <1>10 DEF CountExact
    <3> QED BY <1>0, <3>1, <3>2
  <2>2. \A g \in DOMAIN bound' : bound'[g] \in [obj : Obj, tag : Tag]
    BY <1>0, <1>3, <1>7 DEF TypeOK
  <2>3. DOMAIN bound' \subseteq issued'
    BY <1>0, <1>3, <1>7 DEF TypeOK
  <2>4. /\ handle_capacity' \in 1 .. MaxCapacity
        /\ issued' \subseteq {g \in Handle : g.index <= handle_capacity'}
    BY <1>0, <1>3 DEF TypeOK
  <2>5. next_handle_slot' \in 0 .. handle_capacity
    BY <1>0, <1>2, <1>3
  <2> QED BY <1>3, <1>5, <1>6, <2>1, <2>2, <2>3, <2>4, <2>5 DEF TypeOK
<1>12. FreeListExact'
  <2>1. FreeSlots = (0 .. handle_capacity - 1) \ LiveSlots /\ k \notin FreeSlots
    BY <1>0, <1>9 DEF FreeListExact
  <2>2. FreeSlots' = FreeSlots \cup {k}
    <3>1. FreeSlots' = {free'[i] : i \in 1 .. Len(free) \cup {Len(free) + 1}}
      BY <1>6a DEF FreeSlots
    <3> HIDE DEF k
    <3>2. FreeSlots' \subseteq FreeSlots \cup {k}
      BY <1>6, <3>1 DEF FreeSlots
    <3>3. FreeSlots \cup {k} \subseteq FreeSlots'
      BY <1>6, <3>1 DEF FreeSlots
    <3> QED BY <3>2, <3>3
  <2>3. FreeSlots' = (0 .. handle_capacity' - 1) \ LiveSlots'
    BY <1>2, <1>3, <1>9, <2>1, <2>2
  <2>4. \A i \in 1 .. Len(free) : free[i] # k
    BY <2>1 DEF FreeSlots
  <2>5. \A i, j \in 1 .. Len(free') : free'[i] = free'[j] => i = j
    <3>1. \A i, j \in 1 .. Len(free) : free[i] = free[j] => i = j
      BY <1>0 DEF FreeListExact
    <3> QED BY <1>6, <1>6a, <2>4, <3>1
  <2>6. ASSUME NEW i \in 1 .. Len(free')
        PROVE  /\ i = 1 => slots'[free'[i]].next = handle_capacity'
               /\ i > 1 => slots'[free'[i]].next = free'[i - 1]
    <3>1. CASE i = Len(free) + 1
      <4>1. slots'[free'[i]].next = next_handle_slot
        BY <1>5, <1>6, <3>1
      <4>2. i = 1 => next_handle_slot = handle_capacity
        BY <1>0, <3>1 DEF FreeListExact, FreeListLinks
      <4>3. i > 1 => next_handle_slot = free[Len(free)] /\ free'[i - 1] = free[Len(free)]
        <5>1. i > 1 => Len(free) > 0 /\ i - 1 = Len(free) /\ Len(free) \in 1 .. Len(free)
          BY <1>0, <3>1
        <5>2. Len(free) > 0 => next_handle_slot = free[Len(free)]
          BY <1>0 DEF FreeListExact, FreeListLinks
        <5> QED BY <1>6, <5>1, <5>2
      <4> QED BY <1>3, <4>1, <4>2, <4>3
    <3>2. CASE i # Len(free) + 1
      <4>1. i \in 1 .. Len(free) /\ (i > 1 => i - 1 \in 1 .. Len(free))
        BY <1>0, <1>6, <3>2
      <4>2. free'[i] = free[i] /\ (i > 1 => free'[i - 1] = free[i - 1])
        BY <1>6, <4>1
      <4>3. free[i] \in 0 .. handle_capacity - 1 /\ free[i] # k
        BY <1>0, <2>4, <4>1
      <4>4. slots'[free[i]] = slots[free[i]]
        BY <1>5, <4>3
      <4>5. /\ i = 1 => slots[free[i]].next = handle_capacity
            /\ i > 1 => slots[free[i]].next = free[i - 1]
        BY <1>0, <4>1 DEF FreeListExact, FreeListLinks
      <4> QED BY <1>3, <4>2, <4>4, <4>5
    <3> QED BY <3>1, <3>2
  <2>7. next_handle_slot' = free'[Len(free')] /\ Len(free') > 0
    BY <1>0, <1>3, <1>6
  <2>8. FreeListLinks'
    BY <2>6, <2>7 DEF FreeListLinks
  <2> QED BY <2>3, <2>5, <2>8 DEF FreeListExact
<1>13. Generations'
  <2> SUFFICES ASSUME NEW g \in issued
               PROVE  /\ g.gen <= slots'[g.index - 1].gen
                      /\ g \in DOMAIN bound' <=> g.gen = slots'[g.index - 1].gen
                      /\ g \in DOMAIN bound' =>
                            bound'[g] = [obj |-> slots'[g.index - 1].obj,
                                         tag |-> slots'[g.index - 1].tag]
    BY <1>3 DEF Generations, SlotOf
  <2>1. /\ g.index - 1 \in 0 .. handle_capacity - 1
        /\ g.gen \in Nat
        /\ slots[g.index - 1].gen \in Nat
        /\ g.gen <= slots[g.index - 1].gen
        /\ g \in DOMAIN bound <=> g.gen = slots[g.index - 1].gen
        /\ g \in DOMAIN bound =>
              bound[g] = [obj |-> slots[g.index - 1].obj, tag |-> slots[g.index - 1].tag]
    <3>1. g \in Handle /\ g.index <= handle_capacity
      BY <1>0 DEF TypeOK
    <3>2. g.index - 1 \in 0 .. handle_capacity - 1 /\ g.gen \in Nat
      BY <1>0, <3>1 DEF Handle
    <3>3. slots[g.index - 1].gen \in Nat
      BY <1>0, <3>2 DEF Slot
    <3> QED BY <1>0, <3>2, <3>3 DEF Generations, SlotOf
  <2>2. CASE g.index - 1 = k
    <3>1. g \in DOMAIN bound => g = h
      BY <1>2, <1>8, <2>1, <2>2 DEF k, Handle, TypeOK, IInv
    <3>2. g \notin DOMAIN bound'
      BY <1>7, <3>1
    <3> QED BY <1>5, <2>1, <2>2, <3>2
  <2>3. CASE g.index - 1 # k
    <3>1. g # h
      BY <2>3 DEF k
    <3>2. g \in DOMAIN bound' <=> g \in DOMAIN bound
      BY <1>7, <3>1
    <3>3. g \in DOMAIN bound => bound'[g] = bound[g]
      BY <1>3, <1>7, <3>1
    <3>4. slots'[g.index - 1] = slots[g.index - 1]
      BY <1>5, <2>1, <2>3
    <3> QED BY <2>1, <3>2, <3>3, <3>4
  <2> QED BY <2>2, <2>3
<1>14. BoundIsFunction'
  BY <1>3, <1>7 DEF BoundIsFunction
<1> QED BY <1>4, <1>10, <1>11, <1>12, <1>13, <1>14 DEF IInv

\* Every step keeps the invariant.
LEMMA StepInvariant ==
    IInv /\ [Next]_vars => IInv'
<1> SUFFICES ASSUME IInv, [Next]_vars PROVE IInv'
  OBVIOUS
<1>1. ASSUME NEW obj \in Obj, NEW tag \in Tag, bio_make_handle(obj, tag)
      PROVE  IInv'
  <2>1. PICK table, capacity, head, chain :
           /\ TableOK(table, capacity, head, chain)
           /\ TakeSlot(table, capacity, head, chain, obj, tag)
    BY <1>1, MakeTakesSlot
  <2> QED BY <2>1, TakeSlotKeepsInvariant
<1>2. CASE UNCHANGED vars
  BY <1>2, SMTT(20) DEF vars, IInv, TypeOK, FreeListExact, FreeListLinks, FreeSlots, LiveSlots,
              CountExact, Generations, SlotOf, BoundIsFunction
<1>3. ASSUME NEW h \in Held, NEW tag \in Tag, bio_close_handle(h, tag)
      PROVE  IInv'
  <2>1. CASE CanClose(h, tag)
    BY <1>3, <2>1, CloseKeepsInvariant
  <2>2. CASE ~CanClose(h, tag)
    BY <1>2, <1>3, <2>2 DEF bio_close_handle
  <2> QED BY <2>1, <2>2
<1> QED BY <1>1, <1>2, <1>3 DEF Next

\* The invariant holds in every reachable state of the table.
THEOREM Invariance == Spec => []IInv
<1>1. bio_handle_table_init => IInv
  BY InitInvariant
<1>2. IInv /\ [Next]_vars => IInv'
  BY StepInvariant
<1> QED BY <1>1, <1>2, PTL DEF Spec

\* The types of the table, for every value of the constants: in particular the
\* free list and its head stay inside the array.
THEOREM TypeCorrect == Spec => []TypeOK
<1>1. IInv => TypeOK
  BY DEF IInv
<1> QED BY <1>1, Invariance, PTL

\* bio_make_handle always takes an unused slot inside the array.
THEOREM FreeListCorrect == Spec => [](FreeListExact /\ CountExact)
<1>1. IInv => FreeListExact /\ CountExact
  BY DEF IInv
<1> QED BY <1>1, Invariance, PTL

\* bio_resolve_handle and bio_handle_info answer for the objects not yet closed,
\* and only for them.
THEOREM ResolveCorrect == Spec => []ResolveExact
<1>1. ASSUME IInv PROVE ResolveExact
  <2> SUFFICES ASSUME NEW h \in Held
               PROVE  /\ \A tag \in Tag :
                            bio_resolve_handle(h, tag) =
                                IF h \in DOMAIN bound /\ bound[h].tag = tag
                                THEN bound[h].obj ELSE NULL
                      /\ bio_handle_info(h) =
                            IF h \in DOMAIN bound THEN bound[h].tag ELSE NULL
    BY DEF ResolveExact
  <2>0. DOMAIN bound \subseteq issued /\ issued \subseteq Handle
    BY <1>1 DEF IInv, TypeOK
  <2>1. CASE h \in issued
    <3>1. InTable(h)
      <4>1. h \in Handle /\ h.index <= handle_capacity /\ handle_capacity \in Nat
        BY <1>1, <2>1, CapacityAssumption DEF IInv, TypeOK
      <4> QED BY <4>1, CapacityAssumption DEF InTable, Handle
    <3>2. /\ h \in DOMAIN bound <=> h.gen = SlotOf(h).gen
          /\ h \in DOMAIN bound =>
                bound[h].obj = SlotOf(h).obj /\ bound[h].tag = SlotOf(h).tag
      <4>1. /\ h \in DOMAIN bound <=> h.gen = SlotOf(h).gen
            /\ h \in DOMAIN bound =>
                  bound[h] = [obj |-> SlotOf(h).obj, tag |-> SlotOf(h).tag]
        BY <1>1, <2>1 DEF IInv, Generations
      <4>2. /\ [obj |-> SlotOf(h).obj, tag |-> SlotOf(h).tag].obj = SlotOf(h).obj
            /\ [obj |-> SlotOf(h).obj, tag |-> SlotOf(h).tag].tag = SlotOf(h).tag
        OBVIOUS
      <4> QED BY <4>1, <4>2
    <3> QED BY <3>1, <3>2 DEF bio_resolve_handle, bio_handle_info
  <2>2. CASE h = InvalidHandle
    <3>1. ~InTable(h) /\ h \notin Handle
      BY <2>2 DEF InTable, InvalidHandle, Handle
    <3> QED BY <2>0, <3>1 DEF bio_resolve_handle, bio_handle_info
  <2> QED BY <2>1, <2>2 DEF Held
<1> QED BY <1>1, Invariance, PTL

\* The table implements HandleSpec: handles are fresh, stand for their object
\* until closed with the right tag, and never come back.
THEOREM Refinement == Spec => ImplementsHandleSpec
<1>1. bio_handle_table_init => Abstract!Init
  BY DEF bio_handle_table_init, Abstract!Init
<1>2. ASSUME IInv, [Next]_vars
      PROVE  [Abstract!Next]_(Abstract!vars)
  <2>1. ASSUME NEW obj \in Obj, NEW tag \in Tag, bio_make_handle(obj, tag)
        PROVE  Abstract!Next
    <3>1. PICK table, capacity, head, chain :
             /\ TableOK(table, capacity, head, chain)
             /\ TakeSlot(table, capacity, head, chain, obj, tag)
      BY <1>2, <2>1, MakeTakesSlot
    <3> DEFINE h == [index |-> head + 1, gen |-> table[head].gen]
    <3>2. h \in Handle \ issued
      BY <1>2, <3>1, TakenSlotIsNew DEF IInv
    <3>3. /\ issued' = issued \cup {h}
          /\ bound' = [g \in DOMAIN bound \cup {h} |->
                          IF g = h THEN [obj |-> obj, tag |-> tag] ELSE bound[g]]
      BY <3>1 DEF TakeSlot
    <3> HIDE DEF h
    <3>4. Abstract!Make(obj, tag)
      BY <3>2, <3>3 DEF Abstract!Make
    <3> QED BY <3>4 DEF Abstract!Next
  <2>2. ASSUME NEW h \in Held, NEW tag \in Tag, bio_close_handle(h, tag)
        PROVE  Abstract!Next \/ UNCHANGED Abstract!vars
    <3>1. CASE CanClose(h, tag)
      <4>1. h \in DOMAIN bound /\ bound[h].tag = tag
        BY <1>2, <2>2, <3>1, CloseKeepsInvariant
      <4>2. h \in Handle
        BY <1>2, <4>1 DEF IInv, TypeOK
      <4>3. Abstract!Close(h, tag)
        BY <2>2, <3>1, <4>1 DEF bio_close_handle, Abstract!Close
      <4> QED BY <4>2, <4>3 DEF Abstract!Next
    <3>2. CASE ~CanClose(h, tag)
      BY <2>2, <3>2 DEF bio_close_handle, vars, Abstract!vars
    <3> QED BY <3>1, <3>2
  <2>3. CASE UNCHANGED vars
    BY <2>3 DEF vars, Abstract!vars
  <2> QED BY <1>2, <2>1, <2>2, <2>3 DEF Next
<1> QED BY <1>1, <1>2, Invariance, PTL DEF Spec, Abstract!Spec, ImplementsHandleSpec
=============================================================================
