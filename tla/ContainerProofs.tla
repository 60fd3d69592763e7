--------------------------- MODULE ContainerProofs --------------------------
(***************************************************************************)
(* The three containers of the system: the queue between two threads of     *)
(* src/src/thread.c, the mailbox of src/src/mailbox.c and the heap of       *)
(* delayed signals of src/src/timer.c.  The queue and the mailbox address   *)
(* an array of S slots by counters that wrap at a multiple M of S, and both *)
(* implement the bounded FIFO of BoundedFifo.  The lemmas about counters    *)
(* and windows of a ring come first, then the queue, the mailbox, the heap. *)
(***************************************************************************)
EXTENDS SpscQueue, Mailbox, TimerHeap, SequenceTheorems, WellFoundedInduction, TLAPS

\* The remainder, under a name of its own: the lemmas below are all that is
\* used of it.
Mod(k, m) == k % m

\* Quotient and remainder.
LEMMA DivMod ==
    ASSUME NEW a \in Nat, NEW S \in Nat \ {0}
    PROVE  /\ a \div S \in Nat
           /\ Mod(a, S) \in 0 .. S - 1
           /\ a = (S * (a \div S)) + Mod(a, S)
BY DEF Mod

\* The remainder is the only one.
LEMMA ModUnique ==
    ASSUME NEW S \in Nat \ {0}, NEW q \in Nat, NEW r \in 0 .. S - 1
    PROVE  Mod((S * q) + r, S) = r
BY DEF Mod

\* A remainder is in range.
LEMMA ModType ==
    ASSUME NEW S \in Nat \ {0}, NEW k \in Nat
    PROVE  Mod(k, S) \in 0 .. S - 1
BY DivMod

\* A counter below the modulus is its own remainder.
LEMMA ModSmall ==
    ASSUME NEW S \in Nat \ {0}, NEW r \in 0 .. S - 1
    PROVE  Mod(r, S) = r
BY DEF Mod

\* A counter that reaches the modulus is back at 0.
LEMMA ModWhole ==
    ASSUME NEW S \in Nat \ {0}
    PROVE  Mod(S, S) = 0
BY DEF Mod

\* Multiples of S have remainder 0.
LEMMA ModZero ==
    ASSUME NEW S \in Nat \ {0}, NEW q \in Nat
    PROVE  S * q \in Nat /\ Mod(S * q, S) = 0
BY DEF Mod

\* Multiples of S do not change the slot.
LEMMA ModMultiple ==
    ASSUME NEW S \in Nat \ {0}, NEW k \in Nat, NEW m \in Nat, Mod(m, S) = 0
    PROVE  Mod(k + m, S) = Mod(k, S)
<1> DEFINE p == k \div S
           q == m \div S
           r == Mod(k, S)
<1>1. /\ p \in Nat /\ q \in Nat /\ r \in 0 .. S - 1
      /\ k = (S * p) + r
      /\ m = S * q
  <2>1. p \in Nat /\ r \in 0 .. S - 1 /\ k = (S * p) + r
    BY DivMod
  <2>2. q \in Nat /\ m = (S * q) + Mod(m, S)
    BY DivMod
  <2> QED BY <2>1, <2>2
<1> HIDE DEF p, q
<1>2. k + m = (S * (p + q)) + r
  BY <1>1
<1>3. p + q \in Nat
  BY <1>1
<1>4. Mod((S * (p + q)) + r, S) = r
  BY <1>1, <1>3, ModUnique
<1> QED BY <1>2, <1>4

\* Two counters less than S apart address different slots.
LEMMA ModInjective ==
    ASSUME NEW S \in Nat \ {0}, NEW a \in Nat, NEW b \in Nat, a <= b, b - a < S,
           Mod(a, S) = Mod(b, S)
    PROVE  a = b
<1> DEFINE p == a \div S
           q == b \div S
           r == Mod(a, S)
<1>1. /\ p \in Nat /\ q \in Nat /\ r \in 0 .. S - 1
      /\ a = (S * p) + r
      /\ b = (S * q) + r
  BY DivMod
<1> HIDE DEF p, q, r
<1>2. CASE p = q
  BY <1>1, <1>2
<1>3. CASE p < q
  <2>1. PICK d \in Nat : q = (p + 1) + d
    <3>1. q - (p + 1) \in Nat
      BY <1>1, <1>3
    <3> QED BY <1>1, <3>1
  <2>2. S * q = ((S * p) + S) + (S * d)
    BY <1>1, <2>1
  <2>3. S * d \in Nat
    BY <2>1
  <2> QED BY <1>1, <2>2, <2>3
<1>4. CASE q < p
  <2>1. PICK d \in Nat : p = (q + 1) + d
    <3>1. p - (q + 1) \in Nat
      BY <1>1, <1>4
    <3> QED BY <1>1, <3>1
  <2>2. S * p = ((S * q) + S) + (S * d)
    BY <1>1, <2>1
  <2>3. S * d \in Nat
    BY <2>1
  <2> QED BY <1>1, <2>2, <2>3
<1> QED BY <1>1, <1>2, <1>3, <1>4

\* ++ on a counter that wraps at M.
LEMMA Increment ==
    ASSUME NEW M \in Nat \ {0}, NEW i \in 0 .. M - 1
    PROVE  Mod(i + 1, M) = IF i = M - 1 THEN 0 ELSE i + 1
<1>1. CASE i = M - 1
  BY <1>1, ModWhole
<1>2. CASE i # M - 1
  BY <1>2, ModSmall
<1> QED BY <1>1, <1>2

\* A counter that wraps at a multiple of S addresses the slot it addressed
\* before it wrapped.
LEMMA ModOfMod ==
    ASSUME NEW S \in Nat \ {0}, NEW M \in Nat \ {0}, Mod(M, S) = 0, NEW k \in Nat
    PROVE  Mod(Mod(k, M), S) = Mod(k, S)
<1> DEFINE q == k \div M
           r == Mod(k, M)
           p == M \div S
<1>1. q \in Nat /\ r \in 0 .. M - 1 /\ k = (M * q) + r
  BY DivMod
<1>2. p \in Nat /\ M = S * p
  BY DivMod
<1> HIDE DEF q, r, p
<1>3. p * q \in Nat /\ S * (p * q) \in Nat /\ M * q = S * (p * q)
  BY <1>1, <1>2
<1> DEFINE m == S * (p * q)
<1>4. m \in Nat /\ Mod(m, S) = 0
  <2> DEFINE l == p * q
  <2>1. l \in Nat
    BY <1>3
  <2> HIDE DEF l
  <2>2. S * l \in Nat /\ Mod(S * l, S) = 0
    BY <2>1, ModZero
  <2> QED BY <2>2 DEF l
<1>5. r \in Nat /\ k = r + m
  BY <1>1, <1>3
<1> HIDE DEF m
<1>6. Mod(k, S) = Mod(r, S)
  BY <1>4, <1>5, ModMultiple
<1> QED BY <1>6 DEF r

\* Wrapping a counter before something is added to it makes no difference to the
\* slot.
LEMMA ModOfSum ==
    ASSUME NEW S \in Nat \ {0}, NEW M \in Nat \ {0}, Mod(M, S) = 0,
           NEW k \in Nat, NEW n \in Nat
    PROVE  Mod(Mod(k, M) + n, S) = Mod(k + n, S)
<1> DEFINE q == k \div M
           r == Mod(k, M)
           p == M \div S
<1>1. q \in Nat /\ r \in 0 .. M - 1 /\ k = (M * q) + r
  BY DivMod
<1>2. p \in Nat /\ M = S * p
  BY DivMod
<1> HIDE DEF q, r, p
<1>3. p * q \in Nat /\ S * (p * q) \in Nat /\ M * q = S * (p * q)
  BY <1>1, <1>2
<1> DEFINE m == S * (p * q)
           b == r + n
<1>4. m \in Nat /\ Mod(m, S) = 0
  <2> DEFINE l == p * q
  <2>1. l \in Nat
    BY <1>3
  <2> HIDE DEF l
  <2>2. S * l \in Nat /\ Mod(S * l, S) = 0
    BY <2>1, ModZero
  <2> QED BY <2>2 DEF l
<1>5. b \in Nat /\ k + n = b + m
  BY <1>1, <1>3
<1> HIDE DEF m, b
<1>6. Mod(b + m, S) = Mod(b, S)
  BY <1>4, <1>5, ModMultiple
<1> QED BY <1>5, <1>6 DEF r, b
-----------------------------------------------------------------------------
\* Arrays of S slots.
Ring(S, X) == [0 .. S - 1 -> X]

\* The n messages of the ring f of S slots that start at counter i.
Window(f, S, i, n) == [k \in 1 .. n |-> f[Mod(i + (k - 1), S)]]

\* A window is a sequence of n messages.
LEMMA WindowType ==
    ASSUME NEW X, NEW S \in Nat \ {0}, NEW f \in Ring(S, X),
           NEW i \in Nat, NEW n \in Nat
    PROVE  /\ Window(f, S, i, n) \in Seq(X)
           /\ Len(Window(f, S, i, n)) = n
<1>1. \A k \in 1 .. n : f[Mod(i + (k - 1), S)] \in X
  <2> SUFFICES ASSUME NEW k \in 1 .. n
               PROVE  f[Mod(i + (k - 1), S)] \in X
    OBVIOUS
  <2>1. i + (k - 1) \in Nat
    OBVIOUS
  <2>2. Mod(i + (k - 1), S) \in 0 .. S - 1
    BY <2>1, ModType
  <2> QED BY <2>2 DEF Ring
<1>2. Window(f, S, i, n) \in [1 .. n -> X]
  BY <1>1 DEF Window
<1> QED BY <1>2, LenProperties

\* The empty window is the empty sequence.
LEMMA WindowEmpty ==
    ASSUME NEW S, NEW f, NEW i
    PROVE  Window(f, S, i, 0) = << >>
<1>1. 1 .. 0 = {}
  OBVIOUS
<1> QED BY <1>1 DEF Window

\* Writing the slot after a window that does not fill the ring keeps the window.
LEMMA WindowKept ==
    ASSUME NEW X, NEW S \in Nat \ {0}, NEW f \in Ring(S, X),
           NEW i \in Nat, NEW n \in Nat, n < S,
           NEW g \in Ring(S, X),
           \A k \in 0 .. S - 1 : k # Mod(i + n, S) => g[k] = f[k]
    PROVE  Window(g, S, i, n) = Window(f, S, i, n)
<1>1. ASSUME NEW k \in 1 .. n
      PROVE  g[Mod(i + (k - 1), S)] = f[Mod(i + (k - 1), S)]
  <2> DEFINE a == i + (k - 1)
             b == i + n
  <2>1. a \in Nat /\ b \in Nat /\ a <= b /\ b - a < S /\ a # b
    OBVIOUS
  <2>2. Mod(a, S) \in 0 .. S - 1
    BY <2>1, ModType
  <2>3. Mod(a, S) # Mod(b, S)
    <3> HIDE DEF a, b
    <3> QED BY <2>1, ModInjective
  <2> QED BY <2>2, <2>3 DEF Ring
<1> QED BY <1>1 DEF Window

\* The slot after a window, counted in, appends what it holds.
LEMMA WindowAppend ==
    ASSUME NEW X, NEW S \in Nat \ {0}, NEW f \in Ring(S, X),
           NEW i \in Nat, NEW n \in Nat
    PROVE  Window(f, S, i, n + 1) = Append(Window(f, S, i, n), f[Mod(i + n, S)])
<1> DEFINE s == Window(f, S, i, n)
           t == Window(f, S, i, n + 1)
           x == f[Mod(i + n, S)]
<1>1. s \in Seq(X) /\ Len(s) = n
  BY WindowType
<1>2. \A k \in 1 .. n : s[k] = f[Mod(i + (k - 1), S)]
  BY DEF Window
<1>3. t \in Seq(X) /\ Len(t) = n + 1
  <2>1. n + 1 \in Nat
    OBVIOUS
  <2> QED BY <2>1, WindowType
<1>4. \A k \in 1 .. n + 1 : t[k] = f[Mod(i + (k - 1), S)]
  BY DEF Window
<1>5. x \in X
  <2>1. Mod(i + n, S) \in 0 .. S - 1
    <3>1. i + n \in Nat
      OBVIOUS
    <3> QED BY <3>1, ModType
  <2> QED BY <2>1 DEF Ring
<1>6. t[n + 1] = x
  <2>1. i + ((n + 1) - 1) = i + n
    OBVIOUS
  <2> QED BY <1>3, <1>4, <2>1
<1>7. \A k \in 1 .. n : t[k] = s[k]
  BY <1>1, <1>2, <1>3, <1>4
<1> HIDE DEF s, t, x
<1>8. t = Append(s, x)
  <2>1. /\ Append(s, x) \in Seq(X)
        /\ Len(Append(s, x)) = n + 1
        /\ \A k \in 1 .. n : Append(s, x)[k] = s[k]
        /\ Append(s, x)[n + 1] = x
    BY <1>1, <1>2, <1>5, AppendProperties
  <2>2. \A k \in 1 .. n + 1 : t[k] = Append(s, x)[k]
    BY <2>1, <1>6, <1>7
  <2> QED BY <1>3, <1>4, <2>1, <2>2, SeqEqual
<1> QED BY <1>8 DEF s, t, x

\* A sequence is a first element and the rest.
Consists(s, x, t) == s # << >> /\ Head(s) = x /\ Tail(s) = t

\* Advancing a counter that wraps at M drops the first message of a window.
LEMMA WindowTail ==
    ASSUME NEW X, NEW S \in Nat \ {0}, NEW M \in Nat \ {0}, Mod(M, S) = 0,
           NEW f \in Ring(S, X),
           NEW i \in 0 .. M - 1, NEW n \in Nat, n > 0
    PROVE  Consists(Window(f, S, i, n), f[Mod(i, S)], Window(f, S, Mod(i + 1, M), n - 1))
<1> DEFINE s == Window(f, S, i, n)
           j == Mod(i + 1, M)
           m == n - 1
           t == Window(f, S, j, m)
<1>1. i \in Nat /\ n \in Nat /\ i + 1 \in Nat /\ j \in Nat /\ m \in Nat
  BY Increment
<1>2. S \in Nat \ {0} /\ f \in Ring(S, X)
  OBVIOUS
<1>3. \A k \in 1 .. m : Mod(j + (k - 1), S) = Mod(i + ((k + 1) - 1), S)
  <2> SUFFICES ASSUME NEW k \in 1 .. m
               PROVE  Mod(j + (k - 1), S) = Mod(i + ((k + 1) - 1), S)
    OBVIOUS
  <2> DEFINE l == k - 1
  <2>1. l \in Nat /\ j + (k - 1) = j + l /\ i + ((k + 1) - 1) = (i + 1) + l
    BY <1>1
  <2> HIDE DEF l
  <2>2. Mod(Mod(i + 1, M) + l, S) = Mod((i + 1) + l, S)
    BY <1>1, <2>1, ModOfSum
  <2> QED BY <2>1, <2>2
<1> HIDE DEF j, m
<1>4. s \in Seq(X) /\ Len(s) = n
  BY ONLY <1>1, <1>2, WindowType
<1>5. \A k \in 1 .. n : s[k] = f[Mod(i + (k - 1), S)]
  BY DEF Window
<1>6. t \in Seq(X) /\ Len(t) = m
  BY ONLY <1>1, <1>2, WindowType
<1>7. \A k \in 1 .. m : t[k] = f[Mod(j + (k - 1), S)]
  BY DEF Window
<1> HIDE DEF s, t
<1>8. \A k \in 1 .. m : t[k] = s[k + 1]
  <2> SUFFICES ASSUME NEW k \in 1 .. m
               PROVE  t[k] = s[k + 1]
    OBVIOUS
  <2>1. k + 1 \in 1 .. n
    BY DEF m
  <2>2. s[k + 1] = f[Mod(i + ((k + 1) - 1), S)]
    BY <1>4, <1>5, <2>1
  <2> QED BY <1>3, <1>6, <1>7, <2>2
<1>9. s # << >> /\ Head(s) = f[Mod(i, S)]
  <2>1. i + (1 - 1) = i
    OBVIOUS
  <2>2. 1 \in 1 .. n
    OBVIOUS
  <2>3. s[1] = f[Mod(i, S)]
    BY <1>5, <2>1, <2>2
  <2> QED BY <1>4, <2>3
<1>10. Tail(s) = t
  <2>1. /\ Tail(s) \in Seq(X) /\ Len(Tail(s)) = m
        /\ \A k \in 1 .. m : Tail(s)[k] = s[k + 1]
    BY <1>4, <1>5, <1>9, HeadTailProperties DEF m
  <2> QED BY <1>6, <1>7, <1>8, <2>1, SeqEqual
<1> QED BY <1>9, <1>10 DEF s, t, m, j, Consists
-----------------------------------------------------------------------------
(***************************************************************************)
(* The queue, proved for every size, every modulus of its counters that is  *)
(* a multiple of the size, and every set of items: no wakeup is lost, and   *)
(* the queue implements a bounded FIFO.                                     *)
(***************************************************************************)

\* A mutex is held by its own thread from mtx_lock to cnd_wait or mtx_unlock, and
\* by the other thread inside bio_thread_signal_raise.
Mutexes ==
    \A t \in Thread :
        /\ mtx[t] = t <=> PcOf(t) \in {"check", "sleep", "unlock"}
        /\ mtx[t] = Other(t) <=> PcOf(Other(t)) \in {"raise_signal", "raise_unlock"}

\* What a thread saw of count still holds when it uses it: the other thread can
\* only make more room, or more items.
Room ==
    /\ producer \in {"unlock", "index", "access", "count"} => count < Size
    /\ consumer \in {"unlock", "index", "access", "count"} => count > 0

\* The slot the producer has taken and not counted yet.
Taken == IF producer \in {"access", "count"} THEN 1 ELSE 0

\* tail and head, and each thread's copy of its counter, from the first item.
Counters ==
    /\ tail = Mod((First + count) + Taken, IndexMod)
    /\ producer \in {"access", "count"} => index["producer"] = Mod(First + count, IndexMod)
    /\ consumer \in {"access", "count"} => head = Mod(First + 1, IndexMod)

\* The slot that is written but not counted, and the one read but not given back.
Slots ==
    /\ producer = "count" => values[Mod(First + count, Size)] = item["producer"]
    /\ consumer = "count" => item["consumer"] = values[Mod(First, Size)]

\* NoLostWakeup, from the moment the thread has decided to sleep: it holds its
\* mutex until it sleeps, so the signal comes after.
Wakes ==
    \A t \in Thread :
        PcOf(t) \in {"sleep", "asleep"} /\ ~Blocked(t) =>
            PcOf(Other(t)) \in {"raise_lock", "raise_signal"}

IInv == TypeOK /\ Mutexes /\ Room /\ Counters /\ Slots /\ Wakes

\* Where each thread is with respect to the ring.
InRing(t) == PcOf(t) \in {"access", "count"}
-----------------------------------------------------------------------------
\* The constants, in the form that the lemmas about rings want.
LEMMA ConstantFacts ==
    /\ Size \in Nat \ {0}
    /\ IndexMod \in Nat \ {0}
    /\ Mod(IndexMod, Size) = 0
    /\ Mod(IndexMod, IndexMod) = 0
<1>1. Mod(IndexMod, IndexMod) = 0
  BY IndexAssumption, ModWhole
<1> QED BY <1>1, SizeAssumption, IndexAssumption DEF Mod

\* The first item is at a counter, and the queue's contents are a window of the
\* ring.
LEMMA ContentsIsWindow ==
    ASSUME TypeOK
    PROVE  /\ First \in 0 .. IndexMod - 1
           /\ First \in Nat
           /\ count \in Nat
           /\ values \in Ring(Size, Item)
           /\ Contents = Window(values, Size, First, count)
<1>1. First \in 0 .. IndexMod - 1
  BY DEF TypeOK, First, Thread
<1>2. First \in Nat /\ count \in Nat
  BY <1>1, ConstantFacts DEF TypeOK
<1>3. Contents = Window(values, Size, First, count)
  BY Zenon DEF Contents, Window, At, Mod
<1> QED BY <1>1, <1>2, <1>3 DEF TypeOK, Ring

\* The invariant holds of a queue that bio_spscq_init has set up.
LEMMA InitInvariant == Init => IInv
<1> SUFFICES ASSUME Init PROVE IInv
  OBVIOUS
<1>1. TypeOK
  BY ConstantFacts DEF Init, bio_spscq_init, TypeOK, PC, Thread
<1>2. Mutexes /\ Room /\ Slots /\ Wakes
  BY DEF Init, Mutexes, Room, Slots, Wakes, PcOf, Other, Thread
<1>3. Counters
  <2>1. First = 0 /\ count = 0 /\ Taken = 0 /\ tail = 0
    BY DEF Init, bio_spscq_init, First, Taken
  <2>2. Mod(0, IndexMod) = 0
    BY ConstantFacts, ModSmall
  <2> QED BY <2>1, <2>2 DEF Counters, Init
<1> QED BY <1>1, <1>2, <1>3 DEF IInv
-----------------------------------------------------------------------------
(***************************************************************************)
(* The steps on locks and condition variables touch neither the ring nor    *)
(* the copies of its counters.                                              *)
(***************************************************************************)
RingUnchanged ==
    /\ UNCHANGED <<count, head, tail, values, item, index, last>>
    /\ \A t \in Thread : InRing(t)' = InRing(t)
    /\ \A t \in Thread : PcOf(t) = "count" <=> PcOf(t)' = "count"

\* Such a step leaves the contents alone, and what is said of the ring.
LEMMA RingUnchangedFacts ==
    ASSUME RingUnchanged, Counters, Slots
    PROVE  Counters' /\ Slots' /\ First' = First /\ Contents' = Contents
<1>1. /\ producer \in {"access", "count"} <=> producer' \in {"access", "count"}
      /\ consumer \in {"access", "count"} <=> consumer' \in {"access", "count"}
      /\ producer = "count" <=> producer' = "count"
      /\ consumer = "count" <=> consumer' = "count"
  BY DEF RingUnchanged, InRing, PcOf, Thread
<1>2. UNCHANGED <<count, head, tail, values, item, index, last>>
  BY DEF RingUnchanged
<1>3. First' = First /\ Taken' = Taken
  BY <1>1, <1>2 DEF First, Taken
<1>4. Contents' = Contents
  BY <1>2, <1>3 DEF Contents
<1>5. Counters'
  BY <1>1, <1>2, <1>3 DEF Counters
<1>6. Slots'
  BY <1>1, <1>2, <1>3 DEF Slots
<1> QED BY <1>3, <1>4, <1>5, <1>6

\* The steps that both ends take keep the invariant.
LEMMA SharedStep ==
    ASSUME IInv, NEW t \in Thread, Shared(t) \/ SpuriousWakeup(t)
    PROVE  IInv' /\ RingUnchanged
<1> USE DEF Thread, PcOf, Other, Goto, queueVars, localVars
<1>1. TypeOK /\ Mutexes /\ Room /\ Counters /\ Slots /\ Wakes
  BY DEF IInv
<1>2. CASE Load(t)
  <2>1. TypeOK' /\ RingUnchanged
    <3>1. CASE t = "producer"
      BY <1>1, <1>2, <3>1 DEF Load, TypeOK, PC, RingUnchanged, InRing
    <3>2. CASE t = "consumer"
      BY <1>1, <1>2, <3>2 DEF Load, TypeOK, PC, RingUnchanged, InRing
    <3> QED BY <3>1, <3>2
  <2>2. Mutexes' /\ Room' /\ Wakes'
    BY <1>1, <1>2, SizeAssumption DEF Load, TypeOK, Mutexes, Room, Wakes, Blocked
  <2> QED BY <1>1, <2>1, <2>2, RingUnchangedFacts DEF IInv
<1>3. CASE Lock(t)
  <2>1. TypeOK' /\ RingUnchanged
    BY <1>1, <1>3 DEF Lock, TypeOK, PC, RingUnchanged, InRing
  <2>2. Mutexes' /\ Room' /\ Wakes'
    BY <1>1, <1>3 DEF Lock, TypeOK, Mutexes, Room, Wakes, Blocked
  <2> QED BY <1>1, <2>1, <2>2, RingUnchangedFacts DEF IInv
<1>4. CASE Check(t)
  <2>1. TypeOK' /\ RingUnchanged
    <3>1. CASE t = "producer"
      BY <1>1, <1>4, <3>1 DEF Check, TypeOK, PC, RingUnchanged, InRing
    <3>2. CASE t = "consumer"
      BY <1>1, <1>4, <3>2 DEF Check, TypeOK, PC, RingUnchanged, InRing
    <3> QED BY <3>1, <3>2
  <2>2. Mutexes' /\ Room' /\ Wakes'
    BY <1>1, <1>4, SizeAssumption DEF Check, TypeOK, Mutexes, Room, Wakes, Blocked
  <2> QED BY <1>1, <2>1, <2>2, RingUnchangedFacts DEF IInv
<1>5. CASE CndWait(t)
  <2>1. TypeOK' /\ RingUnchanged
    BY <1>1, <1>5 DEF CndWait, TypeOK, PC, RingUnchanged, InRing
  <2>2. Mutexes' /\ Room' /\ Wakes'
    BY <1>1, <1>5 DEF CndWait, TypeOK, Mutexes, Room, Wakes, Blocked
  <2> QED BY <1>1, <2>1, <2>2, RingUnchangedFacts DEF IInv
<1>6. CASE Unlock(t)
  <2>1. TypeOK' /\ RingUnchanged
    BY <1>1, <1>6 DEF Unlock, TypeOK, PC, RingUnchanged, InRing
  <2>2. Mutexes' /\ Room' /\ Wakes'
    BY <1>1, <1>6 DEF Unlock, TypeOK, Mutexes, Room, Wakes, Blocked
  <2> QED BY <1>1, <2>1, <2>2, RingUnchangedFacts DEF IInv
<1>7. CASE RaiseLock(t)
  <2>1. TypeOK' /\ RingUnchanged
    BY <1>1, <1>7 DEF RaiseLock, TypeOK, PC, RingUnchanged, InRing
  <2>2. Mutexes' /\ Room' /\ Wakes'
    BY <1>1, <1>7 DEF RaiseLock, TypeOK, Mutexes, Room, Wakes, Blocked
  <2> QED BY <1>1, <2>1, <2>2, RingUnchangedFacts DEF IInv
<1>8. CASE RaiseSignal(t)
  <2>1. TypeOK' /\ RingUnchanged
    BY <1>1, <1>8 DEF RaiseSignal, TypeOK, PC, RingUnchanged, InRing
  <2>2. Mutexes' /\ Room' /\ Wakes'
    BY <1>1, <1>8 DEF RaiseSignal, TypeOK, Mutexes, Room, Wakes, Blocked
  <2> QED BY <1>1, <2>1, <2>2, RingUnchangedFacts DEF IInv
<1>9. CASE RaiseUnlock(t)
  <2>1. TypeOK' /\ RingUnchanged
    BY <1>1, <1>9 DEF RaiseUnlock, TypeOK, PC, RingUnchanged, InRing
  <2>2. Mutexes' /\ Room' /\ Wakes'
    BY <1>1, <1>9 DEF RaiseUnlock, TypeOK, Mutexes, Room, Wakes, Blocked
  <2> QED BY <1>1, <2>1, <2>2, RingUnchangedFacts DEF IInv
<1>10. CASE SpuriousWakeup(t)
  <2>1. TypeOK' /\ RingUnchanged
    BY <1>1, <1>10 DEF SpuriousWakeup, TypeOK, PC, RingUnchanged, InRing
  <2>2. Mutexes' /\ Room' /\ Wakes'
    BY <1>1, <1>10 DEF SpuriousWakeup, TypeOK, Mutexes, Room, Wakes, Blocked
  <2> QED BY <1>1, <2>1, <2>2, RingUnchangedFacts DEF IInv
<1> QED BY <1>2, <1>3, <1>4, <1>5, <1>6, <1>7, <1>8, <1>9, <1>10 DEF Shared
-----------------------------------------------------------------------------
(***************************************************************************)
(* The steps of bio_spscq_produce and bio_spscq_consume.                    *)
(***************************************************************************)

\* A call begins outside the ring.
LEMMA CallStep ==
    ASSUME IInv,
           \/ \E x \in Item, may_wait \in BOOLEAN : CallProduce(x, may_wait)
           \/ \E may_wait \in BOOLEAN : CallConsume(may_wait)
    PROVE  IInv' /\ Contents' = Contents /\ last' = last
<1> USE DEF Thread, PcOf, Other, queueVars
<1>1. TypeOK /\ Mutexes /\ Room /\ Counters /\ Slots /\ Wakes
  BY DEF IInv
<1>2. CASE \E x \in Item, may_wait \in BOOLEAN : CallProduce(x, may_wait)
  <2>1. PICK x \in Item, may_wait \in BOOLEAN : CallProduce(x, may_wait)
    BY <1>2
  <2>2. TypeOK'
    BY <1>1, <2>1 DEF CallProduce, TypeOK, PC
  <2>3. Mutexes' /\ Room' /\ Wakes'
    BY <1>1, <2>1 DEF CallProduce, TypeOK, Mutexes, Room, Wakes, Blocked
  <2>4. First' = First /\ Taken' = Taken
    BY <2>1 DEF CallProduce, First, Taken
  <2>5. Counters' /\ Slots'
    BY <1>1, <2>1, <2>4 DEF CallProduce, Counters, Slots, TypeOK
  <2>6. Contents' = Contents
    BY <2>1, <2>4 DEF CallProduce, Contents
  <2> QED BY <2>1, <2>2, <2>3, <2>5, <2>6 DEF IInv, CallProduce
<1>3. CASE \E may_wait \in BOOLEAN : CallConsume(may_wait)
  <2>1. PICK may_wait \in BOOLEAN : CallConsume(may_wait)
    BY <1>3
  <2>2. TypeOK'
    BY <1>1, <2>1 DEF CallConsume, TypeOK, PC
  <2>3. Mutexes' /\ Room' /\ Wakes'
    BY <1>1, <2>1 DEF CallConsume, TypeOK, Mutexes, Room, Wakes, Blocked
  <2>4. First' = First /\ Taken' = Taken
    BY <2>1 DEF CallConsume, First, Taken
  <2>5. Counters' /\ Slots'
    BY <1>1, <2>1, <2>4 DEF CallConsume, Counters, Slots, TypeOK
  <2>6. Contents' = Contents
    BY <2>1, <2>4 DEF CallConsume, Contents
  <2> QED BY <2>1, <2>2, <2>3, <2>5, <2>6 DEF IInv, CallConsume
<1> QED BY <1>2, <1>3

\* The producer takes the slot after the last item.
LEMMA ProduceIndexStep ==
    ASSUME IInv, ProduceIndex
    PROVE  IInv' /\ Contents' = Contents /\ last' = last
<1> USE DEF Thread, PcOf, Other
<1>1. TypeOK /\ Mutexes /\ Room /\ Counters /\ Slots /\ Wakes
  BY DEF IInv
<1>2. First \in Nat /\ count \in Nat
  BY <1>1, ContentsIsWindow
<1>3. First' = First /\ Taken = 0 /\ Taken' = 1
  BY DEF ProduceIndex, First, Taken
<1>4. tail = Mod(First + count, IndexMod)
  BY <1>1, <1>2, <1>3 DEF Counters
<1>5. tail' = Mod((First + count) + 1, IndexMod)
  <2>1. Mod(Mod(First + count, IndexMod) + 1, IndexMod) = Mod((First + count) + 1, IndexMod)
    <3> DEFINE k == First + count
    <3>1. k \in Nat
      BY <1>2
    <3> HIDE DEF k
    <3>2. Mod(Mod(k, IndexMod) + 1, IndexMod) = Mod(k + 1, IndexMod)
      BY <3>1, ConstantFacts, ModOfSum
    <3> QED BY <3>2 DEF k
  <2>2. tail' = Mod(tail + 1, IndexMod)
    BY DEF ProduceIndex, Mod
  <2> QED BY <1>4, <2>1, <2>2
<1>6. tail' \in 0 .. IndexMod - 1
  <2>1. (First + count) + 1 \in Nat
    BY <1>2
  <2> QED BY <1>5, <2>1, ConstantFacts, ModType
<1>7. TypeOK'
  BY <1>1, <1>6 DEF ProduceIndex, TypeOK, PC
<1>8. Mutexes' /\ Room' /\ Wakes'
  BY <1>1 DEF ProduceIndex, TypeOK, Mutexes, Room, Wakes, Blocked
<1>9. index' = [index EXCEPT !["producer"] = Mod(First + count, IndexMod)]
  BY <1>4 DEF ProduceIndex
<1>10. Counters'
  <2>1. index'["producer"] = Mod(First + count, IndexMod)
    BY <1>1, <1>9 DEF TypeOK
  <2>2. consumer' = consumer /\ head' = head /\ count' = count
    BY DEF ProduceIndex
  <2> QED BY <1>1, <1>3, <1>5, <2>1, <2>2 DEF Counters
<1>11. Slots'
  BY <1>1, <1>3 DEF Slots, ProduceIndex
<1>12. Contents' = Contents
  BY <1>3 DEF Contents, ProduceIndex
<1> QED BY <1>7, <1>8, <1>10, <1>11, <1>12 DEF IInv, ProduceIndex

\* The producer writes its slot, which is none of those that hold an item.
LEMMA ProduceAccessStep ==
    ASSUME IInv, ProduceAccess
    PROVE  IInv' /\ Contents' = Contents /\ last' = last
<1> USE DEF Thread, PcOf, Other, localVars
<1>1. TypeOK /\ Mutexes /\ Room /\ Counters /\ Slots /\ Wakes
  BY DEF IInv
<1>2. /\ First \in Nat /\ count \in Nat
      /\ values \in Ring(Size, Item)
      /\ Contents = Window(values, Size, First, count)
  BY <1>1, ContentsIsWindow
<1>3. First' = First /\ Taken = 1 /\ Taken' = 1 /\ count' = count
  BY DEF ProduceAccess, First, Taken
<1>4. At(index["producer"]) = Mod(First + count, Size)
  <2>1. index["producer"] = Mod(First + count, IndexMod)
    BY <1>1 DEF Counters, ProduceAccess
  <2>2. Mod(Mod(First + count, IndexMod), Size) = Mod(First + count, Size)
    <3> DEFINE k == First + count
    <3>1. k \in Nat
      BY <1>2
    <3> HIDE DEF k
    <3>2. Mod(Mod(k, IndexMod), Size) = Mod(k, Size)
      BY <3>1, ConstantFacts, ModOfMod
    <3> QED BY <3>2 DEF k
  <2>3. At(index["producer"]) = Mod(index["producer"], Size)
    BY DEF At, Mod
  <2> QED BY <2>1, <2>2, <2>3
<1>5. values' = [values EXCEPT ![Mod(First + count, Size)] = item["producer"]]
  BY <1>4 DEF ProduceAccess
<1>6. item["producer"] \in Item
  BY <1>1 DEF TypeOK
<1>7. values' \in Ring(Size, Item)
  BY <1>2, <1>5, <1>6 DEF Ring
<1>8. /\ Window(values', Size, First, count) = Window(values, Size, First, count)
      /\ values'[Mod(First + count, Size)] = item["producer"]
  <2>1. count < Size
    BY <1>1 DEF Room, ProduceAccess
  <2>2. Size \in Nat \ {0}
    BY ConstantFacts
  <2>3. Mod(First + count, Size) \in 0 .. Size - 1
    <3>1. First + count \in Nat
      BY <1>2
    <3> QED BY <2>2, <3>1, ModType
  <2>4. \A k \in 0 .. Size - 1 : k # Mod(First + count, Size) => values'[k] = values[k]
    BY <1>2, <1>5 DEF Ring
  <2>5. values'[Mod(First + count, Size)] = item["producer"]
    BY <1>2, <1>5, <2>3 DEF Ring
  <2> QED BY <1>2, <1>7, <2>1, <2>2, <2>4, <2>5, WindowKept
<1>9. TypeOK'
  BY <1>1, <1>7 DEF ProduceAccess, TypeOK, PC, Ring
<1>10. Contents' = Contents
  <2>1. Contents' = Window(values', Size, First', count')
    BY <1>9, ContentsIsWindow, Zenon DEF Contents, Window, At, Mod
  <2> QED BY <1>2, <1>3, <1>8, <2>1
<1>11. Mutexes' /\ Room' /\ Wakes'
  BY <1>1 DEF ProduceAccess, TypeOK, Mutexes, Room, Wakes, Blocked
<1>12. Counters'
  BY <1>1, <1>3 DEF Counters, ProduceAccess
<1>13. Slots'
  <2>1. CASE consumer = "count"
    <3>1. count > 0 /\ count < Size
      BY <1>1, <2>1 DEF Room, ProduceAccess
    <3> DEFINE k == First + count
    <3>2. k \in Nat /\ First <= k /\ k - First < Size /\ First # k
      BY <1>2, <3>1
    <3> HIDE DEF k
    <3>3. Mod(First, Size) # Mod(k, Size)
      BY <1>2, <3>2, ConstantFacts, ModInjective
    <3>4. Mod(First, Size) \in 0 .. Size - 1
      BY <1>2, ConstantFacts, ModType
    <3>5. values'[Mod(First, Size)] = values[Mod(First, Size)]
      BY <1>2, <1>5, <3>3, <3>4 DEF Ring, k
    <3> QED BY <1>1, <1>3, <1>8, <2>1, <3>5 DEF Slots, ProduceAccess
  <2>2. CASE consumer # "count"
    BY <1>3, <1>8, <2>2 DEF Slots, ProduceAccess
  <2> QED BY <2>1, <2>2
<1> QED BY <1>9, <1>10, <1>11, <1>12, <1>13 DEF IInv, ProduceAccess

\* Counting the slot appends what was written there.
LEMMA ProduceCountStep ==
    ASSUME IInv, ProduceCount
    PROVE  /\ IInv'
           /\ Len(Contents) < Size
           /\ Contents' = Append(Contents, item["producer"])
           /\ last' = last
<1> USE DEF Thread, PcOf, Other, localVars
<1>1. TypeOK /\ Mutexes /\ Room /\ Counters /\ Slots /\ Wakes
  BY DEF IInv
<1>2. /\ First \in Nat /\ count \in Nat
      /\ values \in Ring(Size, Item)
      /\ Contents = Window(values, Size, First, count)
  BY <1>1, ContentsIsWindow
<1>3. /\ First' = First /\ Taken = 1 /\ Taken' = 0 /\ values' = values
      /\ count' = count + 1 /\ count < Size
  BY <1>1 DEF ProduceCount, First, Taken, Room
<1>4. TypeOK'
  BY <1>1, <1>3, SizeAssumption DEF ProduceCount, TypeOK, PC
<1>5. Mutexes' /\ Room' /\ Wakes'
  BY <1>1, <1>2, SizeAssumption DEF ProduceCount, TypeOK, Mutexes, Room, Wakes, Blocked
<1>6. Counters'
  <2>1. (First + (count + 1)) + 0 = (First + count) + 1
    BY <1>2
  <2> QED BY <1>1, <1>3, <2>1 DEF Counters, ProduceCount
<1>7. Slots'
  BY <1>1, <1>3 DEF Slots, ProduceCount
<1>8. Contents' = Append(Contents, item["producer"])
  <2>1. Contents' = Window(values', Size, First', count')
    BY Zenon DEF Contents, Window, At, Mod
  <2>2. values[Mod(First + count, Size)] = item["producer"]
    BY <1>1 DEF Slots, ProduceCount
  <2>3. Window(values, Size, First, count + 1)
            = Append(Window(values, Size, First, count), values[Mod(First + count, Size)])
    BY <1>2, ConstantFacts, WindowAppend
  <2> QED BY <1>2, <1>3, <2>1, <2>2, <2>3
<1>9. Len(Contents) = count
  BY <1>2, ConstantFacts, WindowType
<1> QED BY <1>3, <1>4, <1>5, <1>6, <1>7, <1>8, <1>9 DEF IInv, ProduceCount

\* The consumer takes the slot of the first item; the item is still held.
LEMMA ConsumeIndexStep ==
    ASSUME IInv, ConsumeIndex
    PROVE  IInv' /\ Contents' = Contents /\ last' = last
<1> USE DEF Thread, PcOf, Other
<1>1. TypeOK /\ Mutexes /\ Room /\ Counters /\ Slots /\ Wakes
  BY DEF IInv
<1>2. First \in Nat /\ count \in Nat
  BY <1>1, ContentsIsWindow
<1>3. First = head /\ First' = First /\ Taken' = Taken
  BY <1>1 DEF ConsumeIndex, First, Taken, TypeOK
<1>4. head' = Mod(First + 1, IndexMod)
  BY <1>3 DEF ConsumeIndex, Mod
<1>5. head' \in 0 .. IndexMod - 1
  <2>1. First + 1 \in Nat
    BY <1>2
  <2> QED BY <1>4, <2>1, ConstantFacts, ModType
<1>6. TypeOK'
  BY <1>1, <1>5 DEF ConsumeIndex, TypeOK, PC
<1>7. Mutexes' /\ Room' /\ Wakes'
  BY <1>1 DEF ConsumeIndex, TypeOK, Mutexes, Room, Wakes, Blocked
<1>8. Counters'
  BY <1>1, <1>3, <1>4 DEF Counters, ConsumeIndex, TypeOK
<1>9. Slots'
  BY <1>1, <1>3 DEF Slots, ConsumeIndex
<1>10. Contents' = Contents
  BY <1>3 DEF Contents, ConsumeIndex
<1> QED BY <1>6, <1>7, <1>8, <1>9, <1>10 DEF IInv, ConsumeIndex

\* The consumer reads the first item.
LEMMA ConsumeAccessStep ==
    ASSUME IInv, ConsumeAccess
    PROVE  IInv' /\ Contents' = Contents /\ last' = last
<1> USE DEF Thread, PcOf, Other, queueVars
<1>1. TypeOK /\ Mutexes /\ Room /\ Counters /\ Slots /\ Wakes
  BY DEF IInv
<1>2. First \in Nat /\ values \in Ring(Size, Item)
  BY <1>1, ContentsIsWindow
<1>3. First = index["consumer"] /\ First' = First /\ Taken' = Taken
  BY DEF ConsumeAccess, First, Taken
<1>4. item' = [item EXCEPT !["consumer"] = values[Mod(First, Size)]]
  BY <1>3 DEF ConsumeAccess, At, Mod
<1>5. values[Mod(First, Size)] \in Item
  <2>1. Mod(First, Size) \in 0 .. Size - 1
    BY <1>2, ConstantFacts, ModType
  <2> QED BY <1>2, <2>1 DEF Ring
<1>6. TypeOK'
  BY <1>1, <1>4, <1>5 DEF ConsumeAccess, TypeOK, PC
<1>7. Mutexes' /\ Room' /\ Wakes'
  BY <1>1 DEF ConsumeAccess, TypeOK, Mutexes, Room, Wakes, Blocked
<1>8. Counters'
  BY <1>1, <1>3 DEF Counters, ConsumeAccess
<1>9. Slots'
  <2>1. item'["consumer"] = values[Mod(First, Size)] /\ item'["producer"] = item["producer"]
    BY <1>1, <1>4 DEF TypeOK
  <2> QED BY <1>1, <1>3, <2>1 DEF Slots, ConsumeAccess
<1>10. Contents' = Contents
  BY <1>3 DEF Contents, ConsumeAccess
<1> QED BY <1>6, <1>7, <1>8, <1>9, <1>10 DEF IInv, ConsumeAccess

\* Giving the slot back removes the first item, which is the one that was read.
LEMMA ConsumeCountStep ==
    ASSUME IInv, ConsumeCount
    PROVE  /\ IInv'
           /\ Contents # << >>
           /\ Contents' = Tail(Contents)
           /\ last' = Head(Contents)
<1> USE DEF Thread, PcOf, Other, localVars
<1>1. TypeOK /\ Mutexes /\ Room /\ Counters /\ Slots /\ Wakes
  BY DEF IInv
<1>2. /\ First \in 0 .. IndexMod - 1 /\ First \in Nat /\ count \in Nat
      /\ values \in Ring(Size, Item)
      /\ Contents = Window(values, Size, First, count)
  BY <1>1, ContentsIsWindow
<1>3. /\ First' = Mod(First + 1, IndexMod) /\ Taken' = Taken /\ Taken \in Nat
      /\ values' = values /\ count' = count - 1 /\ count > 0
  BY <1>1 DEF ConsumeCount, First, Taken, Room, Counters
<1>4. TypeOK'
  BY <1>1, <1>2, <1>3, SizeAssumption DEF ConsumeCount, TypeOK, PC
<1>5. Mutexes' /\ Room' /\ Wakes'
  BY <1>1, <1>2, SizeAssumption
  DEF ConsumeCount, WasFull, TypeOK, Mutexes, Room, Wakes, Blocked
<1>6. Counters'
  <2>1. ASSUME NEW d \in Nat
        PROVE  Mod((First' + count') + d, IndexMod) = Mod((First + count) + d, IndexMod)
    <3> DEFINE k == First + 1
               n == (count - 1) + d
    <3>1. k \in Nat /\ n \in Nat /\ k + n = (First + count) + d
      BY <1>2, <1>3
    <3> HIDE DEF k, n
    <3>2. Mod(Mod(k, IndexMod) + n, IndexMod) = Mod(k + n, IndexMod)
      BY <3>1, ConstantFacts, ModOfSum
    <3>3. Mod(k, IndexMod) \in 0 .. IndexMod - 1
      BY <3>1, ConstantFacts, ModType
    <3>4. (First' + count') + d = Mod(k, IndexMod) + n
      BY <1>2, <1>3, <3>3, ConstantFacts DEF k, n
    <3> QED BY <3>1, <3>2, <3>4
  <2>2. First' \in Nat /\ count' \in Nat
    <3>1. First + 1 \in Nat
      BY <1>2
    <3> QED BY <1>2, <1>3, <3>1, ConstantFacts, ModType
  <2>3. Mod((First' + count') + 0, IndexMod) = Mod((First + count) + 0, IndexMod)
    BY <2>1
  <2>4. Mod(First' + count', IndexMod) = Mod(First + count, IndexMod)
    BY <1>2, <2>2, <2>3
  <2>5. Mod((First' + count') + Taken, IndexMod) = Mod((First + count) + Taken, IndexMod)
    BY <1>3, <2>1
  <2> QED BY <1>1, <1>3, <2>4, <2>5 DEF Counters, ConsumeCount
<1>7. Slots'
  <2>1. Mod(First' + count', Size) = Mod(First + count, Size)
    <3> DEFINE k == First + 1
               n == count - 1
    <3>1. k \in Nat /\ n \in Nat /\ k + n = First + count
      BY <1>2, <1>3
    <3> HIDE DEF k, n
    <3>2. Mod(Mod(k, IndexMod) + n, Size) = Mod(k + n, Size)
      BY <3>1, ConstantFacts, ModOfSum
    <3>3. First' + count' = Mod(k, IndexMod) + n
      BY <1>3 DEF k, n
    <3> QED BY <3>1, <3>2, <3>3
  <2> QED BY <1>1, <1>3, <2>1 DEF Slots, ConsumeCount
<1>8. /\ Contents # << >>
      /\ Head(Contents) = values[Mod(First, Size)]
      /\ Contents' = Tail(Contents)
  <2>1. Contents' = Window(values', Size, First', count')
    BY Zenon DEF Contents, Window, At, Mod
  <2>2. Size \in Nat \ {0} /\ IndexMod \in Nat \ {0} /\ Mod(IndexMod, Size) = 0
    BY ConstantFacts
  <2>3. /\ Contents # << >>
        /\ Head(Contents) = values[Mod(First, Size)]
        /\ Tail(Contents) = Window(values, Size, Mod(First + 1, IndexMod), count - 1)
    <3>1. Consists(Window(values, Size, First, count), values[Mod(First, Size)],
                   Window(values, Size, Mod(First + 1, IndexMod), count - 1))
      BY <1>2, <1>3, <2>2, WindowTail
    <3> QED BY <1>2, <3>1 DEF Consists
  <2> QED BY <1>2, <1>3, <2>1, <2>3
<1>9. last' = values[Mod(First, Size)]
  BY <1>1 DEF Slots, ConsumeCount
<1> QED BY <1>4, <1>5, <1>6, <1>7, <1>8, <1>9 DEF IInv
-----------------------------------------------------------------------------
\* Every step keeps the invariant.
LEMMA NextInvariant == IInv /\ [Next]_vars => IInv'
<1> SUFFICES ASSUME IInv, [Next]_vars PROVE IInv'
  OBVIOUS
<1>1. CASE \/ \E x \in Item, may_wait \in BOOLEAN : CallProduce(x, may_wait)
           \/ \E may_wait \in BOOLEAN : CallConsume(may_wait)
  BY <1>1, CallStep
<1>2. CASE \E t \in Thread : Shared(t) \/ SpuriousWakeup(t)
  BY <1>2, SharedStep
<1>3. CASE ProduceIndex
  BY <1>3, ProduceIndexStep
<1>4. CASE ProduceAccess
  BY <1>4, ProduceAccessStep
<1>5. CASE ProduceCount
  BY <1>5, ProduceCountStep
<1>6. CASE ConsumeIndex
  BY <1>6, ConsumeIndexStep
<1>7. CASE ConsumeAccess
  BY <1>7, ConsumeAccessStep
<1>8. CASE ConsumeCount
  BY <1>8, ConsumeCountStep
<1>9. CASE UNCHANGED vars
  BY <1>9 DEF vars, IInv, TypeOK, Mutexes, Room, Counters, Slots, Wakes, First, Taken,
              Blocked, PcOf
<1> QED BY <1>1, <1>2, <1>3, <1>4, <1>5, <1>6, <1>7, <1>8, <1>9
        DEF Next, Produce, Consume, Thread

\* The inductive invariant of the two threads.
THEOREM Invariance == Spec => []IInv
BY InitInvariant, NextInvariant, PTL DEF Spec

\* The variables of bio_spscq_t and of both threads keep their types: count stays
\* between 0 and size although both threads add to it without a lock.
THEOREM TypeCorrect == Spec => []TypeOK
<1>1. IInv => TypeOK
  BY DEF IInv
<1> QED BY <1>1, Invariance, PTL

\* A thread asleep on a queue that does not block it is always about to be woken,
\* although count is tested without the lock and only the change from empty or
\* from full signals.
THEOREM WakeupsCorrect == Spec => []NoLostWakeup
<1>1. IInv => NoLostWakeup
  BY DEF IInv, Wakes, NoLostWakeup
<1> QED BY <1>1, Invariance, PTL

\* At the grain of single atomic operations and ring accesses, every interleaving
\* of bio_spscq_produce and bio_spscq_consume is a behaviour of a bounded FIFO,
\* across the wrap of the counters.
THEOREM Refinement == Spec => ImplementsFifo
<1>1. Init => Fifo!Init
  <2> SUFFICES ASSUME Init PROVE Fifo!Init
    OBVIOUS
  <2>1. count = 0 /\ last \in Item
    BY DEF Init, bio_spscq_init
  <2>2. Contents = Window(values, Size, First, count)
    BY Zenon DEF Contents, Window, At, Mod
  <2>3. Contents = << >>
    BY <2>1, <2>2, WindowEmpty
  <2> QED BY <2>1, <2>3 DEF Fifo!Init
<1>2. IInv /\ [Next]_vars => [Fifo!Next]_<<Contents, TRUE, last>>
  <2> SUFFICES ASSUME IInv, [Next]_vars
               PROVE  Fifo!Next \/ (Contents' = Contents /\ last' = last)
    OBVIOUS
  <2>1. CASE \/ \E x \in Item, may_wait \in BOOLEAN : CallProduce(x, may_wait)
             \/ \E may_wait \in BOOLEAN : CallConsume(may_wait)
    BY <2>1, CallStep
  <2>2. CASE \E t \in Thread : Shared(t) \/ SpuriousWakeup(t)
    BY <2>2, SharedStep, RingUnchangedFacts DEF RingUnchanged, IInv
  <2>3. CASE ProduceIndex
    BY <2>3, ProduceIndexStep
  <2>4. CASE ProduceAccess
    BY <2>4, ProduceAccessStep
  <2>5. CASE ProduceCount
    <3>1. item["producer"] \in Item
      BY DEF IInv, TypeOK, Thread
    <3>2. Fifo!Send(item["producer"])
      BY <2>5, ProduceCountStep DEF Fifo!Send
    <3> QED BY <3>1, <3>2 DEF Fifo!Next
  <2>6. CASE ConsumeIndex
    BY <2>6, ConsumeIndexStep
  <2>7. CASE ConsumeAccess
    BY <2>7, ConsumeAccessStep
  <2>8. CASE ConsumeCount
    <3>1. Fifo!Recv
      BY <2>8, ConsumeCountStep DEF Fifo!Recv
    <3> QED BY <3>1 DEF Fifo!Next
  <2>9. CASE UNCHANGED vars
    BY <2>9 DEF vars, Contents, First
  <2> QED BY <2>1, <2>2, <2>3, <2>4, <2>5, <2>6, <2>7, <2>8, <2>9
          DEF Next, Produce, Consume, Thread
<1> QED BY <1>1, <1>2, Invariance, PTL DEF Spec, ImplementsFifo, Fifo!Spec
-----------------------------------------------------------------------------
(***************************************************************************)
(* The mailbox, proved for every number of senders and receivers, every     *)
(* capacity, and every modulus of its counters that is a larger multiple of *)
(* the capacity.                                                            *)
(***************************************************************************)

\* A waiting receiver has nothing to wait for yet: the mailbox is open and empty
\* and holds its signal.  So no send passes it by, and there is only one.
Waiters ==
    /\ \A r \in Receiver : recv_state[r] = "waiting" => open /\ read = write /\ signal = r
    /\ open /\ signal # None => recv_state[signal] = "waiting"

\* When a woken receiver finds the mailbox empty, the one that emptied it has
\* returned, or it waits in turn, or another one does.
Overtaken ==
    open /\ read = write /\ (\E r \in Receiver : recv_state[r] = "woken") =>
        \E q \in Receiver :
            \/ recv_state[q] = "waiting"
            \/ recv_state[q] = "idle" /\ ret[q] = "true"

MailboxInv == MailboxTypeOK /\ NumMessages <= Capacity /\ Waiters /\ Overtaken
-----------------------------------------------------------------------------
\* The constants, in the form that the lemmas about rings want.
LEMMA MailboxConstants ==
    /\ Capacity \in Nat \ {0}
    /\ CounterMod \in Nat \ {0}
    /\ CounterMod > Capacity
    /\ Mod(CounterMod, Capacity) = 0
    /\ Mod(CounterMod, CounterMod) = 0
<1>1. CounterMod \in Nat \ {0}
  BY CapacityAssumption, CounterAssumption
<1>2. Mod(CounterMod, CounterMod) = 0
  BY <1>1, ModWhole
<1> QED BY <1>1, <1>2, CapacityAssumption, CounterAssumption DEF Mod

\* The subtraction of two counters in uint32_t.
LEMMA Difference ==
    ASSUME NEW M \in Nat \ {0}, NEW a \in 0 .. M - 1, NEW b \in 0 .. M - 1
    PROVE  (b - a) % M = IF a <= b THEN b - a ELSE (b - a) + M
<1>1. CASE a <= b
  <2>1. b - a \in 0 .. M - 1
    BY <1>1
  <2> QED BY <1>1, <2>1
<1>2. CASE b < a
  BY <1>2
<1> QED BY <1>1, <1>2

\* write - read, whether or not write has wrapped and read has not.
LEMMA SizeIs ==
    ASSUME read \in 0 .. CounterMod - 1, write \in 0 .. CounterMod - 1
    PROVE  /\ NumMessages = IF read <= write THEN write - read ELSE (write - read) + CounterMod
           /\ NumMessages \in 0 .. CounterMod - 1
           /\ NumMessages = 0 <=> read = write
           /\ write = Mod(read + NumMessages, CounterMod)
<1>1. NumMessages = IF read <= write THEN write - read ELSE (write - read) + CounterMod
  BY MailboxConstants, Difference DEF NumMessages
<1>2. NumMessages \in 0 .. CounterMod - 1 /\ (NumMessages = 0 <=> read = write)
  BY <1>1, MailboxConstants
<1>3. write = Mod(read + NumMessages, CounterMod)
  <2>1. CASE read <= write
    <3>1. read + NumMessages = write
      BY <1>1, <2>1, MailboxConstants
    <3> QED BY <3>1, MailboxConstants, ModSmall
  <2>2. CASE write < read
    <3>1. read + NumMessages = write + CounterMod
      BY <1>1, <2>2, MailboxConstants
    <3>2. write \in Nat
      BY MailboxConstants
    <3>3. Mod(write + CounterMod, CounterMod) = Mod(write, CounterMod)
      BY <3>2, MailboxConstants, ModMultiple
    <3>4. Mod(write, CounterMod) = write
      BY MailboxConstants, ModSmall
    <3> QED BY <3>1, <3>3, <3>4
  <2> QED BY <2>1, <2>2, MailboxConstants
<1> QED BY <1>1, <1>2, <1>3

\* While the mailbox is open its contents are a window of the ring.
LEMMA MessagesAreWindow ==
    ASSUME MailboxTypeOK
    PROVE  /\ read \in Nat /\ NumMessages \in Nat
           /\ data \in Ring(Capacity, Msg)
           /\ Messages = IF open THEN Window(data, Capacity, read, NumMessages) ELSE << >>
<1>1. read \in Nat /\ NumMessages \in Nat
  BY SizeIs, MailboxConstants DEF MailboxTypeOK
<1>2. Messages = IF open THEN Window(data, Capacity, read, NumMessages) ELSE << >>
  BY Zenon DEF Messages, Window, bio_queue_index, Mod
<1> QED BY <1>1, <1>2 DEF MailboxTypeOK, Ring

\* bio__mailbox_send appends the message, to a mailbox that has room.
LEMMA SendAppends ==
    ASSUME MailboxTypeOK, NEW m \in Msg, bio__mailbox_send(m), read' = read, open' = open
    PROVE  /\ write' \in 0 .. CounterMod - 1
           /\ data' \in [0 .. Capacity - 1 -> Msg]
           /\ NumMessages' = NumMessages + 1 /\ NumMessages < Capacity
           /\ read' # write'
           /\ Len(Messages) < Capacity
           /\ Messages' = Append(Messages, m)
<1>1. /\ read \in 0 .. CounterMod - 1 /\ write \in 0 .. CounterMod - 1
      /\ data \in [0 .. Capacity - 1 -> Msg]
  BY DEF MailboxTypeOK
<1>2. open /\ NumMessages < Capacity
  BY DEF bio__mailbox_send, bio__mailbox_can_send
<1>3. /\ read \in Nat /\ NumMessages \in Nat
      /\ data \in Ring(Capacity, Msg)
      /\ Messages = Window(data, Capacity, read, NumMessages)
  BY <1>2, MessagesAreWindow
<1>4. write' = IF write = CounterMod - 1 THEN 0 ELSE write + 1
  <2>1. write' = Mod(write + 1, CounterMod)
    BY DEF bio__mailbox_send, Incremented, Mod
  <2> QED BY <1>1, <2>1, MailboxConstants, Increment
<1>5. write' \in 0 .. CounterMod - 1 /\ read' \in 0 .. CounterMod - 1
  BY <1>1, <1>4, MailboxConstants
<1>6. NumMessages' = NumMessages + 1 /\ read' # write'
  <2>1. NumMessages = IF read <= write THEN write - read ELSE (write - read) + CounterMod
    BY <1>1, SizeIs
  <2>2. NumMessages' = IF read <= write' THEN write' - read ELSE (write' - read) + CounterMod
    <3>1. NumMessages' = (write' - read) % CounterMod
      BY DEF NumMessages
    <3>2. (write' - read) % CounterMod
              = IF read <= write' THEN write' - read ELSE (write' - read) + CounterMod
      BY <1>1, <1>5, MailboxConstants, Difference
    <3> QED BY <3>1, <3>2
  <2>3. NumMessages + 1 < CounterMod
    BY <1>2, <1>3, MailboxConstants
  <2> QED BY <1>1, <1>3, <1>4, <2>1, <2>2, <2>3, MailboxConstants
<1>7. bio_queue_index(write) = Mod(read + NumMessages, Capacity)
  <2> DEFINE k == read + NumMessages
  <2>1. k \in Nat /\ write = Mod(k, CounterMod)
    BY <1>1, <1>3, SizeIs
  <2> HIDE DEF k
  <2>2. Mod(Mod(k, CounterMod), Capacity) = Mod(k, Capacity)
    BY <2>1, MailboxConstants, ModOfMod
  <2> QED BY <2>1, <2>2 DEF bio_queue_index, Mod, k
<1>8. Mod(read + NumMessages, Capacity) \in 0 .. Capacity - 1
  <2>1. read + NumMessages \in Nat
    BY <1>3
  <2> QED BY <2>1, MailboxConstants, ModType
<1>9. data' = [data EXCEPT ![Mod(read + NumMessages, Capacity)] = m]
  BY <1>7 DEF bio__mailbox_send
<1>10. /\ data' \in Ring(Capacity, Msg)
       /\ data'[Mod(read + NumMessages, Capacity)] = m
       /\ \A k \in 0 .. Capacity - 1 : k # Mod(read + NumMessages, Capacity) => data'[k] = data[k]
  BY <1>3, <1>8, <1>9 DEF Ring
<1>11. Window(data', Capacity, read, NumMessages) = Window(data, Capacity, read, NumMessages)
  BY <1>2, <1>3, <1>10, MailboxConstants, WindowKept
<1>12. Window(data', Capacity, read, NumMessages + 1)
           = Append(Window(data', Capacity, read, NumMessages), data'[Mod(read + NumMessages, Capacity)])
  BY <1>3, <1>10, MailboxConstants, WindowAppend, ZenonT(30)
<1>13. Messages' = Window(data', Capacity, read', NumMessages')
  BY <1>2, Zenon DEF Messages, Window, bio_queue_index, Mod
<1>14. Messages' = Append(Messages, m)
  BY <1>3, <1>6, <1>10, <1>11, <1>12, <1>13
<1>15. Len(Messages) = NumMessages
  BY <1>3, MailboxConstants, WindowType
<1> QED BY <1>2, <1>5, <1>6, <1>10, <1>14, <1>15 DEF Ring

\* Receiving takes the first message out.
LEMMA DequeueTakes ==
    ASSUME MailboxTypeOK, bio__mailbox_can_recv, Dequeue, UNCHANGED <<open, write, data>>
    PROVE  /\ read' \in 0 .. CounterMod - 1
           /\ received' \in Msg
           /\ NumMessages' = NumMessages - 1 /\ NumMessages' \in Nat
           /\ Messages # << >>
           /\ received' = Head(Messages)
           /\ Messages' = Tail(Messages)
<1>1. /\ read \in 0 .. CounterMod - 1 /\ write \in 0 .. CounterMod - 1
      /\ data \in [0 .. Capacity - 1 -> Msg]
  BY DEF MailboxTypeOK
<1>2. open /\ read # write
  BY DEF bio__mailbox_can_recv
<1>3. /\ read \in Nat /\ NumMessages \in Nat
      /\ data \in Ring(Capacity, Msg)
      /\ Messages = Window(data, Capacity, read, NumMessages)
  BY <1>2, MessagesAreWindow
<1>4. /\ read' = Mod(read + 1, CounterMod)
      /\ received' = data[Mod(read, Capacity)]
  BY DEF Dequeue, Incremented, bio_queue_index, Mod
<1>5. read' = IF read = CounterMod - 1 THEN 0 ELSE read + 1
  BY <1>1, <1>4, MailboxConstants, Increment
<1>6. read' \in 0 .. CounterMod - 1
  BY <1>1, <1>5, MailboxConstants
<1>7. NumMessages' = NumMessages - 1 /\ NumMessages > 0
  <2>1. NumMessages = IF read <= write THEN write - read ELSE (write - read) + CounterMod
    BY <1>1, SizeIs
  <2>2. NumMessages' = IF read' <= write THEN write - read' ELSE (write - read') + CounterMod
    BY <1>1, <1>6, MailboxConstants, Difference DEF NumMessages
  <2> QED BY <1>1, <1>2, <1>5, <2>1, <2>2, MailboxConstants
<1>8. received' \in Msg
  <2>1. Mod(read, Capacity) \in 0 .. Capacity - 1
    BY <1>3, MailboxConstants, ModType
  <2> QED BY <1>1, <1>4, <2>1
<1>9. Consists(Messages, received', Window(data, Capacity, read', NumMessages - 1))
  <2>1. /\ Capacity \in Nat \ {0} /\ CounterMod \in Nat \ {0}
        /\ Mod(CounterMod, Capacity) = 0
    BY MailboxConstants
  <2>2. Consists(Window(data, Capacity, read, NumMessages), data[Mod(read, Capacity)],
                 Window(data, Capacity, Mod(read + 1, CounterMod), NumMessages - 1))
    BY <1>1, <1>3, <1>7, <2>1, WindowTail
  <2> QED BY <1>3, <1>4, <2>2
<1>10. Messages' = Window(data', Capacity, read', NumMessages')
  BY <1>2, Zenon DEF Messages, Window, bio_queue_index, Mod
<1>11. Messages' = Window(data, Capacity, read', NumMessages - 1)
  BY <1>7, <1>10
<1> QED BY <1>3, <1>6, <1>7, <1>8, <1>9, <1>11 DEF Consists
-----------------------------------------------------------------------------
(***************************************************************************)
(* The steps.  Each comes with what it does to the queue that the mailbox   *)
(* implements.                                                              *)
(***************************************************************************)
QueueKept == open' = open /\ Messages' = Messages /\ received' = received

\* A step that leaves the ring alone leaves the queue alone.
LEMMA RingKept ==
    ASSUME UNCHANGED <<open, read, write, data, received>>
    PROVE  QueueKept /\ NumMessages' = NumMessages
BY DEF QueueKept, Messages, NumMessages

\* The invariant holds of a mailbox just opened.
LEMMA MailboxInitInvariant == MailboxInit => MailboxInv
<1> SUFFICES ASSUME MailboxInit PROVE MailboxInv
  OBVIOUS
<1>1. MailboxTypeOK
  BY MailboxConstants DEF MailboxInit, bio__mailbox_open, MailboxTypeOK
<1>2. NumMessages = 0
  BY <1>1, SizeIs DEF MailboxTypeOK, MailboxInit, bio__mailbox_open
<1>3. Waiters /\ Overtaken
  BY DEF MailboxInit, bio__mailbox_open, Waiters, Overtaken
<1> QED BY <1>1, <1>2, <1>3, MailboxConstants DEF MailboxInv

\* A sender begins, or gives up.
LEMMA SenderStep ==
    ASSUME MailboxInv, NEW x \in Sender, (\E m \in Msg : StartSend(x, m)) \/ StopSending(x)
    PROVE  MailboxInv' /\ QueueKept
<1>1. UNCHANGED <<open, read, write, data, signal, recv_state, ret, received>>
  BY DEF StartSend, StopSending
<1>2. sending' \in [Sender -> Msg \cup {None}]
  BY DEF StartSend, StopSending, MailboxInv, MailboxTypeOK
<1>3. MailboxTypeOK' /\ Waiters' /\ Overtaken'
  BY <1>1, <1>2 DEF MailboxInv, MailboxTypeOK, Waiters, Overtaken
<1> QED BY <1>1, <1>3, RingKept DEF MailboxInv

\* A send, with the wakeup it causes.
LEMMA TrySendStep ==
    ASSUME MailboxInv, NEW x \in Sender, TrySend(x)
    PROVE  /\ MailboxInv'
           /\ sending[x] \in Msg
           /\ open /\ open' = open /\ received' = received
           /\ Len(Messages) < Capacity
           /\ Messages' = Append(Messages, sending[x])
<1>1. MailboxTypeOK /\ NumMessages <= Capacity /\ Waiters
  BY DEF MailboxInv
<1>2. sending[x] \in Msg
  BY <1>1 DEF MailboxTypeOK, TrySend
<1>3. /\ write' \in 0 .. CounterMod - 1
      /\ data' \in [0 .. Capacity - 1 -> Msg]
      /\ NumMessages' = NumMessages + 1 /\ NumMessages < Capacity
      /\ read' # write'
      /\ Len(Messages) < Capacity
      /\ Messages' = Append(Messages, sending[x])
  BY <1>1, <1>2, SendAppends DEF TrySend
<1>4. MailboxTypeOK'
  BY <1>1, <1>3
  DEF MailboxTypeOK, TrySend, bio__mailbox_send, WakeReceiver, SignalCleared
<1>5. NumMessages' <= Capacity
  BY <1>1, <1>3, SizeIs, MailboxConstants DEF MailboxTypeOK
<1>6. Waiters'
  <2>1. \A r \in Receiver : recv_state'[r] # "waiting"
    BY <1>1, NoneAssumption
    DEF MailboxTypeOK, Waiters, TrySend, bio__mailbox_send, WakeReceiver
  <2> QED BY <2>1 DEF Waiters, TrySend, bio__mailbox_send, SignalCleared
<1>7. Overtaken'
  BY <1>3 DEF Overtaken
<1> QED BY <1>2, <1>3, <1>4, <1>5, <1>6, <1>7
        DEF MailboxInv, TrySend, bio__mailbox_send, bio__mailbox_can_send

\* Closing wakes the receiver that waits.
LEMMA CloseStep ==
    ASSUME MailboxInv, bio__mailbox_close
    PROVE  MailboxInv' /\ open /\ ~open' /\ Messages' = << >> /\ received' = received
<1>1. MailboxTypeOK /\ NumMessages <= Capacity /\ Waiters
  BY DEF MailboxInv
<1>2. MailboxTypeOK'
  BY <1>1 DEF MailboxTypeOK, bio__mailbox_close, WakeReceiver
<1>3. NumMessages' = NumMessages
  BY DEF NumMessages, bio__mailbox_close
<1>4. \A r \in Receiver : recv_state'[r] # "waiting"
  BY <1>1, NoneAssumption DEF MailboxTypeOK, Waiters, bio__mailbox_close, WakeReceiver
<1>5. Waiters' /\ Overtaken'
  BY <1>4 DEF Waiters, Overtaken, bio__mailbox_close
<1>6. Messages' = << >>
  BY DEF Messages, bio__mailbox_close
<1> QED BY <1>1, <1>2, <1>3, <1>5, <1>6 DEF MailboxInv, bio__mailbox_close

\* Both ways in which a receiver gets a message.
LEMMA ReceivedStep ==
    ASSUME MailboxInv, NEW r \in Receiver, recv_state[r] # "waiting",
           bio__mailbox_can_recv, Dequeue, Return(r, "true"),
           UNCHANGED <<open, write, data, signal, sending>>
    PROVE  /\ MailboxInv'
           /\ open /\ open' = open
           /\ Messages # << >>
           /\ received' = Head(Messages)
           /\ Messages' = Tail(Messages)
<1>1. MailboxTypeOK /\ NumMessages <= Capacity /\ Waiters
  BY DEF MailboxInv
<1>2. /\ read' \in 0 .. CounterMod - 1
      /\ received' \in Msg
      /\ NumMessages' = NumMessages - 1 /\ NumMessages' \in Nat
      /\ Messages # << >>
      /\ received' = Head(Messages)
      /\ Messages' = Tail(Messages)
  BY <1>1, DequeueTakes
<1>3. MailboxTypeOK'
  BY <1>1, <1>2 DEF MailboxTypeOK, Return
<1>4. NumMessages' <= Capacity
  BY <1>1, <1>2, SizeIs, MailboxConstants DEF MailboxTypeOK
<1>5. open /\ read # write
  BY DEF bio__mailbox_can_recv
<1>6. Waiters'
  BY <1>1, <1>5, NoneAssumption DEF Waiters, MailboxTypeOK, Return
<1>7. Overtaken'
  BY <1>1 DEF Overtaken, MailboxTypeOK, Return
<1> QED BY <1>2, <1>3, <1>4, <1>5, <1>6, <1>7 DEF MailboxInv

\* What makes bio__mailbox_recv fail for r.
Justified(r) ==
    \/ ~open
    \/ \E q \in Receiver \ {r} : recv_state[q] # "idle" \/ ret[q] = "true"

\* Both ways in which a receiver is refused: the mailbox is closed, or another
\* receiver waits, or another one took the message.
LEMMA RefusedStep ==
    ASSUME MailboxInv, NEW r \in Receiver, Return(r, "false"),
           \/ recv_state[r] = "idle" /\ (~open \/ (read = write /\ signal # None))
           \/ recv_state[r] = "woken" /\ ~bio__mailbox_can_recv,
           UNCHANGED <<open, read, write, data, signal, sending, received>>
    PROVE  MailboxInv' /\ QueueKept /\ Justified(r)
<1>1. MailboxTypeOK /\ NumMessages <= Capacity /\ Waiters /\ Overtaken
  BY DEF MailboxInv
<1>2. QueueKept /\ NumMessages' = NumMessages
  BY RingKept
<1>3. MailboxTypeOK'
  BY <1>1 DEF MailboxTypeOK, Return
<1>4. Waiters'
  BY <1>1, NoneAssumption DEF Waiters, MailboxTypeOK, Return
<1>5. CASE ~open
  BY <1>1, <1>2, <1>3, <1>4, <1>5 DEF MailboxInv, Overtaken, Justified
<1>6. CASE open /\ recv_state[r] = "idle"
  <2>1. signal \in Receiver /\ recv_state[signal] = "waiting" /\ signal # r
    BY <1>1, <1>6 DEF MailboxTypeOK, Waiters
  <2>2. recv_state'[signal] = "waiting"
    BY <1>1, <2>1 DEF MailboxTypeOK, Return
  <2>3. Overtaken' /\ Justified(r)
    BY <2>1, <2>2 DEF Overtaken, Justified
  <2> QED BY <1>1, <1>2, <1>3, <1>4, <2>3 DEF MailboxInv
<1>7. CASE open /\ recv_state[r] = "woken"
  <2>1. PICK q \in Receiver :
            recv_state[q] = "waiting" \/ (recv_state[q] = "idle" /\ ret[q] = "true")
    BY <1>1, <1>7 DEF Overtaken, bio__mailbox_can_recv
  <2>2. q # r /\ recv_state'[q] = recv_state[q] /\ ret'[q] = ret[q]
    BY <1>1, <1>7, <2>1 DEF MailboxTypeOK, Return
  <2>3. Overtaken'
    BY <2>1, <2>2 DEF Overtaken
  <2>4. Justified(r)
    BY <2>1, <2>2 DEF Justified
  <2> QED BY <1>1, <1>2, <1>3, <1>4, <2>3, <2>4 DEF MailboxInv
<1> QED BY <1>5, <1>6, <1>7

\* A receiver begins to wait.
LEMMA WaitStep ==
    ASSUME MailboxInv, NEW r \in Receiver, recv_state[r] = "idle",
           open, read = write, signal = None,
           signal' = r,
           recv_state' = [recv_state EXCEPT ![r] = "waiting"],
           ret' = [ret EXCEPT ![r] = "none"],
           UNCHANGED <<open, read, write, data, sending, received>>
    PROVE  MailboxInv' /\ QueueKept
<1>1. MailboxTypeOK /\ NumMessages <= Capacity /\ Waiters
  BY DEF MailboxInv
<1>2. MailboxTypeOK'
  BY <1>1 DEF MailboxTypeOK
<1>3. Waiters'
  BY <1>1, NoneAssumption DEF MailboxTypeOK, Waiters
<1>4. Overtaken'
  BY <1>1 DEF MailboxTypeOK, Overtaken
<1> QED BY <1>1, <1>2, <1>3, <1>4, RingKept DEF MailboxInv

\* bio__mailbox_recv and its resumption, by outcome.
LEMMA ReceiveCases ==
    ASSUME MailboxInv, NEW r \in Receiver, Receive(r)
    PROVE  \/ /\ recv_state[r] # "waiting"
              /\ bio__mailbox_can_recv /\ Dequeue /\ Return(r, "true")
              /\ UNCHANGED <<open, write, data, signal, sending>>
           \/ /\ Return(r, "false")
              /\ \/ recv_state[r] = "idle" /\ (~open \/ (read = write /\ signal # None))
                 \/ recv_state[r] = "woken" /\ ~bio__mailbox_can_recv
              /\ UNCHANGED <<open, read, write, data, signal, sending, received>>
           \/ /\ recv_state[r] = "idle" /\ open /\ read = write /\ signal = None
              /\ signal' = r
              /\ recv_state' = [recv_state EXCEPT ![r] = "waiting"]
              /\ ret' = [ret EXCEPT ![r] = "none"]
              /\ UNCHANGED <<open, read, write, data, sending, received>>
<1>1. CASE bio__mailbox_recv(r)
  BY <1>1 DEF bio__mailbox_recv
<1>2. CASE RecvResumed(r)
  BY <1>2 DEF RecvResumed
<1> QED BY <1>1, <1>2 DEF Receive
-----------------------------------------------------------------------------
\* Every step keeps the invariant.
LEMMA MailboxNextInvariant == MailboxInv /\ [MailboxNext]_mailboxVars => MailboxInv'
<1> SUFFICES ASSUME MailboxInv, [MailboxNext]_mailboxVars PROVE MailboxInv'
  OBVIOUS
<1>1. ASSUME NEW x \in Sender, (\E m \in Msg : StartSend(x, m)) \/ StopSending(x)
      PROVE  MailboxInv'
  BY <1>1, SenderStep
<1>2. ASSUME NEW x \in Sender, TrySend(x)
      PROVE  MailboxInv'
  BY <1>2, TrySendStep
<1>3. ASSUME NEW r \in Receiver, Receive(r)
      PROVE  MailboxInv'
  BY <1>3, ReceiveCases, ReceivedStep, RefusedStep, WaitStep
<1>4. CASE bio__mailbox_close
  BY <1>4, CloseStep
<1>5. CASE UNCHANGED mailboxVars
  BY <1>5 DEF mailboxVars, MailboxInv, MailboxTypeOK, Waiters, Overtaken, NumMessages
<1> QED BY <1>1, <1>2, <1>3, <1>4, <1>5 DEF MailboxNext

\* The inductive invariant of a mailbox and its users.
THEOREM MailboxInvariance == MailboxSpec => []MailboxInv
BY MailboxInitInvariant, MailboxNextInvariant, PTL DEF MailboxSpec

\* The variables of bio_mailbox_t and of its users keep their types.
THEOREM MailboxTypeCorrect == MailboxSpec => []MailboxTypeOK
<1>1. MailboxInv => MailboxTypeOK
  BY DEF MailboxInv
<1> QED BY <1>1, MailboxInvariance, PTL

\* No receiver waits while the mailbox is closed or holds a message, and no two
\* wait: every send and every close wakes the one there is.
THEOREM WaitersCorrect == MailboxSpec => []Waiters
<1>1. MailboxInv => Waiters
  BY DEF MailboxInv
<1> QED BY <1>1, MailboxInvariance, PTL

\* bio__mailbox_recv fails only on a closed mailbox, unless another receiver waits
\* there or took the message.
THEOREM FalseCorrect == MailboxSpec => FalseJustified
<1> DEFINE Step == \A r \in Receiver : ret[r] # "false" /\ ret'[r] = "false" =>
                      \/ ~open
                      \/ \E q \in Receiver \ {r} : recv_state[q] # "idle" \/ ret[q] = "true"
<1>1. MailboxInv /\ [MailboxNext]_mailboxVars => [Step]_mailboxVars
  <2> SUFFICES ASSUME MailboxInv, MailboxNext, NEW r \in Receiver,
                      ret[r] # "false", ret'[r] = "false"
               PROVE  Justified(r)
    BY DEF Justified
  <2>1. ret \in [Receiver -> {"none", "true", "false"}]
    BY DEF MailboxInv, MailboxTypeOK
  <2>2. ASSUME NEW x \in Sender, (\E m \in Msg : StartSend(x, m)) \/ StopSending(x)
        PROVE  FALSE
    BY <2>2 DEF StartSend, StopSending
  <2>3. ASSUME NEW x \in Sender, TrySend(x)
        PROVE  FALSE
    BY <2>3 DEF TrySend
  <2>4. ASSUME NEW p \in Receiver, Receive(p)
        PROVE  Justified(r)
    <3>1. p = r
      BY <2>1, <2>4, ReceiveCases DEF Return
    <3>2. /\ Return(r, "false")
          /\ \/ recv_state[r] = "idle" /\ (~open \/ (read = write /\ signal # None))
             \/ recv_state[r] = "woken" /\ ~bio__mailbox_can_recv
          /\ UNCHANGED <<open, read, write, data, signal, sending, received>>
      BY <2>1, <2>4, <3>1, ReceiveCases DEF Return
    <3> QED BY <3>2, RefusedStep
  <2>5. CASE bio__mailbox_close
    BY <2>5 DEF bio__mailbox_close
  <2> QED BY <2>2, <2>3, <2>4, <2>5 DEF MailboxNext
<1> QED BY <1>1, MailboxInvariance, PTL DEF MailboxSpec, FalseJustified

\* Every behaviour of the senders and receivers of a mailbox is one of a bounded
\* FIFO, across the wrap of the counters.
THEOREM MailboxRefinement == MailboxSpec => MailboxIsFifo
<1>1. MailboxInit => MailboxFifo!Init
  <2> SUFFICES ASSUME MailboxInit PROVE MailboxFifo!Init
    OBVIOUS
  <2>1. MailboxTypeOK /\ open /\ received \in Msg /\ read = write
    BY MailboxInitInvariant DEF MailboxInit, bio__mailbox_open, MailboxInv
  <2>2. NumMessages = 0
    BY <2>1, SizeIs DEF MailboxTypeOK
  <2>3. Messages = << >>
    BY <2>1, <2>2, MessagesAreWindow, WindowEmpty
  <2> QED BY <2>1, <2>3 DEF MailboxFifo!Init, MailboxInit, bio__mailbox_open
<1>2. MailboxInv /\ [MailboxNext]_mailboxVars => [MailboxFifo!Next]_<<Messages, open, received>>
  <2> SUFFICES ASSUME MailboxInv, [MailboxNext]_mailboxVars
               PROVE  MailboxFifo!Next \/ QueueKept
    BY DEF QueueKept
  <2>1. ASSUME NEW x \in Sender, (\E m \in Msg : StartSend(x, m)) \/ StopSending(x)
        PROVE  QueueKept
    BY <2>1, SenderStep
  <2>2. ASSUME NEW x \in Sender, TrySend(x)
        PROVE  MailboxFifo!Next
    <3>1. sending[x] \in Msg /\ MailboxFifo!Send(sending[x])
      BY <2>2, TrySendStep DEF MailboxFifo!Send
    <3> QED BY <3>1 DEF MailboxFifo!Next
  <2>3. ASSUME NEW r \in Receiver, Receive(r)
        PROVE  MailboxFifo!Next \/ QueueKept
    <3>1. CASE /\ recv_state[r] # "waiting"
               /\ bio__mailbox_can_recv /\ Dequeue /\ Return(r, "true")
               /\ UNCHANGED <<open, write, data, signal, sending>>
      <4>1. MailboxFifo!Recv
        BY <3>1, ReceivedStep DEF MailboxFifo!Recv
      <4> QED BY <4>1 DEF MailboxFifo!Next
    <3>2. CASE UNCHANGED <<open, read, write, data, received>>
      BY <3>2, RingKept
    <3> QED BY <2>3, <3>1, <3>2, ReceiveCases
  <2>4. CASE bio__mailbox_close
    <3>1. MailboxFifo!Close
      BY <2>4, CloseStep DEF MailboxFifo!Close, bio__mailbox_close
    <3> QED BY <3>1 DEF MailboxFifo!Next
  <2>5. CASE UNCHANGED mailboxVars
    BY <2>5, RingKept DEF mailboxVars
  <2> QED BY <2>1, <2>2, <2>3, <2>4, <2>5 DEF MailboxNext
<1> QED BY <1>1, <1>2, MailboxInvariance, PTL DEF MailboxSpec, MailboxIsFifo, MailboxFifo!Spec
-----------------------------------------------------------------------------
(***************************************************************************)
(* The heap of delayed signals.                                             *)
(***************************************************************************)
\* The due time at a position.
DueAt(i) == timer_entries[i].due

Last == Len(timer_entries)

\* The loop that runs works at a position of the heap; a deletion may have emptied it.
Positioned ==
    /\ heap_pc = "insert" => position \in 1 .. Last
    /\ heap_pc = "delete" => position \in 1 .. Last \/ (position = 1 /\ Last = 0)

\* The entry that rises is out of order with its parent, the entry that sinks with
\* its children; its parent is in order with its children meanwhile.
HeapOrdered ==
    \A i \in 2 .. Last :
        /\ \/ heap_pc = "insert" /\ i = position
           \/ heap_pc = "delete" /\ bio_heap_parent(i) = position
           \/ DueAt(bio_heap_parent(i)) <= DueAt(i)
        /\ heap_pc \in {"insert", "delete"} /\ bio_heap_parent(i) = position /\ position > 1 =>
              DueAt(bio_heap_parent(position)) <= DueAt(i)

\* Nothing in the heap was due at the last update, once it has ended.
NoneOverdue ==
    heap_pc \in {"idle", "insert"} => \A i \in 1 .. Last : DueAt(i) > current_time_ms

HeapInv == HeapTypeOK /\ NothingLost /\ Positioned /\ HeapOrdered /\ NoneOverdue

\* Positions in a binary tree: the parent comes before its children,
LEMMA ParentFacts ==
    ASSUME NEW i \in Nat \ {0}
    PROVE  /\ bio_heap_parent(i) \in Nat
           /\ bio_heap_parent(i) < i
           /\ i > 1 => bio_heap_parent(i) >= 1
           /\ i = 2 * bio_heap_parent(i) \/ i = 2 * bio_heap_parent(i) + 1
  BY DEF bio_heap_parent

\* and every position but the first has a parent among the positions.
LEMMA ParentPosition ==
    ASSUME NEW n \in Nat, NEW i \in 2 .. n
    PROVE  bio_heap_parent(i) \in 1 .. n /\ bio_heap_parent(i) < i
<1>1. i \in Nat \ {0} /\ i > 1
  OBVIOUS
<1> QED BY <1>1, ParentFacts

\* The children of a position have it as their parent.
LEMMA ChildFacts ==
    ASSUME NEW i \in Nat \ {0}
    PROVE  bio_heap_parent(2 * i) = i /\ bio_heap_parent(2 * i + 1) = i
  BY DEF bio_heap_parent

\* The order of the natural numbers is well-founded.
LEMMA NatOrder ==
    \E R : IsWellFoundedOn(R, Nat) /\ \A n, m \in Nat : n < m => <<n, m>> \in R
<1>1. \A n, m \in Nat : n < m => <<n, m>> \in OpToRel(<, Nat)
  BY DEF OpToRel
<1> WITNESS OpToRel(<, Nat)
<1> QED BY <1>1, NatLessThanWellFounded, Zenon

\* A set of natural numbers has a least element.
LEMMA LeastElement ==
    ASSUME NEW T, T \subseteq Nat, T # {}
    PROVE  \E n \in T : \A m \in T : n <= m
<1>1. PICK R : IsWellFoundedOn(R, Nat) /\ \A n, m \in Nat : n < m => <<n, m>> \in R
  BY NatOrder
<1>2. IsWellFoundedOn(R, Nat)
  BY <1>1
<1>3. PICK n \in T : \A m \in T : ~ (<<m, n>> \in R)
  BY <1>2, WFMin, Zenon
<1>4. \A m \in T : ~ (m < n)
  BY <1>1, <1>3, Zenon
<1> QED BY <1>4

\* The due times of the heap.
LEMMA DueTimes ==
    ASSUME HeapTypeOK
    PROVE  /\ Last \in Nat
           /\ DOMAIN timer_entries = 1 .. Last
           /\ \A i \in 1 .. Last : /\ timer_entries[i] \in [signal : Signal, due : Nat]
                                   /\ timer_entries[i].signal \in Signal
                                   /\ DueAt(i) \in Nat
<1> DEFINE E == [signal : Signal, due : Nat]
<1>1. timer_entries \in Seq(E)
  BY DEF HeapTypeOK
<1> HIDE DEF E
<1>2. Last \in Nat /\ DOMAIN timer_entries = 1 .. Last /\ \A i \in 1 .. Last : timer_entries[i] \in E
  BY <1>1 DEF Last
<1> QED BY <1>2 DEF E, DueAt

\* Due times d of n entries, where only the one at q may be earlier than its parent.
RisingAt(d, n, q) ==
    \A i \in 2 .. n : /\ i = q \/ d[bio_heap_parent(i)] <= d[i]
                      /\ bio_heap_parent(i) = q /\ q > 1 => d[bio_heap_parent(q)] <= d[i]

\* Due times d of n entries, where only the one at q may be later than its children.
SinkingAt(d, n, q) ==
    \A i \in 2 .. n : /\ bio_heap_parent(i) = q \/ d[bio_heap_parent(i)] <= d[i]
                      /\ bio_heap_parent(i) = q /\ q > 1 => d[bio_heap_parent(q)] <= d[i]

\* e is d with two entries exchanged.
Exchanged(d, e, n, p, q) ==
    e[p] = d[q] /\ e[q] = d[p] /\ \A k \in 1 .. n : k # p /\ k # q => e[k] = d[k]

\* Insertion: when the entry at q changes places with its later parent p, it is
\* the only one that may still be out of order.
LEMMA RiseOrder ==
    ASSUME NEW n \in Nat, NEW q \in 2 .. n, NEW p \in 1 .. n, p = bio_heap_parent(q),
           NEW d \in [1 .. n -> Nat], NEW e \in [1 .. n -> Nat], d[p] > d[q],
           Exchanged(d, e, n, p, q), RisingAt(d, n, q)
    PROVE  RisingAt(e, n, p)
<1> USE DEF RisingAt, Exchanged
<1> SUFFICES ASSUME NEW i \in 2 .. n
             PROVE  /\ i = p \/ e[bio_heap_parent(i)] <= e[i]
                    /\ bio_heap_parent(i) = p /\ p > 1 => e[bio_heap_parent(p)] <= e[i]
  OBVIOUS
<1>1. /\ bio_heap_parent(i) \in 1 .. n /\ bio_heap_parent(i) < i
      /\ p < q
      /\ p > 1 => bio_heap_parent(p) \in 1 .. n /\ bio_heap_parent(p) < p
  BY ParentPosition
<1>2. i = p \/ e[bio_heap_parent(i)] <= e[i]
  <2>1. CASE i = q
    BY <1>1, <2>1
  <2>2. CASE i # q /\ bio_heap_parent(i) = q
    BY <1>1, <2>2
  <2>3. CASE i # q /\ bio_heap_parent(i) = p
    BY <1>1, <2>3
  <2>4. CASE i # q /\ bio_heap_parent(i) # q /\ bio_heap_parent(i) # p
    BY <1>1, <2>4
  <2> QED BY <2>1, <2>2, <2>3, <2>4
<1>3. ASSUME bio_heap_parent(i) = p, p > 1 PROVE e[bio_heap_parent(p)] <= e[i]
  <2>1. e[bio_heap_parent(p)] = d[bio_heap_parent(p)] /\ d[bio_heap_parent(p)] <= d[p]
    BY <1>1, <1>3
  <2>2. CASE i = q
    BY <1>1, <2>1, <2>2
  <2>3. CASE i # q
    <3>1. d[p] <= d[i] /\ e[i] = d[i]
      BY <1>1, <1>3, <2>3
    <3>2. d[bio_heap_parent(p)] \in Nat /\ d[p] \in Nat /\ d[i] \in Nat
      BY <1>1, <1>3
    <3> QED BY <2>1, <3>1, <3>2
  <2> QED BY <2>2, <2>3
<1> QED BY <1>2, <1>3

\* Deletion: when the entry at q changes places with its earliest child m, it is
\* the only one that may still be out of order with its children.
LEMMA SinkOrder ==
    ASSUME NEW n \in Nat, NEW q \in 1 .. n, NEW m \in 2 .. n, q = bio_heap_parent(m),
           NEW d \in [1 .. n -> Nat], NEW e \in [1 .. n -> Nat], d[m] < d[q],
           \A i \in 2 .. n : bio_heap_parent(i) = q => d[m] <= d[i],
           Exchanged(d, e, n, m, q), SinkingAt(d, n, q)
    PROVE  SinkingAt(e, n, m)
<1> USE DEF SinkingAt, Exchanged
<1> SUFFICES ASSUME NEW i \in 2 .. n
             PROVE  /\ bio_heap_parent(i) = m \/ e[bio_heap_parent(i)] <= e[i]
                    /\ bio_heap_parent(i) = m /\ m > 1 => e[bio_heap_parent(m)] <= e[i]
  OBVIOUS
<1>1. /\ bio_heap_parent(i) \in 1 .. n /\ bio_heap_parent(i) < i
      /\ q < m
      /\ q > 1 => bio_heap_parent(q) \in 1 .. n /\ bio_heap_parent(q) < q
  <2>1. bio_heap_parent(i) \in 1 .. n /\ bio_heap_parent(i) < i
    BY ParentPosition
  <2>2. q < m
    BY ParentPosition
  <2>3. q > 1 => bio_heap_parent(q) \in 1 .. n /\ bio_heap_parent(q) < q
    BY ParentPosition
  <2> QED BY <2>1, <2>2, <2>3
<1>2. CASE bio_heap_parent(i) = m
  <2>1. d[m] <= d[i] /\ e[i] = d[i]
    BY <1>1, <1>2
  <2>2. e[bio_heap_parent(m)] = d[m]
    OBVIOUS
  <2> QED BY <1>2, <2>1, <2>2
<1>3. CASE bio_heap_parent(i) = q
  <2>1. CASE i = m
    BY <1>1, <1>3, <2>1
  <2>2. CASE i # m
    <3>1. e[i] = d[i] /\ d[m] <= d[i]
      BY <1>1, <1>3, <2>2
    <3> QED BY <1>1, <1>3, <3>1
  <2> QED BY <2>1, <2>2
<1>4. CASE bio_heap_parent(i) # m /\ bio_heap_parent(i) # q
  <2>1. e[bio_heap_parent(i)] = d[bio_heap_parent(i)] /\ i # m
    BY <1>1, <1>4
  <2>2. CASE i = q
    BY <1>1, <1>4, <2>1, <2>2
  <2>3. CASE i # q
    BY <1>1, <1>4, <2>1, <2>3
  <2> QED BY <2>2, <2>3
<1> QED BY <1>2, <1>3, <1>4

\* The first entry of an ordered heap is the earliest.
LEMMA FirstIsEarliest ==
    ASSUME HeapInv, heap_pc \in {"idle", "expire"}
    PROVE  \A i \in 1 .. Last : DueAt(1) <= DueAt(i)
<1>1. Last \in Nat /\ \A i \in 1 .. Last : DueAt(i) \in Nat
  BY DueTimes DEF HeapInv
<1>2. SUFFICES ASSUME NEW k \in 1 .. Last, DueAt(k) < DueAt(1) PROVE FALSE
  BY <1>1
<1> DEFINE T == {i \in 1 .. Last : DueAt(i) < DueAt(1)}
<1>3. T \subseteq Nat /\ T # {}
  BY <1>1, <1>2
<1>4. PICK i \in T : \A m \in T : i <= m
  <2> HIDE DEF T
  <2> QED BY <1>3, LeastElement
<1>5. i \in 2 .. Last /\ DueAt(i) < DueAt(1)
  BY <1>1, <1>4
<1>6. bio_heap_parent(i) \in 1 .. Last /\ bio_heap_parent(i) < i
  BY <1>1, <1>5, ParentFacts
<1>7. DueAt(bio_heap_parent(i)) <= DueAt(i)
  BY <1>5 DEF HeapInv, HeapOrdered
<1>8. bio_heap_parent(i) \in T
  BY <1>1, <1>5, <1>6, <1>7
<1> QED BY <1>1, <1>4, <1>5, <1>6, <1>8

-----------------------------------------------------------------------------
\* bio_heap_swap exchanges two entries and keeps the others.
LEMMA SwapFacts ==
    ASSUME HeapTypeOK, NEW i \in 1 .. Last, NEW j \in 1 .. Last, i # j, bio_heap_swap(i, j)
    PROVE  /\ timer_entries' \in Seq([signal : Signal, due : Nat])
           /\ Last' = Last
           /\ position' = j
           /\ timer_entries'[i] = timer_entries[j]
           /\ timer_entries'[j] = timer_entries[i]
           /\ \A k \in 1 .. Last : k # i /\ k # j => timer_entries'[k] = timer_entries[k]
<1> DEFINE E == [signal : Signal, due : Nat]
<1>1. /\ timer_entries \in Seq(E) /\ Last \in Nat
      /\ timer_entries[i] \in E /\ timer_entries[j] \in E
  BY DueTimes DEF HeapTypeOK
<1>2. timer_entries' = [timer_entries EXCEPT ![i] = timer_entries[j], ![j] = timer_entries[i]]
  BY DEF bio_heap_swap
<1> HIDE DEF E
<1>3. timer_entries' \in Seq(E) /\ Len(timer_entries') = Len(timer_entries)
  BY <1>1, <1>2 DEF Last
<1> QED BY <1>1, <1>2, <1>3 DEF Last, E, bio_heap_swap

\* It loses no signal.
LEMMA SwapLosesNothing ==
    ASSUME HeapTypeOK, NothingLost, NEW i \in 1 .. Last, NEW j \in 1 .. Last, i # j,
           bio_heap_swap(i, j), UNCHANGED <<armed, raised>>
    PROVE  NothingLost'
<1>1. /\ timer_entries' \in Seq([signal : Signal, due : Nat]) /\ Last' = Last
      /\ timer_entries'[i] = timer_entries[j]
      /\ timer_entries'[j] = timer_entries[i]
      /\ \A k \in 1 .. Last : k # i /\ k # j => timer_entries'[k] = timer_entries[k]
  BY SwapFacts
<1>2. DOMAIN timer_entries = 1 .. Last /\ DOMAIN timer_entries' = 1 .. Last
  BY <1>1 DEF HeapTypeOK, Last
<1>3. Entries' = Entries
  <2>1. \A k \in 1 .. Last : timer_entries'[k] \in Entries
    BY <1>1, <1>2 DEF Entries
  <2>2. \A k \in 1 .. Last : timer_entries[k] \in Entries'
    BY <1>1, <1>2 DEF Entries
  <2> QED BY <1>2, <2>1, <2>2 DEF Entries
<1>4. \A k, l \in 1 .. Last : timer_entries'[k].signal = timer_entries'[l].signal => k = l
  <2>1. \A k, l \in 1 .. Last : timer_entries[k].signal = timer_entries[l].signal => k = l
    BY <1>2 DEF NothingLost
  <2> QED BY <1>1, <2>1
<1> QED BY <1>2, <1>3, <1>4 DEF NothingLost

-----------------------------------------------------------------------------
\* The invariant holds when the heap is made.
LEMMA InitHeap == bio_timer_init => HeapInv
<1> SUFFICES ASSUME bio_timer_init PROVE HeapInv
  OBVIOUS
<1> USE DEF bio_timer_init
<1>1. HeapTypeOK
  BY DEF HeapTypeOK
<1>2. NothingLost
  BY DEF NothingLost, Entries
<1> QED BY <1>1, <1>2 DEF HeapInv, Positioned, HeapOrdered, NoneOverdue, Last

\* A turn of the insertion: the new entry rises, or is in its place.
LEMMA SiftUpKeeps ==
    ASSUME HeapInv, SiftUp
    PROVE  HeapInv'
<1> USE DEF HeapInv
<1>1. /\ heap_pc = "insert" /\ position \in 1 .. Last /\ Last \in Nat
      /\ UNCHANGED <<now, current_time_ms, armed, raised>>
      /\ \A k \in 1 .. Last : DueAt(k) \in Nat
  BY DueTimes DEF SiftUp, Positioned
<1>2. CASE Rises /\ bio_heap_swap(position, bio_heap_parent(position)) /\ UNCHANGED heap_pc
  <2>1. position > 1 /\ DueAt(bio_heap_parent(position)) > DueAt(position)
    BY <1>2 DEF Rises, DueAt
  <2>2. bio_heap_parent(position) \in 1 .. Last /\ bio_heap_parent(position) < position
    BY <1>1, <2>1, ParentFacts
  <2>3. PICK q \in 2 .. Last, p \in 1 .. Last : q = position /\ p = bio_heap_parent(q)
    BY <1>1, <2>1, <2>2
  <2>4. bio_heap_swap(q, p) /\ p < q
    BY <1>2, <2>3, <2>2
  <2>5. /\ timer_entries' \in Seq([signal : Signal, due : Nat])
        /\ Last' = Last /\ position' = p
        /\ timer_entries'[q] = timer_entries[p]
        /\ timer_entries'[p] = timer_entries[q]
        /\ \A k \in 1 .. Last : k # q /\ k # p => timer_entries'[k] = timer_entries[k]
    <3>1. q \in 1 .. Last /\ q # p
      BY <1>1, <2>4
    <3>2. HeapTypeOK
      OBVIOUS
    <3> HIDE DEF HeapInv
    <3> QED BY <2>4, <3>1, <3>2, SwapFacts
  <2>6. HeapTypeOK'
    <3>1. HeapTypeOK /\ position' \in Nat \ {0}
      BY <1>1, <2>5
    <3> HIDE DEF HeapInv
    <3> QED BY <1>1, <1>2, <2>5, <3>1 DEF HeapTypeOK
  <2>7. NothingLost'
    BY <1>1, <2>4, SwapLosesNothing
  <2>8. Positioned'
    BY <1>1, <1>2, <2>5 DEF Positioned
  <2>9. NoneOverdue'
    <3>1. /\ timer_entries[p].due > current_time_ms /\ timer_entries[q].due > current_time_ms
          /\ \A k \in 1 .. Last : timer_entries[k].due > current_time_ms
      BY <1>1 DEF NoneOverdue, DueAt
    <3>2. \A k \in 1 .. Last : timer_entries'[k].due > current_time_ms
      BY <2>5, <3>1
    <3> QED BY <1>1, <2>5, <3>2 DEF NoneOverdue, DueAt
  <2>10. HeapOrdered'
    <3>1. PICK n \in Nat : n = Last
      BY <1>1
    <3>2. PICK d, e : d = [k \in 1 .. n |-> DueAt(k)] /\ e = [k \in 1 .. n |-> DueAt(k)']
      OBVIOUS
    <3>3. n = Last /\ d = [k \in 1 .. n |-> DueAt(k)] /\ e = [k \in 1 .. n |-> DueAt(k)']
      BY <3>1, <3>2
    <3>4. /\ d \in [1 .. n -> Nat] /\ e \in [1 .. n -> Nat]
          /\ d[p] > d[q] /\ Exchanged(d, e, n, p, q)
      BY <1>1, <2>1, <2>3, <2>5, <3>3 DEF DueAt, Exchanged
    <3>5. \A i \in 2 .. n : bio_heap_parent(i) \in 1 .. n
      BY <3>3, ParentFacts
    <3>6. RisingAt(d, n, q)
      BY <1>1, <2>3, <3>3, <3>5 DEF HeapOrdered, RisingAt
    <3>7. RisingAt(e, n, p)
      <4>1. q \in 2 .. n /\ p \in 1 .. n /\ p = bio_heap_parent(q)
        BY <2>3, <3>3
      <4> QED BY <4>1, <3>4, <3>6, RiseOrder
    <3>8. p > 1 => bio_heap_parent(p) \in 1 .. n
      BY <2>3, <3>3, ParentFacts
    <3>9. \A i \in 2 .. Last :
              /\ i = p \/ DueAt(bio_heap_parent(i))' <= DueAt(i)'
              /\ bio_heap_parent(i) = p /\ p > 1 => DueAt(bio_heap_parent(p))' <= DueAt(i)'
      BY <3>3, <3>5, <3>7, <3>8 DEF RisingAt
    <3> QED BY <1>1, <1>2, <2>5, <3>9 DEF HeapOrdered, DueAt
  <2> QED BY <2>6, <2>7, <2>8, <2>9, <2>10
<1>3. CASE ~Rises /\ heap_pc' = "idle" /\ UNCHANGED <<timer_entries, position>>
  <2>1. HeapTypeOK' /\ NothingLost' /\ Positioned' /\ NoneOverdue'
    BY <1>1, <1>3 DEF HeapTypeOK, NothingLost, Entries, Positioned, NoneOverdue, Last, DueAt
  <2>2. position > 1 => DueAt(bio_heap_parent(position)) <= DueAt(position)
    <3>1. position > 1 => bio_heap_parent(position) \in 1 .. Last
      BY <1>1, ParentFacts
    <3> QED BY <1>1, <1>3, <3>1 DEF Rises, DueAt
  <2>3. \A i \in 2 .. Last : DueAt(bio_heap_parent(i)) <= DueAt(i)
    BY <1>1, <2>2 DEF HeapOrdered
  <2>4. HeapOrdered'
    BY <1>3, <2>3 DEF HeapOrdered, Last, DueAt
  <2> QED BY <2>1, <2>4
<1> QED BY <1>2, <1>3 DEF SiftUp

\* The earliest of an entry and its children.
LEMMA SmallestFacts ==
    ASSUME HeapTypeOK, position \in 1 .. Last
    PROVE  /\ Smallest \in 1 .. Last
           /\ Smallest # position => /\ Smallest \in 2 .. Last
                                     /\ bio_heap_parent(Smallest) = position
                                     /\ DueAt(Smallest) < DueAt(position)
           /\ \A i \in 2 .. Last : bio_heap_parent(i) = position => DueAt(Smallest) <= DueAt(i)
<1>1. Last \in Nat /\ \A i \in 1 .. Last : DueAt(i) \in Nat
  BY DueTimes
<1>2. PICK q \in 1 .. Last : q = position
  OBVIOUS
<1>3. bio_heap_parent(2 * q) = q /\ bio_heap_parent(2 * q + 1) = q
  BY <1>1, ChildFacts
<1>4. \A i \in 2 .. Last : bio_heap_parent(i) = q => i = 2 * q \/ i = 2 * q + 1
  <2> SUFFICES ASSUME NEW i \in 2 .. Last, bio_heap_parent(i) = q
               PROVE  i = 2 * q \/ i = 2 * q + 1
    OBVIOUS
  <2>1. i \in Nat \ {0}
    BY <1>1
  <2> QED BY <2>1, ParentFacts
<1> DEFINE l == Smaller(q, 2 * q)
<1>5. /\ l \in 1 .. Last /\ DueAt(l) <= DueAt(q)
      /\ l # q => l = 2 * q /\ DueAt(l) < DueAt(q)
      /\ 2 * q <= Last => DueAt(l) <= DueAt(2 * q)
  BY <1>1 DEF Smaller, DueAt, Last
<1>6. Smallest = Smaller(l, 2 * q + 1)
  BY <1>2 DEF Smallest
<1> HIDE DEF l
<1>7. /\ Smallest \in 1 .. Last /\ DueAt(Smallest) <= DueAt(l)
      /\ Smallest # l => Smallest = 2 * q + 1 /\ DueAt(Smallest) < DueAt(l)
      /\ 2 * q + 1 <= Last => DueAt(Smallest) <= DueAt(2 * q + 1)
  <2>1. CASE 2 * q + 1 <= Last /\ DueAt(2 * q + 1) < DueAt(l)
    <3>1. Smallest = 2 * q + 1 /\ 2 * q + 1 \in 1 .. Last
      BY <1>1, <1>6, <2>1 DEF Smaller, DueAt, Last
    <3>2. DueAt(2 * q + 1) \in Nat /\ DueAt(l) \in Nat
      BY <1>1, <1>5, <3>1
    <3> QED BY <2>1, <3>1, <3>2
  <2>2. CASE ~ (2 * q + 1 <= Last /\ DueAt(2 * q + 1) < DueAt(l))
    <3>1. Smallest = l
      BY <1>6, <2>2 DEF Smaller, DueAt, Last
    <3>2. DueAt(l) \in Nat /\ (2 * q + 1 <= Last => DueAt(2 * q + 1) \in Nat)
      BY <1>1, <1>5
    <3> QED BY <1>5, <2>2, <3>1, <3>2
  <2> QED BY <2>1, <2>2
<1>8. PICK m \in 1 .. Last, k \in 1 .. Last : m = Smallest /\ k = l
  BY <1>5, <1>7
<1>9. DueAt(m) \in Nat /\ DueAt(k) \in Nat /\ DueAt(q) \in Nat
  BY <1>1
<1>10. m # q => m \in 2 .. Last /\ bio_heap_parent(m) = q /\ DueAt(m) < DueAt(q)
  BY <1>1, <1>3, <1>5, <1>7, <1>8, <1>9
<1>11. \A i \in 2 .. Last : bio_heap_parent(i) = q => DueAt(m) <= DueAt(i)
  <2> SUFFICES ASSUME NEW i \in 2 .. Last, bio_heap_parent(i) = q
               PROVE  DueAt(m) <= DueAt(i)
    OBVIOUS
  <2>1. DueAt(i) \in Nat
    BY <1>1
  <2>2. CASE i = 2 * q
    BY <1>1, <1>5, <1>7, <1>8, <1>9, <2>1, <2>2
  <2>3. CASE i = 2 * q + 1
    BY <1>1, <1>7, <1>8, <2>3
  <2> QED BY <1>4, <2>2, <2>3
<1> QED BY <1>2, <1>7, <1>8, <1>10, <1>11

\* A turn of the deletion: the moved entry sinks, or is in its place.
LEMMA SiftDownKeeps ==
    ASSUME HeapInv, SiftDown
    PROVE  HeapInv'
<1> USE DEF HeapInv
<1>1. /\ heap_pc = "delete" /\ Last \in Nat
      /\ position \in 1 .. Last \/ (position = 1 /\ Last = 0)
      /\ UNCHANGED <<now, current_time_ms, armed, raised>>
      /\ \A k \in 1 .. Last : DueAt(k) \in Nat
  BY DueTimes DEF SiftDown, Positioned
<1>2. CASE Smallest # position /\ bio_heap_swap(position, Smallest) /\ UNCHANGED heap_pc
  <2>1. position \in 1 .. Last
    <3>1. ASSUME Last = 0, position = 1 PROVE FALSE
      BY <1>2, <3>1 DEF Smallest, Smaller, Last
    <3> QED BY <1>1, <3>1
  <2>2. /\ Smallest \in 2 .. Last
        /\ bio_heap_parent(Smallest) = position
        /\ DueAt(Smallest) < DueAt(position)
        /\ \A i \in 2 .. Last : bio_heap_parent(i) = position => DueAt(Smallest) <= DueAt(i)
    BY <1>2, <2>1, SmallestFacts
  <2>3. PICK q \in 1 .. Last, m \in 2 .. Last : q = position /\ m = Smallest
    BY <2>1, <2>2
  <2>4. bio_heap_swap(q, m) /\ m \in 1 .. Last /\ q # m
    BY <1>1, <1>2, <2>3
  <2>5. /\ timer_entries' \in Seq([signal : Signal, due : Nat])
        /\ Last' = Last /\ position' = m
        /\ timer_entries'[q] = timer_entries[m]
        /\ timer_entries'[m] = timer_entries[q]
        /\ \A k \in 1 .. Last : k # q /\ k # m => timer_entries'[k] = timer_entries[k]
    <3>1. HeapTypeOK
      OBVIOUS
    <3> HIDE DEF HeapInv
    <3> QED BY <2>4, <3>1, SwapFacts
  <2>6. HeapTypeOK'
    <3>1. HeapTypeOK /\ position' \in Nat \ {0}
      BY <1>1, <2>4, <2>5
    <3> HIDE DEF HeapInv
    <3> QED BY <1>1, <1>2, <2>5, <3>1 DEF HeapTypeOK
  <2>7. NothingLost'
    BY <1>1, <2>4, SwapLosesNothing
  <2>8. Positioned' /\ NoneOverdue'
    BY <1>1, <1>2, <2>4, <2>5 DEF Positioned, NoneOverdue
  <2>9. HeapOrdered'
    <3>1. PICK n \in Nat : n = Last
      BY <1>1
    <3>2. PICK d, e : d = [k \in 1 .. n |-> DueAt(k)] /\ e = [k \in 1 .. n |-> DueAt(k)']
      OBVIOUS
    <3>3. n = Last /\ d = [k \in 1 .. n |-> DueAt(k)] /\ e = [k \in 1 .. n |-> DueAt(k)']
      BY <3>1, <3>2
    <3>4. /\ d \in [1 .. n -> Nat] /\ e \in [1 .. n -> Nat]
          /\ d[m] < d[q] /\ Exchanged(d, e, n, m, q)
      BY <1>1, <2>2, <2>3, <2>4, <2>5, <3>3 DEF DueAt, Exchanged
    <3>5. \A i \in 2 .. n : bio_heap_parent(i) \in 1 .. n
      BY ParentPosition
    <3>6. q > 1 => bio_heap_parent(q) \in 1 .. n
      BY <3>3, ParentPosition
    <3>7. SinkingAt(d, n, q)
      BY <1>1, <2>3, <3>3, <3>5, <3>6 DEF HeapOrdered, SinkingAt
    <3>8. \A i \in 2 .. n : bio_heap_parent(i) = q => d[m] <= d[i]
      BY <1>1, <2>2, <2>3, <2>4, <3>3
    <3>9. SinkingAt(e, n, m)
      <4>1. q \in 1 .. n /\ m \in 2 .. n /\ q = bio_heap_parent(m)
        BY <2>2, <2>3, <3>3
      <4> QED BY <3>1, <4>1, <3>4, <3>7, <3>8, SinkOrder
    <3>10. \A i \in 2 .. Last :
              /\ bio_heap_parent(i) = m \/ DueAt(bio_heap_parent(i))' <= DueAt(i)'
              /\ bio_heap_parent(i) = m => DueAt(bio_heap_parent(m))' <= DueAt(i)'
      <4>1. m > 1 /\ bio_heap_parent(m) \in 1 .. n
        BY <3>3, <3>5
      <4> QED BY <3>3, <3>5, <3>9, <4>1 DEF SinkingAt
    <3> QED BY <1>1, <1>2, <2>5, <3>10 DEF HeapOrdered, DueAt
  <2> QED BY <2>6, <2>7, <2>8, <2>9
<1>3. CASE Smallest = position /\ heap_pc' = "expire" /\ UNCHANGED <<timer_entries, position>>
  <2>1. HeapTypeOK' /\ NothingLost' /\ Positioned' /\ NoneOverdue'
    BY <1>1, <1>3 DEF HeapTypeOK, NothingLost, Entries, Positioned, NoneOverdue, Last, DueAt
  <2>2. \A i \in 2 .. Last : bio_heap_parent(i) = position => DueAt(bio_heap_parent(i)) <= DueAt(i)
    <3>1. CASE Last = 0
      BY <3>1
    <3>2. CASE position \in 1 .. Last
      BY <1>3, <3>2, SmallestFacts
    <3> QED BY <1>1, <3>1, <3>2
  <2>3. \A i \in 2 .. Last : DueAt(bio_heap_parent(i)) <= DueAt(i)
    BY <1>1, <2>2 DEF HeapOrdered
  <2>4. HeapOrdered'
    BY <1>3, <2>3 DEF HeapOrdered, Last, DueAt
  <2> QED BY <2>1, <2>4
<1> QED BY <1>2, <1>3 DEF SiftDown

\* The passing of time does not touch the heap.
LEMMA TickKeeps ==
    ASSUME HeapInv, Tick
    PROVE  HeapInv'
<1> USE DEF HeapInv, Tick
<1>1. HeapTypeOK'
  BY DEF HeapTypeOK
<1>2. NothingLost'
  BY DEF NothingLost, Entries
<1>3. Positioned' /\ HeapOrdered' /\ NoneOverdue'
  BY DEF Positioned, HeapOrdered, NoneOverdue, Last, DueAt
<1> QED BY <1>1, <1>2, <1>3

\* An update starts by reading the clock: it may find entries that are due.
LEMMA UpdateKeeps ==
    ASSUME HeapInv, bio_timer_update
    PROVE  HeapInv'
<1> USE DEF HeapInv, bio_timer_update
<1>1. HeapTypeOK'
  BY DEF HeapTypeOK
<1>2. NothingLost'
  BY DEF NothingLost, Entries
<1>3. Positioned' /\ HeapOrdered' /\ NoneOverdue'
  BY DEF Positioned, HeapOrdered, NoneOverdue, Last, DueAt
<1> QED BY <1>1, <1>2, <1>3

\* A new entry goes last, later than the update, with a signal that was not there.
LEMMA RaiseAfterKeeps ==
    ASSUME HeapInv, NEW s \in Signal, NEW time_ms \in Delays, bio_raise_signal_after(s, time_ms)
    PROVE  HeapInv'
<1> USE DEF HeapInv
<1>1. /\ heap_pc = "idle" /\ s \notin armed /\ armed' = armed \cup {s}
      /\ UNCHANGED <<now, current_time_ms>>
  BY DEF bio_raise_signal_after
<1>2. CASE time_ms > 0
  <2>1. /\ timer_entries' = Append(timer_entries, [signal |-> s, due |-> current_time_ms + time_ms])
        /\ position' = Last + 1 /\ heap_pc' = "insert" /\ UNCHANGED raised
    BY <1>2 DEF bio_raise_signal_after, Last
  <2>2. PICK new : new = [signal |-> s, due |-> current_time_ms + time_ms]
    OBVIOUS
  <2>3. /\ current_time_ms + time_ms \in Nat /\ current_time_ms + time_ms > current_time_ms
        /\ new.signal = s /\ new.due > current_time_ms
        /\ new \in [signal : Signal, due : Nat]
    BY <1>2, <2>2, DelaysAssumption DEF HeapTypeOK
  <2>4. PICK n \in Nat : n = Last
    BY DueTimes
  <2> DEFINE E == [signal : Signal, due : Nat]
  <2>5. timer_entries \in Seq(E) /\ new \in E /\ Len(timer_entries) = n
    BY <2>3, <2>4 DEF HeapTypeOK, Last
  <2> HIDE DEF E
  <2>6. /\ timer_entries' \in Seq(E) /\ Len(timer_entries') = n + 1
        /\ timer_entries'[n + 1] = new
        /\ \A k \in 1 .. n : timer_entries'[k] = timer_entries[k]
    BY <2>1, <2>2, <2>5
  <2>7. HeapTypeOK'
    BY <1>1, <2>1, <2>4, <2>6 DEF HeapTypeOK, E
  <2>8. DOMAIN timer_entries = 1 .. n /\ DOMAIN timer_entries' = 1 .. n + 1
    BY <2>5, <2>6
  <2>9. NothingLost'
    <3>1. Entries' = Entries \cup {new}
      BY <2>6, <2>8 DEF Entries
    <3>2. armed = raised \cup {x.signal : x \in Entries}
      BY DEF NothingLost
    <3>3. armed' = raised' \cup {x.signal : x \in Entries'}
      <4>1. {x.signal : x \in Entries'} = {x.signal : x \in Entries} \cup {s}
        BY <2>3, <3>1
      <4> QED BY <1>1, <2>1, <3>2, <4>1
    <3>4. \A k \in 1 .. n : timer_entries[k].signal # s
      BY <1>1, <2>8, <3>2 DEF Entries
    <3>5. \A i, j \in 1 .. n + 1 :
              timer_entries'[i].signal = timer_entries'[j].signal => i = j
      <4> SUFFICES ASSUME NEW i \in 1 .. n + 1, NEW j \in 1 .. n + 1,
                          timer_entries'[i].signal = timer_entries'[j].signal
                   PROVE  i = j
        OBVIOUS
      <4>1. CASE i \in 1 .. n /\ j \in 1 .. n
        BY <2>6, <2>8, <4>1 DEF NothingLost
      <4>2. CASE i = n + 1 \/ j = n + 1
        BY <2>3, <2>6, <3>4, <4>2
      <4> QED BY <4>1, <4>2
    <3>6. \A x \in Entries' : x.signal \notin raised'
      BY <1>1, <2>1, <2>3, <3>1, <3>2 DEF NothingLost
    <3>7. \A i, j \in DOMAIN timer_entries' :
              timer_entries'[i].signal = timer_entries'[j].signal => i = j
      BY <2>8, <3>5
    <3> QED BY <3>3, <3>6, <3>7, Zenon DEF NothingLost
  <2>10. Positioned'
    BY <2>1, <2>4, <2>6 DEF Positioned, Last
  <2>11. \A i \in 2 .. n : /\ bio_heap_parent(i) \in 1 .. n
                          /\ timer_entries[bio_heap_parent(i)].due <= timer_entries[i].due
    BY <1>1, <2>4, ParentPosition DEF HeapOrdered, DueAt
  <2>12. HeapOrdered'
    <3>1. \A i \in 2 .. n + 1 : bio_heap_parent(i) # n + 1
      BY ParentPosition
    <3>2. \A i \in 2 .. n : timer_entries'[bio_heap_parent(i)].due <= timer_entries'[i].due
      BY <2>6, <2>11
    <3>3. \A i \in 2 .. n + 1 :
              /\ i = n + 1 \/ timer_entries'[bio_heap_parent(i)].due <= timer_entries'[i].due
              /\ bio_heap_parent(i) # n + 1
      BY <3>1, <3>2
    <3>4. Last' = n + 1 /\ position' = n + 1
      BY <2>1, <2>4, <2>6 DEF Last
    <3> QED BY <2>1, <3>3, <3>4 DEF HeapOrdered, DueAt
  <2>13. NoneOverdue'
    <3>1. \A i \in 1 .. n : timer_entries[i].due > current_time_ms
      BY <1>1, <2>4 DEF NoneOverdue, DueAt
    <3>2. \A i \in 1 .. n + 1 : timer_entries'[i].due > current_time_ms
      BY <2>3, <2>6, <3>1
    <3> QED BY <1>1, <2>6, <3>2 DEF NoneOverdue, Last, DueAt
  <2> QED BY <2>7, <2>9, <2>10, <2>12, <2>13
<1>3. CASE ~ (time_ms > 0)
  <2>1. raised' = raised \cup {s} /\ UNCHANGED <<timer_entries, position, heap_pc>>
    BY <1>3 DEF bio_raise_signal_after
  <2>2. HeapTypeOK'
    BY <1>1, <2>1 DEF HeapTypeOK
  <2>3. NothingLost'
    BY <1>1, <2>1 DEF NothingLost, Entries
  <2>4. Positioned' /\ HeapOrdered' /\ NoneOverdue'
    BY <1>1, <2>1 DEF Positioned, HeapOrdered, NoneOverdue, Last, DueAt
  <2> QED BY <2>2, <2>3, <2>4
<1> QED BY <1>2, <1>3

\* The first entry leaves the heap as its signal is raised, and the others stay.
LEMMA ExpireKeeps ==
    ASSUME HeapInv, Expire
    PROVE  HeapInv'
<1> USE DEF HeapInv
<1>1. heap_pc = "expire" /\ UNCHANGED <<now, current_time_ms, armed>>
  BY DEF Expire
<1>2. CASE /\ IsDue /\ raised' = raised \cup {timer_entries[1].signal}
           /\ timer_entries' = WithoutFirst /\ position' = 1 /\ heap_pc' = "delete"
  <2>1. PICK n \in Nat : n = Last
    BY DueTimes
  <2> DEFINE E == [signal : Signal, due : Nat]
  <2>2. /\ timer_entries \in Seq(E) /\ Len(timer_entries) = n /\ n > 0
        /\ DOMAIN timer_entries = 1 .. n
        /\ \A k \in 1 .. n : timer_entries[k] \in E
    BY <1>2, <2>1, DueTimes DEF IsDue, HeapTypeOK, Last
  <2>3. timer_entries[1].signal \in Signal
    BY <2>2
  <2> HIDE DEF E
  <2>4. timer_entries' = [i \in 1 .. n - 1 |-> timer_entries[IF i = 1 THEN n ELSE i]]
    BY <1>2, <2>2 DEF WithoutFirst
  <2>5. /\ timer_entries' \in Seq(E) /\ Len(timer_entries') = n - 1
        /\ DOMAIN timer_entries' = 1 .. n - 1
    BY <2>2, <2>4
  <2>6. /\ \A k \in 2 .. n - 1 : timer_entries'[k] = timer_entries[k]
        /\ n > 1 => timer_entries'[1] = timer_entries[n]
    BY <2>2, <2>4
  <2>7. HeapTypeOK'
    BY <1>1, <1>2, <2>3, <2>5 DEF HeapTypeOK, E
  <2>8. NothingLost'
    <3>1. Entries' = {timer_entries[k] : k \in 2 .. n}
      <4>1. \A k \in 1 .. n - 1 : \E i \in 2 .. n : timer_entries'[k] = timer_entries[i]
        <5> TAKE k \in 1 .. n - 1
        <5>1. CASE k = 1
          BY <2>6, <5>1
        <5>2. CASE k # 1
          BY <2>6, <5>2
        <5> QED BY <5>1, <5>2
      <4>2. \A k \in 2 .. n : \E i \in 1 .. n - 1 : timer_entries[k] = timer_entries'[i]
        <5> TAKE k \in 2 .. n
        <5>1. CASE k = n
          <6>1. n > 1 /\ 1 \in 1 .. n - 1
            OBVIOUS
          <6> QED BY <2>6, <5>1, <6>1
        <5>2. CASE k # n
          BY <2>6, <5>2
        <5> QED BY <5>1, <5>2
      <4>3. Entries' = {timer_entries'[k] : k \in 1 .. n - 1}
        BY <2>5 DEF Entries
      <4> HIDE DEF HeapInv
      <4> QED BY <4>1, <4>2, <4>3
    <3>2. Entries = {timer_entries[1]} \cup {timer_entries[k] : k \in 2 .. n}
      BY <2>2 DEF Entries
    <3>3. \A i, j \in 1 .. n : timer_entries[i].signal = timer_entries[j].signal => i = j
      BY <2>2 DEF NothingLost
    <3>4. armed' = raised' \cup {x.signal : x \in Entries'}
      <4>1. {x.signal : x \in Entries} = {timer_entries[1].signal} \cup {x.signal : x \in Entries'}
        BY <3>1, <3>2
      <4>2. armed = raised \cup {x.signal : x \in Entries}
        BY DEF NothingLost
      <4> HIDE DEF HeapInv
      <4> QED BY <1>1, <1>2, <4>1, <4>2
    <3>5. \A x \in Entries' : x.signal \notin raised'
      <4>1. \A k \in 2 .. n : timer_entries[k].signal # timer_entries[1].signal
        BY <2>2, <3>3
      <4>2. \A k \in 2 .. n : timer_entries[k].signal \notin raised
        BY <3>2 DEF NothingLost
      <4> QED BY <1>2, <3>1, <4>1, <4>2
    <3>6. \A i, j \in 1 .. n - 1 :
              timer_entries'[i].signal = timer_entries'[j].signal => i = j
      <4> SUFFICES ASSUME NEW i \in 1 .. n - 1, NEW j \in 1 .. n - 1,
                          timer_entries'[i].signal = timer_entries'[j].signal
                   PROVE  i = j
        OBVIOUS
      <4>1. /\ timer_entries'[i] = timer_entries[IF i = 1 THEN n ELSE i]
            /\ timer_entries'[j] = timer_entries[IF j = 1 THEN n ELSE j]
        BY <2>4
      <4>2. (IF i = 1 THEN n ELSE i) \in 1 .. n /\ (IF j = 1 THEN n ELSE j) \in 1 .. n
        OBVIOUS
      <4>3. (IF i = 1 THEN n ELSE i) = (IF j = 1 THEN n ELSE j)
        BY <3>3, <4>1, <4>2
      <4> QED BY <4>3
    <3>7. \A i, j \in DOMAIN timer_entries' :
              timer_entries'[i].signal = timer_entries'[j].signal => i = j
      BY <2>5, <3>6
    <3> QED BY <3>4, <3>5, <3>7, Zenon DEF NothingLost
  <2>9. Positioned' /\ NoneOverdue'
    BY <1>2, <2>5 DEF Positioned, NoneOverdue, Last
  <2>10. HeapOrdered'
    <3>1. \A i \in 2 .. n - 1 : bio_heap_parent(i) \in 1 .. n - 1
      BY <2>2, ParentPosition
    <3>2. \A i \in 2 .. n - 1 : timer_entries[bio_heap_parent(i)].due <= timer_entries[i].due
      BY <1>1, <2>1, <2>2 DEF HeapOrdered, DueAt
    <3>3. \A i \in 2 .. n - 1 :
              bio_heap_parent(i) = 1 \/ timer_entries'[bio_heap_parent(i)].due <= timer_entries'[i].due
      BY <2>6, <3>1, <3>2
    <3> QED BY <1>2, <2>5, <3>3 DEF HeapOrdered, Last, DueAt
  <2> QED BY <2>7, <2>8, <2>9, <2>10
<1>3. CASE ~IsDue /\ heap_pc' = "idle" /\ UNCHANGED <<timer_entries, position, raised>>
  <2>1. HeapTypeOK'
    BY <1>1, <1>3 DEF HeapTypeOK
  <2>2. NothingLost'
    BY <1>1, <1>3 DEF NothingLost, Entries
  <2>3. Positioned' /\ HeapOrdered'
    BY <1>1, <1>3 DEF Positioned, HeapOrdered, Last, DueAt
  <2>4. \A i \in 1 .. Last : DueAt(1) <= DueAt(i) /\ DueAt(i) \in Nat /\ DueAt(1) \in Nat
    BY <1>1, FirstIsEarliest, DueTimes
  <2>5. Last > 0 => DueAt(1) > current_time_ms
    <3>1. Last \in Nat /\ current_time_ms \in Nat
      BY DueTimes DEF HeapTypeOK
    <3>2. Last > 0 => timer_entries # <<>> /\ DueAt(1) \in Nat
      BY <2>4 DEF Last
    <3> QED BY <1>3, <3>1, <3>2 DEF IsDue, DueAt
  <2>6. NoneOverdue'
    <3>1. \A i \in 1 .. Last : DueAt(i) > current_time_ms
      BY <2>4, <2>5, DueTimes DEF HeapTypeOK
    <3> QED BY <1>1, <1>3, <3>1 DEF NoneOverdue, Last, DueAt
  <2> QED BY <2>1, <2>2, <2>3, <2>6
<1> QED BY <1>2, <1>3 DEF Expire

\* The invariant is about the variables of the heap.
LEMMA StutterKeeps ==
    ASSUME HeapInv, UNCHANGED heapVars
    PROVE  HeapInv'
  BY DEF HeapInv, heapVars, HeapTypeOK, NothingLost, Entries, Positioned, HeapOrdered,
         NoneOverdue, Last, DueAt

\* The heap and the loops that work on it keep their invariant.
THEOREM HeapInvariance == HeapSpec => []HeapInv
<1>1. HeapInv /\ [HeapNext]_heapVars => HeapInv'
  BY TickKeeps, RaiseAfterKeeps, SiftUpKeeps, UpdateKeeps, ExpireKeeps, SiftDownKeeps, StutterKeeps
  DEF HeapNext
<1> QED BY InitHeap, <1>1, PTL DEF HeapSpec

\* bio_time_until_next_timer tells the time to the earliest entry of an ordered heap.
LEMMA SleepIsExact == HeapInv => SleepExact
<1> SUFFICES ASSUME HeapInv, heap_pc = "idle" PROVE SleepExact
  BY DEF SleepExact
<1>1. Last \in Nat /\ DOMAIN timer_entries = 1 .. Last
  BY DueTimes DEF HeapInv
<1>2. CASE Last = 0
  <2>1. timer_entries = <<>> /\ Entries = {}
    BY <1>1, <1>2 DEF HeapInv, HeapTypeOK, Last, Entries
  <2> QED BY <2>1 DEF SleepExact, bio_time_until_next_timer
<1>3. CASE Last > 0
  <2>1. timer_entries # <<>> /\ timer_entries[1] \in Entries
    BY <1>1, <1>3 DEF Last, Entries
  <2>2. \A f \in Entries : timer_entries[1].due <= f.due
    BY <1>1, FirstIsEarliest DEF Entries, DueAt
  <2> DEFINE first == CHOOSE e \in Entries : \A f \in Entries : e.due <= f.due
  <2>3. first \in Entries /\ \A f \in Entries : first.due <= f.due
    BY <2>1, <2>2
  <2>4. \A f \in Entries : f.due \in Nat
    BY <1>1, DueTimes DEF HeapInv, Entries, DueAt
  <2> HIDE DEF first
  <2>5. first.due = timer_entries[1].due
    BY <2>1, <2>2, <2>3, <2>4
  <2>6. bio_time_until_next_timer = IF first.due < now THEN 0 ELSE first.due - now
    BY <2>1, <2>5 DEF bio_time_until_next_timer
  <2> QED BY <2>1, <2>6 DEF SleepExact, first
<1> QED BY <1>1, <1>2, <1>3

\* bio_loop is told to sleep exactly until the earliest delayed signal is due.
THEOREM SleepIsAlwaysExact == HeapSpec => []SleepExact
  BY HeapInvariance, SleepIsExact, PTL

\* No delayed signal is lost or raised twice by the swaps of the heap.
THEOREM NoSignalIsLost == HeapSpec => []NothingLost
<1>1. HeapInv => NothingLost
  BY DEF HeapInv
<1> QED BY HeapInvariance, <1>1, PTL

\* bio_timer_update raises every signal that is due: between updates none that was
\* due at the last one is in the heap.
THEOREM UpdateRaisesAllDue == HeapSpec => []NoneOverdue
<1>1. HeapInv => NoneOverdue
  BY DEF HeapInv
<1> QED BY HeapInvariance, <1>1, PTL

=============================================================================
