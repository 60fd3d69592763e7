----------------------------- MODULE PortsProofs -----------------------------
(***************************************************************************)
(* What a program may rely on of files and sockets, proved for every number *)
(* of coroutines, descriptors and open files: what the ports share, Linux   *)
(* and FreeBSD.  WindowsProofs has Windows and the theorems.                *)
(*                                                                          *)
(* Each port is treated in the same way.  Its actions are first shown to be *)
(* among a few kinds of steps, told by what they do to descriptors, objects *)
(* and calls (LinuxStep, BsdStep); each kind is then shown to keep each     *)
(* part of the port's inductive invariant (LinuxInv, BsdInv).               *)
(***************************************************************************)
EXTENDS Ports, FiniteSetTheorems, SequenceTheorems, WellFoundedInduction, TLAPS

\* The handle of object o is open, and its descriptor stands for its open file.
ObjectHolds(o, F) ==
    /\ obj[o].fd \in F
    /\ obj[o].file \in Nat \ {0}
    /\ dt[obj[o].fd] = obj[o].file
    /\ obj[o].file \notin lost

\* The same of a call that has to close its descriptor or to hand it over.
CallHolds(c, F) ==
    /\ call[c].fd \in F
    /\ call[c].file \in Nat \ {0}
    /\ dt[call[c].fd] = call[c].file
    /\ call[c].file \notin lost

\* Every open object and every call that owns a descriptor holds it, and no two
\* of them hold the same.
Holders(C, F) ==
    /\ \A o \in DOMAIN obj : obj[o].live => ObjectHolds(o, F)
    /\ \A c \in C : call[c].own => CallHolds(c, F)
    /\ \A o, p \in DOMAIN obj : obj[o].live /\ obj[p].live /\ obj[o].fd = obj[p].fd => o = p
    /\ \A c, d \in C : call[c].own /\ call[d].own /\ call[c].fd = call[d].fd => c = d
    /\ \A o \in DOMAIN obj, c \in C : obj[o].live /\ call[c].own => obj[o].fd # call[c].fd

\* Somebody is to close the open descriptor fd, or the port has lost it.
Held(C, fd) ==
    \/ \E o \in DOMAIN obj : obj[o].live /\ obj[o].fd = fd
    \/ \E c \in C : call[c].own /\ call[c].fd = fd
    \/ dt[fd] \in lost

\* The descriptor table: each open file was made once, and has one descriptor.
Table(F) ==
    /\ dt \in [F -> Nat]
    /\ files \in Nat
    /\ lost \subseteq Nat
    /\ \A fd \in F : dt[fd] <= files
    /\ \A x \in lost : x # 0 /\ x <= files
    /\ \A fd, g \in F : dt[fd] = dt[g] /\ dt[fd] # 0 => fd = g

\* Who owns the open descriptors, for the coroutines C and the descriptors F of a
\* port. This is the part of the inductive invariants that the ports share.
Owned(C, F) ==
    /\ Table(F)
    /\ Holders(C, F)
    /\ \A fd \in F : dt[fd] # 0 => Held(C, fd)

\* As far as ownership goes, object o is left alone.
SameObject(o) ==
    /\ obj'[o].live = obj[o].live
    /\ obj[o].live => obj'[o].fd = obj[o].fd /\ obj'[o].file = obj[o].file

\* No object changes hands.
SameObjects == DOMAIN obj' = DOMAIN obj /\ \A o \in DOMAIN obj : SameObject(o)

\* No object but o changes hands.
SameObjectsBut(o) == DOMAIN obj' = DOMAIN obj /\ \A p \in DOMAIN obj \ {o} : SameObject(p)

\* Object n is new and holds that open file; no other object changes hands.
NewObject(n, fd, file) ==
    /\ DOMAIN obj' = DOMAIN obj \cup {n}
    /\ n \notin DOMAIN obj
    /\ \A o \in DOMAIN obj : SameObject(o)
    /\ obj'[n].live
    /\ obj'[n].fd = fd
    /\ obj'[n].file = file

\* As far as ownership goes, the call of c is left alone.
SameCall(c) ==
    /\ call'[c].own = call[c].own
    /\ call[c].own => call'[c].fd = call[c].fd /\ call'[c].file = call[c].file

\* No call of C gains or gives up a descriptor.
SameCalls(C) == \A c \in C : SameCall(c)

\* No call of C but that of c does.
SameCallsBut(C, c) == \A d \in C \ {c} : SameCall(d)

\* The kernel opens a file at the free descriptor fd.
Opened(fd) == dt[fd] = 0 /\ dt' = [dt EXCEPT ![fd] = files + 1] /\ files' = files + 1

\* Ownership is kept when nothing changes hands.
LEMMA OwnedKept ==
    ASSUME NEW C, NEW F, Owned(C, F), UNCHANGED <<dt, files, lost>>, SameObjects, SameCalls(C)
    PROVE  Owned(C, F)'
  BY DEF Owned, Table, Holders, Held, ObjectHolds, CallHolds, SameObjects, SameObject, SameCalls, SameCall

\* Ownership is kept when a new open file becomes an object.
LEMMA OwnedOpenObject ==
    ASSUME NEW C, NEW F, Owned(C, F), NEW fd \in F, NEW n, Opened(fd), UNCHANGED lost,
           NewObject(n, fd, files + 1), SameCalls(C)
    PROVE  Owned(C, F)'
  BY DEF Owned, Table, Holders, Held, ObjectHolds, CallHolds, NewObject, SameObject, SameCalls, SameCall, Opened

\* Ownership is kept when a call gets a new open file.
LEMMA OwnedOpenCall ==
    ASSUME NEW C, NEW F, Owned(C, F), NEW fd \in F, NEW c \in C, Opened(fd), UNCHANGED lost,
           SameObjects, SameCallsBut(C, c), ~call[c].own, call'[c].own, call'[c].fd = fd,
           call'[c].file = files + 1
    PROVE  Owned(C, F)'
  BY DEF Owned, Table, Holders, Held, ObjectHolds, CallHolds, SameObjects, SameObject, SameCallsBut, SameCall, Opened

\* Ownership is kept when a new open file is lost at once, and said to be.
LEMMA OwnedOpenLost ==
    ASSUME NEW C, NEW F, Owned(C, F), NEW fd \in F, Opened(fd), lost' = lost \cup {files + 1},
           SameObjects, SameCalls(C)
    PROVE  Owned(C, F)'
  BY DEF Owned, Table, Holders, Held, ObjectHolds, CallHolds, SameObjects, SameObject, SameCalls, SameCall, Opened

\* Ownership is kept when a call hands its descriptor to a new object.
LEMMA OwnedWrap ==
    ASSUME NEW C, NEW F, Owned(C, F), NEW c \in C, NEW n, UNCHANGED <<dt, files, lost>>,
           NewObject(n, call[c].fd, call[c].file), SameCallsBut(C, c), call[c].own, ~call'[c].own
    PROVE  Owned(C, F)'
  BY DEF Owned, Table, Holders, Held, ObjectHolds, CallHolds, NewObject, SameObject, SameCallsBut, SameCall

\* Ownership is kept when the call that closes a handle takes over its
\* descriptor.
LEMMA OwnedCloseHandle ==
    ASSUME NEW C, NEW F, Owned(C, F), NEW c \in C, NEW o \in DOMAIN obj, UNCHANGED <<dt, files, lost>>,
           SameObjectsBut(o), obj[o].live, ~obj'[o].live, SameCallsBut(C, c), ~call[c].own, call'[c].own,
           call'[c].fd = obj[o].fd, call'[c].file = obj[o].file
    PROVE  Owned(C, F)'
  BY DEF Owned, Table, Holders, Held, ObjectHolds, CallHolds, SameObjectsBut, SameObject, SameCallsBut, SameCall

\* Ownership is kept when a call closes its descriptor.
LEMMA OwnedCloseCall ==
    ASSUME NEW C, NEW F, Owned(C, F), NEW c \in C, dt' = [dt EXCEPT ![call[c].fd] = 0],
           UNCHANGED <<files, lost>>, SameObjects, SameCallsBut(C, c), call[c].own, ~call'[c].own
    PROVE  Owned(C, F)'
  BY DEF Owned, Table, Holders, Held, ObjectHolds, CallHolds, SameObjects, SameObject, SameCallsBut, SameCall

\* Ownership is kept when a handle and its descriptor are closed together.
LEMMA OwnedCloseObject ==
    ASSUME NEW C, NEW F, Owned(C, F), NEW o \in DOMAIN obj, dt' = [dt EXCEPT ![obj[o].fd] = 0],
           UNCHANGED <<files, lost>>, SameObjectsBut(o), SameCalls(C), obj[o].live, ~obj'[o].live
    PROVE  Owned(C, F)'
<1> USE DEF Table, Holders, ObjectHolds, CallHolds, SameObjectsBut, SameObject, SameCalls, SameCall
<1>1. Table(F)' BY DEF Owned
<1>2. Holders(C, F)' BY DEF Owned
<1>3. ASSUME NEW g \in F, dt'[g] # 0 PROVE Held(C, g)'
  <2>1. CASE dt[g] = 0
    BY <1>3, <2>1 DEF Owned, Held
  <2>2. CASE dt[g] # 0
    <3>1. Held(C, g)
      BY <2>2 DEF Owned
    <3>2. CASE \E p \in DOMAIN obj : obj[p].live /\ obj[p].fd = g
      BY <1>3, <3>2 DEF Owned, Held
    <3>3. CASE \E d \in C : call[d].own /\ call[d].fd = g
      BY <1>3, <3>3 DEF Owned, Held
    <3>4. CASE dt[g] \in lost
      BY <1>3, <3>4 DEF Owned, Held
    <3> QED BY <3>1, <3>2, <3>3, <3>4 DEF Held
  <2> QED BY <2>1, <2>2 DEF Owned
<1> QED BY <1>1, <1>2, <1>3 DEF Owned

\* Ownership is kept when a handle is closed and its descriptor lost.
LEMMA OwnedObjectLost ==
    ASSUME NEW C, NEW F, Owned(C, F), NEW o \in DOMAIN obj, UNCHANGED <<dt, files>>,
           lost' = lost \cup {obj[o].file}, SameObjectsBut(o), SameCalls(C),
           obj[o].live, ~obj'[o].live
    PROVE  Owned(C, F)'
<1> USE DEF Table, Holders, ObjectHolds, CallHolds, SameObjectsBut, SameObject, SameCalls, SameCall
<1>0. obj[o].file \in Nat \ {0} /\ obj[o].file <= files BY DEF Owned
<1>1. Table(F)' BY <1>0 DEF Owned
<1>2. Holders(C, F)' BY DEF Owned
<1>3. ASSUME NEW g \in F, dt'[g] # 0 PROVE Held(C, g)'
  <2>1. CASE dt[g] = 0
    BY <1>3, <2>1 DEF Owned, Held
  <2>2. CASE dt[g] # 0
    <3>1. Held(C, g)
      BY <2>2 DEF Owned
    <3>2. CASE \E p \in DOMAIN obj : obj[p].live /\ obj[p].fd = g
      BY <1>3, <3>2 DEF Owned, Held
    <3>3. CASE \E d \in C : call[d].own /\ call[d].fd = g
      BY <1>3, <3>3 DEF Owned, Held
    <3>4. CASE dt[g] \in lost
      BY <1>3, <3>4 DEF Owned, Held
    <3> QED BY <3>1, <3>2, <3>3, <3>4 DEF Held
  <2> QED BY <2>1, <2>2 DEF Owned
<1> QED BY <1>1, <1>2, <1>3 DEF Owned

\* Ownership is kept when the descriptor of a call is lost.
LEMMA OwnedCallLost ==
    ASSUME NEW C, NEW F, Owned(C, F), NEW c \in C, UNCHANGED <<dt, files>>,
           lost' = lost \cup {call[c].file}, SameObjects, SameCallsBut(C, c),
           call[c].own, ~call'[c].own
    PROVE  Owned(C, F)'
<1> USE DEF Table, Holders, ObjectHolds, CallHolds, SameObjects, SameObject, SameCallsBut, SameCall
<1>0. call[c].file \in Nat \ {0} /\ call[c].file <= files BY DEF Owned
<1>1. Table(F)' BY <1>0 DEF Owned
<1>2. Holders(C, F)' BY DEF Owned
<1>3. ASSUME NEW g \in F, dt'[g] # 0 PROVE Held(C, g)'
  <2>1. CASE dt[g] = 0
    BY <1>3, <2>1 DEF Owned, Held
  <2>2. CASE dt[g] # 0
    <3>1. Held(C, g)
      BY <2>2 DEF Owned
    <3>2. CASE \E p \in DOMAIN obj : obj[p].live /\ obj[p].fd = g
      BY <1>3, <3>2 DEF Owned, Held
    <3>3. CASE \E d \in C : call[d].own /\ call[d].fd = g
      BY <1>3, <3>3 DEF Owned, Held
    <3>4. CASE dt[g] \in lost
      BY <1>3, <3>4 DEF Owned, Held
    <3> QED BY <3>1, <3>2, <3>3, <3>4 DEF Held
  <2> QED BY <2>1, <2>2 DEF Owned
<1> QED BY <1>1, <1>2, <1>3 DEF Owned

\* Object o gives up its descriptor for that of a new open file, as a pipe does
\* for every client.
Swapped(o, fd) ==
    /\ dt[fd] = 0
    /\ files' = files + 1
    /\ obj[o].live
    /\ obj'[o].live
    /\ obj'[o].fd = fd
    /\ obj'[o].file = files + 1

\* Ownership is kept when a pipe gets a new instance and the old one is closed.
LEMMA OwnedSwapClose ==
    ASSUME NEW C, NEW F, Owned(C, F), NEW o \in DOMAIN obj, NEW fd \in F, Swapped(o, fd),
           dt' = [dt EXCEPT ![fd] = files + 1, ![obj[o].fd] = 0], UNCHANGED lost,
           SameObjectsBut(o), SameCalls(C)
    PROVE  Owned(C, F)'
<1> USE DEF Table, Holders, ObjectHolds, CallHolds, SameObjectsBut, SameObject, SameCalls, SameCall, Swapped
<1>1. Table(F)' BY DEF Owned
<1>2. Holders(C, F)' BY DEF Owned
<1>3. ASSUME NEW g \in F, dt'[g] # 0 PROVE Held(C, g)'
  <2>1. CASE dt[g] = 0
    BY <1>3, <2>1 DEF Owned, Held
  <2>2. CASE dt[g] # 0
    <3>1. Held(C, g)
      BY <2>2 DEF Owned
    <3>2. CASE \E p \in DOMAIN obj : obj[p].live /\ obj[p].fd = g
      BY <1>3, <3>2 DEF Owned, Held
    <3>3. CASE \E d \in C : call[d].own /\ call[d].fd = g
      BY <1>3, <3>3 DEF Owned, Held
    <3>4. CASE dt[g] \in lost
      BY <1>3, <3>4 DEF Owned, Held
    <3> QED BY <3>1, <3>2, <3>3, <3>4 DEF Held
  <2> QED BY <2>1, <2>2 DEF Owned
<1> QED BY <1>1, <1>2, <1>3 DEF Owned

\* Ownership is kept when a pipe gets a new instance and the old one is lost.
LEMMA OwnedSwapLost ==
    ASSUME NEW C, NEW F, Owned(C, F), NEW o \in DOMAIN obj, NEW fd \in F, Swapped(o, fd),
           dt' = [dt EXCEPT ![fd] = files + 1], lost' = lost \cup {obj[o].file},
           SameObjectsBut(o), SameCalls(C)
    PROVE  Owned(C, F)'
<1> USE DEF Table, Holders, ObjectHolds, CallHolds, SameObjectsBut, SameObject, SameCalls, SameCall, Swapped
<1>0. obj[o].file \in Nat \ {0} /\ obj[o].file <= files BY DEF Owned
<1>1. Table(F)'
  <2>1. \A x \in lost' : x \in Nat /\ x # 0 /\ x <= files'
    BY <1>0 DEF Owned
  <2>2. dt' \in [F -> Nat] /\ files' \in Nat /\ \A g \in F : dt'[g] <= files'
    BY DEF Owned
  <2>3. \A g, h \in F : dt'[g] = dt'[h] /\ dt'[g] # 0 => g = h
    BY DEF Owned
  <2> QED BY <2>1, <2>2, <2>3
<1>2. Holders(C, F)' BY DEF Owned
<1>3. ASSUME NEW g \in F, dt'[g] # 0 PROVE Held(C, g)'
  <2>1. CASE dt[g] = 0
    BY <1>3, <2>1 DEF Owned, Held
  <2>2. CASE dt[g] # 0
    <3>1. Held(C, g)
      BY <2>2 DEF Owned
    <3>2. CASE \E p \in DOMAIN obj : obj[p].live /\ obj[p].fd = g
      BY <1>3, <3>2 DEF Owned, Held
    <3>3. CASE \E d \in C : call[d].own /\ call[d].fd = g
      BY <1>3, <3>3 DEF Owned, Held
    <3>4. CASE dt[g] \in lost
      BY <1>3, <3>4 DEF Owned, Held
    <3> QED BY <3>1, <3>2, <3>3, <3>4 DEF Held
  <2> QED BY <2>1, <2>2 DEF Owned
<1> QED BY <1>1, <1>2, <1>3 DEF Owned

\* Ownership is kept when a pipe gets a new instance and the call that waits for
\* a client gets the old one.
LEMMA OwnedSwapCall ==
    ASSUME NEW C, NEW F, Owned(C, F), NEW o \in DOMAIN obj, NEW fd \in F, Swapped(o, fd),
           dt' = [dt EXCEPT ![fd] = files + 1], UNCHANGED lost, NEW c \in C,
           SameObjectsBut(o), SameCallsBut(C, c), ~call[c].own, call'[c].own,
           call'[c].fd = obj[o].fd, call'[c].file = obj[o].file
    PROVE  Owned(C, F)'
<1> USE DEF Table, Holders, ObjectHolds, CallHolds, SameObjectsBut, SameObject, SameCallsBut, SameCall, Swapped
<1>1. Table(F)' BY DEF Owned
<1>2. Holders(C, F)' BY DEF Owned
<1>3. ASSUME NEW g \in F, dt'[g] # 0 PROVE Held(C, g)'
  <2>1. CASE dt[g] = 0
    BY <1>3, <2>1 DEF Owned, Held
  <2>2. CASE dt[g] # 0
    <3>1. Held(C, g)
      BY <2>2 DEF Owned
    <3>2. CASE \E p \in DOMAIN obj : obj[p].live /\ obj[p].fd = g
      BY <1>3, <3>2 DEF Owned, Held
    <3>3. CASE \E d \in C : call[d].own /\ call[d].fd = g
      BY <1>3, <3>3 DEF Owned, Held
    <3>4. CASE dt[g] \in lost
      BY <1>3, <3>4 DEF Owned, Held
    <3> QED BY <3>1, <3>2, <3>3, <3>4 DEF Held
  <2> QED BY <2>1, <2>2 DEF Owned
<1> QED BY <1>1, <1>2, <1>3 DEF Owned

\* Ownership is kept when a pipe gets a new instance and the client's object gets
\* the old one.
LEMMA OwnedSwapObject ==
    ASSUME NEW C, NEW F, Owned(C, F), NEW o \in DOMAIN obj, NEW fd \in F, Swapped(o, fd),
           dt' = [dt EXCEPT ![fd] = files + 1], UNCHANGED lost, NEW n, n \notin DOMAIN obj,
           DOMAIN obj' = DOMAIN obj \cup {n}, \A p \in DOMAIN obj \ {o} : SameObject(p),
           obj'[n].live, obj'[n].fd = obj[o].fd, obj'[n].file = obj[o].file, SameCalls(C)
    PROVE  Owned(C, F)'
<1> USE DEF Table, Holders, ObjectHolds, CallHolds, SameObject, SameCalls, SameCall, Swapped
<1>1. Table(F)' BY DEF Owned
<1>2. Holders(C, F)' BY DEF Owned
<1>3. ASSUME NEW g \in F, dt'[g] # 0 PROVE Held(C, g)'
  <2>1. CASE dt[g] = 0
    BY <1>3, <2>1 DEF Owned, Held
  <2>2. CASE dt[g] # 0
    <3>1. Held(C, g)
      BY <2>2 DEF Owned
    <3>2. CASE \E p \in DOMAIN obj : obj[p].live /\ obj[p].fd = g
      BY <1>3, <3>2 DEF Owned, Held
    <3>3. CASE \E d \in C : call[d].own /\ call[d].fd = g
      BY <1>3, <3>3 DEF Owned, Held
    <3>4. CASE dt[g] \in lost
      BY <1>3, <3>4 DEF Owned, Held
    <3> QED BY <3>1, <3>2, <3>3, <3>4 DEF Held
  <2> QED BY <2>1, <2>2 DEF Owned
<1> QED BY <1>1, <1>2, <1>3 DEF Owned

\* Ownership is kept when a pipe is closed together with the instances of the
\* calls S that wait on it.
LEMMA OwnedCloseAll ==
    ASSUME NEW C, NEW F, Owned(C, F), NEW o \in DOMAIN obj, NEW S \in SUBSET C,
           \A d \in S : call[d].own /\ ~call'[d].own,
           dt' = [fd \in F |-> IF fd = obj[o].fd \/ \E d \in S : call[d].fd = fd THEN 0 ELSE dt[fd]],
           UNCHANGED <<files, lost>>, SameObjectsBut(o), \A d \in C \ S : SameCall(d),
           obj[o].live, ~obj'[o].live
    PROVE  Owned(C, F)'
<1> USE DEF Table, Holders, ObjectHolds, CallHolds, SameObjectsBut, SameObject, SameCall
<1>1. Table(F)' BY DEF Owned
<1>2. Holders(C, F)' BY DEF Owned
<1>3. ASSUME NEW g \in F, dt'[g] # 0 PROVE Held(C, g)'
  <2>1. CASE dt[g] = 0
    BY <1>3, <2>1 DEF Owned, Held
  <2>2. CASE dt[g] # 0
    <3>1. Held(C, g)
      BY <2>2 DEF Owned
    <3>2. CASE \E p \in DOMAIN obj : obj[p].live /\ obj[p].fd = g
      BY <1>3, <3>2 DEF Owned, Held
    <3>3. CASE \E d \in C : call[d].own /\ call[d].fd = g
      BY <1>3, <3>3 DEF Owned, Held
    <3>4. CASE dt[g] \in lost
      BY <1>3, <3>4 DEF Owned, Held
    <3> QED BY <3>1, <3>2, <3>3, <3>4 DEF Held
  <2> QED BY <2>1, <2>2 DEF Owned
<1> QED BY <1>1, <1>2, <1>3 DEF Owned

\* The order of the natural numbers is well founded, whatever relation says so.
LEMMA NatOrder ==
    \E R : IsWellFoundedOn(R, Nat) /\ \A n, m \in Nat : n < m => <<n, m>> \in R
<1>1. \A n, m \in Nat : n < m => <<n, m>> \in OpToRel(<, Nat)
  BY DEF OpToRel
<1> WITNESS OpToRel(<, Nat)
<1> QED BY <1>1, NatLessThanWellFounded, Zenon

\* A set of natural numbers has a least element.
LEMMA LeastElement ==
    ASSUME NEW T, T \subseteq Nat, T # {}
    PROVE  \E n \in T : \A m \in T : n <= m
<1>1. PICK R : IsWellFoundedOn(R, Nat) /\ \A n, m \in Nat : n < m => <<n, m>> \in R
  BY NatOrder
<1>2. IsWellFoundedOn(R, Nat)
  BY <1>1
<1>3. PICK n \in T : \A m \in T : ~ (<<m, n>> \in R)
  BY <1>2, WFMin, Zenon
<1>4. \A m \in T : ~ (m < n)
  BY <1>1, <1>3, Zenon
<1> QED BY <1>4

\* A table with a free descriptor has a least one.
LEMMA LeastFree ==
    ASSUME NEW m \in Nat, NEW D \in [0 .. m -> Nat], \E fd \in 0 .. m : D[fd] = 0
    PROVE  \E fd \in 0 .. m : D[fd] = 0 /\ \A g \in 0 .. m : D[g] = 0 => fd <= g
<1> DEFINE T == {fd \in 0 .. m : D[fd] = 0}
<1>1. T \subseteq Nat /\ T # {}
  OBVIOUS
<1>2. PICK x \in T : \A y \in T : x <= y
  BY <1>1, LeastElement
<1> QED BY <1>2

-----------------------------------------------------------------------------
\* What the ports call Owners.
OwnersOf(C, fd) ==
    {<<"object", o>> : o \in {p \in DOMAIN obj : obj[p].live /\ obj[p].fd = fd}}
    \cup {<<"call", c>> : c \in {d \in C : call[d].own /\ call[d].fd = fd}}
    \cup (IF dt[fd] \in lost THEN {<<"lost", dt[fd]>>} ELSE {})

\* Ownership says that an open descriptor has one owner and a closed one none.
LEMMA OneOwner ==
    ASSUME NEW C, NEW F, Owned(C, F), NEW fd \in F
    PROVE  Cardinality(OwnersOf(C, fd)) = (IF dt[fd] = 0 THEN 0 ELSE 1)
<1> USE DEF Owned, Table, Holders, ObjectHolds, CallHolds
<1>1. CASE dt[fd] = 0
  <2>1. OwnersOf(C, fd) = {}
    BY <1>1 DEF OwnersOf
  <2> QED BY <1>1, <2>1, FS_EmptySet
<1>2. CASE dt[fd] # 0
  <2>1. Held(C, fd)
    BY <1>2
  <2>2. \E x : OwnersOf(C, fd) = {x}
    <3>1. CASE dt[fd] \in lost
      <4>1. OwnersOf(C, fd) = {<<"lost", dt[fd]>>}
        BY <3>1 DEF OwnersOf
      <4> QED BY <4>1
    <3>2. ASSUME NEW o \in DOMAIN obj, obj[o].live /\ obj[o].fd = fd
          PROVE  OwnersOf(C, fd) = {<<"object", o>>}
      BY <3>2 DEF OwnersOf
    <3>3. ASSUME NEW c \in C, call[c].own /\ call[c].fd = fd
          PROVE  OwnersOf(C, fd) = {<<"call", c>>}
      BY <3>3 DEF OwnersOf
    <3> QED BY <2>1, <3>1, <3>2, <3>3 DEF Held
  <2>3. PICK x : OwnersOf(C, fd) = {x}
    BY <2>2
  <2>4. Cardinality({x}) = 1
    BY FS_Singleton
  <2> QED BY <1>2, <2>3, <2>4
<1> QED BY <1>1, <1>2

\* The operations of all ports.
Op == {"none", "fopen", "transfer", "use", "close", "listen", "connect", "accept",
       "send", "recv", "net_close", "job", "fstat", "fflush", "flush", "fclose"}

\* The requests an operation of any port makes.
Step == {"none", "open", "lseek", "transfer", "use", "close", "socket", "bind", "listen",
         "connect", "accept", "shutdown", "event", "job", "aio", "probe", "ioctl", "pipe",
         "unlinked"}

\* Where a request of any port may stand.
At == {"none", "queued", "flight", "done", "undefined", "registered", "raised", "ready",
       "forgotten", "pool", "wait", "overwritten"}

\* The calls of all ports.
CallRecord(F) ==
    [op : Op, step : Step, o : Nat, fd : F, file : Nat, own : BOOLEAN, at : At,
     res : {"none", "ok", "err", "pending", "connected"}, pkt : {"none", "due", "taken"}]

\* The objects of all ports.
ObjectRecord(C, F) ==
    [kind : {"none", "file", "socket", "ws", "pipe"}, fd : F, file : Nat,
     live : BOOLEAN, mem : BOOLEAN,
     mode : {"none", "unknown", "enabled", "disabled", "skip", "always"},
     listen : BOOLEAN, acceptors : Seq([c : C, stale : BOOLEAN])]

\* The type invariant of a port, with the coroutines C and the descriptors F.
Typed(C, F) ==
    /\ obj \in Seq(ObjectRecord(C, F))
    /\ call \in [C -> CallRecord(F)]

\* A coroutine that is not in a call; the records the ports build are repeated
\* here under one name.
NoCall ==
    [op |-> "none", step |-> "none", o |-> 0, fd |-> 0, file |-> 0,
     own |-> FALSE, at |-> "none", res |-> "none", pkt |-> "none"]

\* A call that begins on object o.
TheCall(op, step, o, at) ==
    [NoCall EXCEPT !.op = op, !.step = step, !.o = o, !.at = at,
                   !.fd = IF o = 0 THEN 0 ELSE obj[o].fd,
                   !.file = IF o = 0 THEN 0 ELSE obj[o].file]

\* A new object.
TheObject(kind, fd, file, mode) ==
    [kind |-> kind, fd |-> fd, file |-> file, live |-> TRUE, mem |-> TRUE,
     mode |-> mode, listen |-> FALSE, acceptors |-> <<>>]

\* An object whose memory was freed.
FreedObject == [TheObject("none", 0, 0, "none") EXCEPT !.live = FALSE, !.mem = FALSE]

\* Only the call of c changes, and only there.
Others(C, c) == \A d \in C \ {c} : call'[d] = call[d]

\* The call of c goes on with the object and the descriptor it has.
Goes(C, c, step, at, res) ==
    /\ Others(C, c)
    /\ call'[c].op = call[c].op
    /\ call'[c].step = step
    /\ call'[c].o = call[c].o
    /\ call'[c].fd = call[c].fd
    /\ call'[c].file = call[c].file
    /\ call'[c].own = call[c].own
    /\ call'[c].at = at
    /\ call'[c].res = res

\* The call of c begins.
Begins(C, c, op, step, o, fd, file, own, at) ==
    /\ Others(C, c)
    /\ call[c] = NoCall
    /\ call'[c].op = op
    /\ call'[c].step = step
    /\ call'[c].o = o
    /\ call'[c].fd = fd
    /\ call'[c].file = file
    /\ call'[c].own = own
    /\ call'[c].at = at
    /\ call'[c].res = "none"
    /\ call'[c].pkt = "none"

\* The call of c returns.
Returns(C, c) == Others(C, c) /\ call'[c] = NoCall

\* A file or socket is added to the objects.
Grown(n, kind, fd, file, mode) ==
    /\ n \notin DOMAIN obj
    /\ DOMAIN obj' = DOMAIN obj \cup {n}
    /\ \A o \in DOMAIN obj : obj'[o] = obj[o]
    /\ obj'[n].kind = kind
    /\ obj'[n].fd = fd
    /\ obj'[n].file = file
    /\ obj'[n].live
    /\ obj'[n].mem
    /\ obj'[n].mode = mode
    /\ obj'[n].acceptors = <<>>

\* The memory of object o is freed.
Frees(o) ==
    /\ DOMAIN obj' = DOMAIN obj
    /\ \A p \in DOMAIN obj \ {o} : obj'[p] = obj[p]
    /\ obj'[o].kind = "none"
    /\ ~obj'[o].live
    /\ ~obj'[o].mem
    /\ obj'[o].mode = "none"
    /\ obj'[o].acceptors = <<>>

\* The fields of an object have their types.
LEMMA ObjectAt ==
    ASSUME NEW C, NEW F, Typed(C, F), NEW o \in DOMAIN obj
    PROVE  /\ o \in Nat \ {0}
           /\ obj[o] \in ObjectRecord(C, F)
           /\ obj[o].fd \in F
           /\ obj[o].file \in Nat
           /\ obj[o].live \in BOOLEAN
           /\ obj[o].mem \in BOOLEAN
<1>1. o \in Nat \ {0} /\ obj[o] \in ObjectRecord(C, F)
  BY DEF Typed
<1> QED BY <1>1 DEF ObjectRecord

\* The fields of a coroutine that is not in a call.
LEMMA NoCallFields ==
    ASSUME NEW F, 0 \in F
    PROVE  /\ NoCall \in CallRecord(F)
           /\ NoCall.op = "none" /\ NoCall.step = "none" /\ NoCall.o = 0 /\ NoCall.fd = 0
           /\ NoCall.file = 0 /\ NoCall.own = FALSE /\ NoCall.at = "none"
           /\ NoCall.res = "none" /\ NoCall.pkt = "none"
  BY DEF NoCall, CallRecord, Op, Step, At

\* The fields of a call that has just begun.
Fresh(r, F, op, step, o, fd, file, at) ==
    /\ r \in CallRecord(F)
    /\ r.op = op /\ r.step = step /\ r.o = o /\ r.fd = fd /\ r.file = file
    /\ r.own = FALSE /\ r.at = at /\ r.res = "none" /\ r.pkt = "none"

\* What a call begins with: descriptor and open file of its object, if it has one.
LEMMA CallFields ==
    ASSUME NEW C, NEW F, Typed(C, F), 0 \in F, NEW op \in Op, NEW step \in Step, NEW at \in At,
           NEW o \in DOMAIN obj, NEW r, r = TheCall(op, step, o, at)
    PROVE  Fresh(r, F, op, step, o, obj[o].fd, obj[o].file, at)
<1>1. o \in Nat \ {0} /\ obj[o].fd \in F /\ obj[o].file \in Nat
  BY ObjectAt
<1>2. r = [NoCall EXCEPT !.op = op, !.step = step, !.o = o, !.at = at, !.fd = obj[o].fd,
                         !.file = obj[o].file]
  BY <1>1 DEF TheCall
<1> QED BY <1>1, <1>2, NoCallFields DEF CallRecord, Fresh

\* The same of a call that has no object.
LEMMA FreeCallFields ==
    ASSUME NEW F, 0 \in F, NEW op \in Op, NEW step \in Step, NEW at \in At,
           NEW r, r = TheCall(op, step, 0, at)
    PROVE  Fresh(r, F, op, step, 0, 0, 0, at)
<1>2. r = [NoCall EXCEPT !.op = op, !.step = step, !.o = 0, !.at = at, !.fd = 0, !.file = 0]
  BY DEF TheCall
<1> QED BY <1>2, NoCallFields DEF CallRecord, Fresh

\* The fields of an object whose memory was freed.
LEMMA FreedFields ==
    ASSUME NEW C, NEW F, 0 \in F, NEW r, r = FreedObject
    PROVE  /\ r \in ObjectRecord(C, F)
           /\ r.kind = "none" /\ r.live = FALSE /\ r.mem = FALSE /\ r.acceptors = <<>>
           /\ r.mode = "none"
<1>1. PICK t : t = TheObject("none", 0, 0, "none")
  OBVIOUS
<1>2. /\ t \in ObjectRecord(C, F)
      /\ t.kind = "none" /\ t.mode = "none" /\ t.acceptors = <<>>
  BY <1>1 DEF TheObject, ObjectRecord
<1>3. r = [t EXCEPT !.live = FALSE, !.mem = FALSE]
  BY <1>1 DEF FreedObject
<1> QED BY <1>2, <1>3 DEF ObjectRecord

\* What adding an object does.
LEMMA GrowFacts ==
    ASSUME NEW C, NEW F, Typed(C, F), NEW kind \in {"none", "file", "socket", "ws", "pipe"},
           NEW fd \in F, NEW file \in Nat,
           NEW mode \in {"none", "unknown", "enabled", "disabled", "skip", "always"},
           obj' = Append(obj, TheObject(kind, fd, file, mode))
    PROVE  obj' \in Seq(ObjectRecord(C, F)) /\ Grown(Len(obj) + 1, kind, fd, file, mode)
<1>1. PICK r : r = TheObject(kind, fd, file, mode)
  OBVIOUS
<1>2. /\ r \in ObjectRecord(C, F)
      /\ r.kind = kind /\ r.fd = fd /\ r.file = file /\ r.live = TRUE /\ r.mem = TRUE
      /\ r.mode = mode /\ r.acceptors = <<>>
  BY <1>1 DEF TheObject, ObjectRecord
<1>3. obj' = Append(obj, r) /\ obj \in Seq(ObjectRecord(C, F))
  BY <1>1 DEF Typed
<1>4. /\ obj' \in Seq(ObjectRecord(C, F))
      /\ Len(obj) + 1 \notin DOMAIN obj
      /\ DOMAIN obj' = DOMAIN obj \cup {Len(obj) + 1}
      /\ \A o \in DOMAIN obj : obj'[o] = obj[o]
      /\ obj'[Len(obj) + 1] = r
  BY <1>2, <1>3
<1> QED BY <1>2, <1>4 DEF Grown

\* What freeing an object does.
LEMMA FreeFacts ==
    ASSUME NEW C, NEW F, Typed(C, F), 0 \in F, NEW o \in DOMAIN obj,
           obj' = [obj EXCEPT ![o] = FreedObject]
    PROVE  obj' \in Seq(ObjectRecord(C, F)) /\ Frees(o)
<1>1. PICK r : r = FreedObject
  OBVIOUS
<1>2. /\ r \in ObjectRecord(C, F)
      /\ r.kind = "none" /\ r.live = FALSE /\ r.mem = FALSE /\ r.acceptors = <<>>
      /\ r.mode = "none"
  BY <1>1, FreedFields
<1>3. obj' = [obj EXCEPT ![o] = r] /\ obj \in Seq(ObjectRecord(C, F))
  BY <1>1 DEF Typed
<1>4. /\ obj' \in Seq(ObjectRecord(C, F))
      /\ DOMAIN obj' = DOMAIN obj
      /\ \A p \in DOMAIN obj \ {o} : obj'[p] = obj[p]
      /\ obj'[o] = r
  BY <1>2, <1>3
<1> QED BY <1>2, <1>4 DEF Frees

\* What setting a call does.
LEMMA UpdateFacts ==
    ASSUME NEW C, NEW F, Typed(C, F), NEW c \in C, NEW r \in CallRecord(F),
           call' = [call EXCEPT ![c] = r]
    PROVE  call' \in [C -> CallRecord(F)] /\ Others(C, c) /\ call'[c] = r
  BY DEF Typed, Others

\* What the return of a call does.
LEMMA ReturnFacts ==
    ASSUME NEW C, NEW F, Typed(C, F), 0 \in F, NEW c \in C, call' = [call EXCEPT ![c] = NoCall]
    PROVE  call' \in [C -> CallRecord(F)] /\ Returns(C, c)
  BY NoCallFields, UpdateFacts DEF Returns

\* The descriptor of a new open file.
LEMMA FreeDescriptor ==
    ASSUME NEW m \in Nat, dt \in [0 .. m -> Nat], \E fd \in 0 .. m : dt[fd] = 0,
           NEW fd, fd = CHOOSE f \in 0 .. m : dt[f] = 0 /\ \A g \in 0 .. m : dt[g] = 0 => f <= g
    PROVE  fd \in 0 .. m /\ dt[fd] = 0
<1>1. \E f \in 0 .. m : dt[f] = 0 /\ \A g \in 0 .. m : dt[g] = 0 => f <= g
  BY LeastFree
<1> QED BY <1>1

\* Cardinality is the same in every port, though each instance has its own.
LEMMA Counts ==
    \A S : /\ Linux!Cardinality(S) = Cardinality(S)
          /\ FreeBsd!Cardinality(S) = Cardinality(S)
          /\ Windows!Cardinality(S) = Cardinality(S)
  BY Zenon DEF Linux!Cardinality, FreeBsd!Cardinality, Windows!Cardinality, Cardinality

\* The records of the Linux port are the ones above.
LEMMA LinuxNames ==
    /\ Linux!Idle = NoCall
    /\ Linux!Freed = FreedObject
    /\ \A op, step, o, at : Linux!Call(op, step, o, at) = TheCall(op, step, o, at)
    /\ \A kind, fd, file, mode : Linux!Object(kind, fd, file, mode) = TheObject(kind, fd, file, mode)
  BY Zenon DEF Linux!Idle, NoCall, Linux!Freed, FreedObject, Linux!Call, TheCall, Linux!Object, TheObject

-----------------------------------------------------------------------------
(***************************************************************************)
(* Linux.                                                                   *)
(***************************************************************************)
LinuxFd == 0 .. MaxFd

\* The requests that make an open file.
LinuxCreates == {"open", "socket", "accept"}

\* The steps in which the call itself has to close the descriptor.
LinuxOwn(r) ==
    \/ r.step \in {"lseek", "bind", "listen", "connect", "shutdown"}
    \/ r.step = "close" /\ r.at # "done"
    \/ r.step \in LinuxCreates /\ r.at = "done" /\ r.res = "ok"

\* Nothing happens to descriptors.
KernelSame == UNCHANGED <<dt, files, strayed, lost>>

\* The kernel takes the request at the head of the submission queue.
LTake(c) ==
    /\ sq # <<>>
    /\ c = Head(sq)
    /\ sq' = Tail(sq)
    /\ Goes(Pair, c, call[c].step, "flight", call[c].res)
    /\ UNCHANGED <<dt, files, obj, lost>>
    /\ \/ strayed' = strayed
       \/ call[c].step \notin {"open", "socket"} /\ dt[call[c].fd] \notin {0, call[c].file}

\* A request ends and makes no descriptor.
LEnd(c, res) ==
    /\ call[c].at = "flight"
    /\ call[c].step # "close"
    /\ res = "ok" => call[c].step \notin LinuxCreates
    /\ Goes(Pair, c, call[c].step, "done", res)
    /\ KernelSame
    /\ UNCHANGED <<obj, sq>>

\* A request ends with a new descriptor.
LMade(c, fd) ==
    /\ call[c].at = "flight"
    /\ call[c].step \in LinuxCreates
    /\ Opened(fd)
    /\ Others(Pair, c)
    /\ call'[c].op = call[c].op
    /\ call'[c].step = call[c].step
    /\ call'[c].o = call[c].o
    /\ call'[c].fd = fd
    /\ call'[c].file = files + 1
    /\ call'[c].own
    /\ call'[c].at = "done"
    /\ call'[c].res = "ok"
    /\ UNCHANGED <<strayed, lost, obj, sq>>

\* A descriptor is closed.
LClosed(c) ==
    /\ call[c].at = "flight"
    /\ call[c].step = "close"
    /\ dt' = [dt EXCEPT ![call[c].fd] = 0]
    /\ Others(Pair, c)
    /\ call'[c].op = call[c].op
    /\ call'[c].step = call[c].step
    /\ call'[c].o = call[c].o
    /\ ~call'[c].own
    /\ call'[c].at = "done"
    /\ UNCHANGED <<files, strayed, lost, obj, sq>>

\* A call begins that makes an open file.
LMake(c, op, step) ==
    /\ <<op, step>> \in {<<"fopen", "open">>, <<"listen", "socket">>, <<"connect", "socket">>}
    /\ Begins(Pair, c, op, step, 0, 0, 0, FALSE, "queued")
    /\ sq' = Append(sq, c)
    /\ KernelSame
    /\ UNCHANGED obj

\* A call begins that uses the open file of an object.
LUse(c, op, o) ==
    /\ op \in {"transfer", "use", "accept"}
    /\ obj[o].live
    /\ Begins(Pair, c, op, op, o, obj[o].fd, obj[o].file, FALSE, "queued")
    /\ sq' = Append(sq, c)
    /\ KernelSame
    /\ UNCHANGED obj

\* bio_fs_test_lseek runs on the file just opened.
LSeek(c) ==
    /\ call[c].at = "done" /\ call[c].step = "open" /\ call[c].res = "ok"
    /\ Goes(Pair, c, "lseek", "flight", "ok")
    /\ KernelSame
    /\ UNCHANGED <<obj, sq>>

\* A call that owns its descriptor makes its next request.
LContinue(c, step) ==
    /\ step \in {"bind", "listen", "connect", "close"}
    /\ call[c].at = "done" /\ LinuxOwn(call[c])
    /\ Goes(Pair, c, step, "queued", "none")
    /\ sq' = Append(sq, c)
    /\ KernelSame
    /\ UNCHANGED obj

\* A call that owns nothing returns.
LReturn(c) ==
    /\ call[c].at = "done" /\ ~LinuxOwn(call[c])
    /\ Returns(Pair, c)
    /\ KernelSame
    /\ UNCHANGED <<obj, sq>>

\* A read or write finds its file freed.
LUndefined(c) ==
    /\ call[c].at = "done" /\ call[c].step = "transfer"
    /\ ~obj[call[c].o].mem
    /\ Goes(Pair, c, call[c].step, "undefined", call[c].res)
    /\ KernelSame
    /\ UNCHANGED <<obj, sq>>

\* A call hands its descriptor to a new object.
LWrap(c, kind) ==
    /\ call[c].at = "done" /\ LinuxOwn(call[c])
    /\ Returns(Pair, c)
    /\ Grown(Len(obj) + 1, kind, call[c].fd, call[c].file, "none")
    /\ KernelSame
    /\ UNCHANGED sq

\* bio_fdopen: a descriptor of the program becomes a file.
LFdopen(fd) ==
    /\ Opened(fd)
    /\ Grown(Len(obj) + 1, "file", fd, files + 1, "none")
    /\ UNCHANGED <<call, strayed, lost, sq>>

\* bio_net_wrap fails, and the descriptor of the program is lost.
LNetWrap(fd) ==
    /\ Opened(fd)
    /\ lost' = lost \cup {files + 1}
    /\ UNCHANGED <<call, strayed, obj, sq>>

\* bio_net_accept takes descriptor 0 for a failure, and loses it.
LLose(c) ==
    /\ call[c].at = "done" /\ call[c].step = "accept" /\ call[c].res = "ok"
    /\ lost' = lost \cup {call[c].file}
    /\ Returns(Pair, c)
    /\ UNCHANGED <<dt, files, strayed, obj, sq>>

\* A handle is closed; the call that closes it owns the descriptor.
LClose(c, o, step) ==
    /\ step \in {"close", "shutdown"}
    /\ obj[o].live
    /\ Frees(o)
    /\ Begins(Pair, c, "close", step, o, obj[o].fd, obj[o].file, TRUE, "queued")
    /\ sq' = Append(sq, c)
    /\ KernelSame

\* The steps of the port, told by what they do.
LinuxStepOf(c) ==
    \/ LTake(c) \/ LClosed(c) \/ LSeek(c) \/ LReturn(c) \/ LUndefined(c) \/ LLose(c)
    \/ \E res \in {"ok", "err"} : LEnd(c, res)
    \/ \E fd \in LinuxFd : LMade(c, fd)
    \/ \E op \in Op, step \in Step : LMake(c, op, step)
    \/ \E op \in Op, o \in DOMAIN obj : LUse(c, op, o)
    \/ \E step \in Step : LContinue(c, step)
    \/ \E kind \in {"file", "socket"} : LWrap(c, kind)
    \/ \E o \in DOMAIN obj, step \in Step : LClose(c, o, step)
    \/ \E fd \in LinuxFd : LFdopen(fd) \/ LNetWrap(fd)

\* A step of some coroutine, well typed.
LinuxStep == Typed(Pair, LinuxFd)' /\ \E c \in Pair : LinuxStepOf(c)

\* What the descriptions of the steps rest on.
LinuxPre ==
    /\ Typed(Pair, LinuxFd)
    /\ dt \in [LinuxFd -> Nat]
    /\ files \in Nat
    /\ sq \in Seq(Pair)
    /\ \A c \in Pair : call[c].step = "transfer" => call[c].o \in DOMAIN obj

\* 0 is a descriptor.
LEMMA LinuxZero == 0 \in LinuxFd
  BY BoundAssumption DEF LinuxFd

\* The kernel opens a file at a free descriptor.
LEMMA LinuxNewFd ==
    ASSUME LinuxPre, Linux!OpenFile
    PROVE  Linux!NewFd \in LinuxFd /\ Opened(Linux!NewFd)
<1>1. PICK fd : fd = Linux!NewFd
  OBVIOUS
<1>2. MaxFd \in Nat /\ dt \in [0 .. MaxFd -> Nat] /\ \E f \in 0 .. MaxFd : dt[f] = 0
  BY BoundAssumption DEF LinuxPre, LinuxFd, Linux!Fd, Linux!OpenFile, Linux!CanOpen
<1>3. fd = CHOOSE f \in 0 .. MaxFd : dt[f] = 0 /\ \A g \in 0 .. MaxFd : dt[g] = 0 => f <= g
  BY <1>1 DEF Linux!NewFd, Linux!Fd
<1>4. fd \in 0 .. MaxFd /\ dt[fd] = 0
  BY <1>2, <1>3, FreeDescriptor
<1> QED BY <1>1, <1>4 DEF Opened, Linux!OpenFile, Linux!NewFile, LinuxFd

\* A call of object o begins with a request in the queue.
LEMMA LinuxBegin ==
    ASSUME LinuxPre, NEW c \in Pair, NEW op \in Op, NEW step \in Step, NEW o \in DOMAIN obj,
           Linux!Begin(c, op, step, o)
    PROVE  /\ Typed(Pair, LinuxFd)'
           /\ Begins(Pair, c, op, step, o, obj[o].fd, obj[o].file, FALSE, "queued")
           /\ sq' = Append(sq, c)
           /\ KernelSame
           /\ UNCHANGED obj
<1>0. PICK r : r = TheCall(op, step, o, "queued")
  OBVIOUS
<1>1. "queued" \in At
  BY DEF At
<1>2. Fresh(r, LinuxFd, op, step, o, obj[o].fd, obj[o].file, "queued")
  BY <1>0, <1>1, LinuxZero, CallFields DEF LinuxPre
<1>3. Linux!Begin(c, op, step, o) /\ r = Linux!Call(op, step, o, "queued")
  BY <1>0, LinuxNames
<1>4. PICK q : q = [r EXCEPT !.at = "queued", !.res = "none"]
  OBVIOUS
<1>5. /\ q \in CallRecord(LinuxFd)
      /\ q.op = op /\ q.step = step /\ q.o = o /\ q.at = "queued" /\ q.fd = obj[o].fd
      /\ q.file = obj[o].file /\ q.own = FALSE /\ q.res = "none" /\ q.pkt = "none"
  BY <1>1, <1>2, <1>4 DEF CallRecord, Fresh
<1>6. /\ call' = [call EXCEPT ![c] = q] /\ call[c] = NoCall
      /\ sq' = Append(sq, c) /\ KernelSame /\ UNCHANGED obj
  BY <1>3, <1>4, LinuxNames
     DEF Linux!Begin, Linux!bio_submit_io_req, Linux!Update, Linux!kernelVars, KernelSame
<1>7. call' \in [Pair -> CallRecord(LinuxFd)] /\ Others(Pair, c) /\ call'[c] = q
  BY <1>5, <1>6, UpdateFacts DEF LinuxPre
<1>8. Begins(Pair, c, op, step, o, obj[o].fd, obj[o].file, FALSE, "queued")
  BY <1>5, <1>6, <1>7 DEF Begins
<1> QED BY <1>6, <1>7, <1>8 DEF Typed, LinuxPre

\* A call of no object begins.
LEMMA LinuxBeginFree ==
    ASSUME LinuxPre, NEW c \in Pair, NEW op \in Op, NEW step \in Step, Linux!Begin(c, op, step, 0)
    PROVE  /\ Typed(Pair, LinuxFd)'
           /\ Begins(Pair, c, op, step, 0, 0, 0, FALSE, "queued")
           /\ sq' = Append(sq, c)
           /\ KernelSame
           /\ UNCHANGED obj
<1>0. PICK r : r = TheCall(op, step, 0, "queued")
  OBVIOUS
<1>1. "queued" \in At
  BY DEF At
<1>2. Fresh(r, LinuxFd, op, step, 0, 0, 0, "queued")
  BY <1>0, <1>1, LinuxZero, FreeCallFields
<1>3. r = Linux!Call(op, step, 0, "queued")
  BY <1>0, LinuxNames
<1>4. PICK q : q = [r EXCEPT !.at = "queued", !.res = "none"]
  OBVIOUS
<1>5. /\ q \in CallRecord(LinuxFd)
      /\ q.op = op /\ q.step = step /\ q.o = 0 /\ q.at = "queued" /\ q.fd = 0
      /\ q.file = 0 /\ q.own = FALSE /\ q.res = "none" /\ q.pkt = "none"
  BY <1>1, <1>2, <1>4 DEF CallRecord, Fresh
<1>6. /\ call' = [call EXCEPT ![c] = q] /\ call[c] = NoCall
      /\ sq' = Append(sq, c) /\ KernelSame /\ UNCHANGED obj
  BY <1>3, <1>4, LinuxNames
     DEF Linux!Begin, Linux!bio_submit_io_req, Linux!Update, Linux!kernelVars, KernelSame
<1>7. call' \in [Pair -> CallRecord(LinuxFd)] /\ Others(Pair, c) /\ call'[c] = q
  BY <1>5, <1>6, UpdateFacts DEF LinuxPre
<1>8. Begins(Pair, c, op, step, 0, 0, 0, FALSE, "queued")
  BY <1>5, <1>6, <1>7 DEF Begins
<1> QED BY <1>6, <1>7, <1>8 DEF Typed, LinuxPre

\* A call makes its next request.
LEMMA LinuxContinues ==
    ASSUME LinuxPre, NEW c \in Pair, NEW step \in Step, Linux!Continue(c, step)
    PROVE  /\ Typed(Pair, LinuxFd)'
           /\ Goes(Pair, c, step, "queued", "none")
           /\ sq' = Append(sq, c)
           /\ KernelSame
           /\ UNCHANGED obj
<1>1. PICK r : r = [call[c] EXCEPT !.step = step]
  OBVIOUS
<1>2. PICK q : q = [r EXCEPT !.at = "queued", !.res = "none"]
  OBVIOUS
<1>3. call[c] \in CallRecord(LinuxFd)
  BY DEF LinuxPre, Typed
<1>4. /\ q \in CallRecord(LinuxFd)
      /\ q.op = call[c].op /\ q.step = step /\ q.o = call[c].o /\ q.at = "queued"
      /\ q.fd = call[c].fd /\ q.file = call[c].file /\ q.own = call[c].own /\ q.res = "none"
  BY <1>1, <1>2, <1>3 DEF CallRecord, At
<1>5. /\ call' = [call EXCEPT ![c] = q]
      /\ sq' = Append(sq, c) /\ KernelSame /\ UNCHANGED obj
  BY <1>1, <1>2 DEF Linux!Continue, Linux!bio_submit_io_req, Linux!Update, Linux!kernelVars, KernelSame
<1>6. call' \in [Pair -> CallRecord(LinuxFd)] /\ Others(Pair, c) /\ call'[c] = q
  BY <1>4, <1>5, UpdateFacts DEF LinuxPre
<1>7. Goes(Pair, c, step, "queued", "none")
  BY <1>4, <1>6 DEF Goes
<1> QED BY <1>5, <1>6, <1>7 DEF Typed, LinuxPre

\* A call returns.
LEMMA LinuxReturns ==
    ASSUME LinuxPre, NEW c \in Pair, Linux!Return(c)
    PROVE  /\ Typed(Pair, LinuxFd)'
           /\ Returns(Pair, c)
           /\ KernelSame
           /\ UNCHANGED <<obj, sq>>
<1>1. call' = [call EXCEPT ![c] = NoCall] /\ KernelSame /\ UNCHANGED <<obj, sq>>
  BY LinuxNames DEF Linux!Return, Linux!Update, Linux!kernelVars, KernelSame
<1>2. call' \in [Pair -> CallRecord(LinuxFd)] /\ Returns(Pair, c)
  BY <1>1, ReturnFacts, LinuxZero DEF LinuxPre
<1> QED BY <1>1, <1>2 DEF Typed, LinuxPre

\* A call hands its descriptor to a new object.
LEMMA LinuxWraps ==
    ASSUME LinuxPre, NEW c \in Pair, NEW kind \in {"file", "socket"}, Linux!Wrap(c, kind)
    PROVE  /\ Typed(Pair, LinuxFd)'
           /\ Returns(Pair, c)
           /\ Grown(Len(obj) + 1, kind, call[c].fd, call[c].file, "none")
           /\ KernelSame
           /\ UNCHANGED sq
<1>1. PICK fd, file : fd = call[c].fd /\ file = call[c].file
  OBVIOUS
<1>2. call[c] \in CallRecord(LinuxFd)
  BY DEF LinuxPre, Typed
<1>3. fd \in LinuxFd /\ file \in Nat
  BY <1>1, <1>2 DEF CallRecord
<1>4. /\ obj' = Append(obj, TheObject(kind, fd, file, "none"))
      /\ call' = [call EXCEPT ![c] = NoCall] /\ KernelSame /\ UNCHANGED sq
  BY <1>1, LinuxNames DEF Linux!Wrap, Linux!Update, Linux!kernelVars, KernelSame
<1>5. obj' \in Seq(ObjectRecord(Pair, LinuxFd)) /\ Grown(Len(obj) + 1, kind, fd, file, "none")
  BY <1>3, <1>4, GrowFacts DEF LinuxPre
<1>6. call' \in [Pair -> CallRecord(LinuxFd)] /\ Returns(Pair, c)
  BY <1>4, ReturnFacts, LinuxZero DEF LinuxPre
<1> QED BY <1>1, <1>4, <1>5, <1>6 DEF Typed

\* A step that changes fields of the call of c in place.
LEMMA LinuxGoes ==
    ASSUME LinuxPre, NEW c \in Pair, NEW q, q \in CallRecord(LinuxFd), q.op = call[c].op,
           q.o = call[c].o, q.fd = call[c].fd, q.file = call[c].file, q.own = call[c].own,
           call' = [call EXCEPT ![c] = q], UNCHANGED obj
    PROVE  Typed(Pair, LinuxFd)' /\ Goes(Pair, c, q.step, q.at, q.res)
<1>1. call' \in [Pair -> CallRecord(LinuxFd)] /\ Others(Pair, c) /\ call'[c] = q
  BY UpdateFacts DEF LinuxPre
<1> QED BY <1>1 DEF Goes, Typed, LinuxPre

\* The kernel's taking a request is one of the steps.
LEMMA LinuxTake ==
    ASSUME LinuxPre, Linux!Take
    PROVE  LinuxStep
<1>1. PICK c : c = Head(sq)
  OBVIOUS
<1>2. c \in Pair
  BY <1>1 DEF LinuxPre, Linux!Take
<1>3. call[c] \in CallRecord(LinuxFd)
  BY <1>2 DEF LinuxPre, Typed
<1>4. PICK q : q = [call[c] EXCEPT !.at = "flight"]
  OBVIOUS
<1>5. /\ q \in CallRecord(LinuxFd) /\ q.op = call[c].op /\ q.o = call[c].o
      /\ q.fd = call[c].fd /\ q.file = call[c].file /\ q.own = call[c].own
      /\ q.step = call[c].step /\ q.at = "flight" /\ q.res = call[c].res
  BY <1>3, <1>4 DEF CallRecord, At
<1>6. /\ call' = [call EXCEPT ![c] = q] /\ UNCHANGED <<dt, files, obj, lost>>
      /\ sq # <<>> /\ sq' = Tail(sq)
      /\ \/ strayed' = strayed
         \/ call[c].step \notin {"open", "socket"} /\ dt[call[c].fd] \notin {0, call[c].file}
  BY <1>1, <1>4 DEF Linux!Take, Linux!Update, Linux!Names, Linux!Reach
<1>7. Typed(Pair, LinuxFd)' /\ Goes(Pair, c, q.step, q.at, q.res)
  BY <1>2, <1>5, <1>6, LinuxGoes
<1>8. LTake(c)
  BY <1>1, <1>5, <1>6, <1>7 DEF LTake
<1> QED BY <1>2, <1>7, <1>8 DEF LinuxStep, LinuxStepOf

\* The completion of a request is one of the steps.
LEMMA LinuxDrain ==
    ASSUME LinuxPre, NEW c \in Pair, Linux!bio_drain_io_completions(c)
    PROVE  LinuxStep
<1>1. call[c] \in CallRecord(LinuxFd)
  BY DEF LinuxPre, Typed
<1>2. ASSUME NEW res \in {"ok", "err"}, call[c].step # "close",
             res = "ok" => call[c].step \notin LinuxCreates,
             call' = [call EXCEPT ![c] = [call[c] EXCEPT !.at = "done", !.res = res]],
             UNCHANGED <<dt, files>>
      PROVE  LinuxStep
  <2>1. PICK q : q = [call[c] EXCEPT !.at = "done", !.res = res]
    OBVIOUS
  <2>2. /\ q \in CallRecord(LinuxFd) /\ q.op = call[c].op /\ q.o = call[c].o
        /\ q.fd = call[c].fd /\ q.file = call[c].file /\ q.own = call[c].own
        /\ q.step = call[c].step /\ q.at = "done" /\ q.res = res
    BY <1>1, <2>1 DEF CallRecord, At
  <2>3. UNCHANGED <<strayed, obj, lost, sq>> /\ call[c].at = "flight"
    BY DEF Linux!bio_drain_io_completions
  <2>4. call' = [call EXCEPT ![c] = q]
    BY <1>2, <2>1
  <2>5. Typed(Pair, LinuxFd)' /\ Goes(Pair, c, q.step, q.at, q.res)
    BY <2>2, <2>3, <2>4, LinuxGoes
  <2>6. LEnd(c, res)
    BY <1>2, <2>2, <2>3, <2>5 DEF LEnd, KernelSame
  <2> QED BY <2>5, <2>6 DEF LinuxStep, LinuxStepOf
<1>3. ASSUME call[c].step \in LinuxCreates, Linux!OpenFile,
             Linux!Update(c, [Linux!Holding(call[c]) EXCEPT !.at = "done", !.res = "ok"])
      PROVE  LinuxStep
  <2>1. PICK fd : fd = Linux!NewFd
    OBVIOUS
  <2>2. fd \in LinuxFd /\ Opened(fd)
    BY <1>3, <2>1, LinuxNewFd
  <2>3. PICK p : p = [call[c] EXCEPT !.fd = fd, !.file = files + 1, !.own = TRUE]
    OBVIOUS
  <2>4. PICK q : q = [p EXCEPT !.at = "done", !.res = "ok"]
    OBVIOUS
  <2>5. files + 1 \in Nat
    BY DEF LinuxPre
  <2>6. /\ p \in CallRecord(LinuxFd) /\ p.op = call[c].op /\ p.o = call[c].o
        /\ p.fd = fd /\ p.file = files + 1 /\ p.own /\ p.step = call[c].step
    BY <1>1, <2>2, <2>3, <2>5 DEF CallRecord
  <2>7. /\ q \in CallRecord(LinuxFd) /\ q.op = call[c].op /\ q.o = call[c].o
        /\ q.fd = fd /\ q.file = files + 1 /\ q.own
        /\ q.step = call[c].step /\ q.at = "done" /\ q.res = "ok"
    BY <2>4, <2>6 DEF CallRecord, At
  <2>8. call' = [call EXCEPT ![c] = q]
    BY <1>3, <2>1, <2>3, <2>4 DEF Linux!Update, Linux!Holding, Linux!NewFile
  <2>9. call' \in [Pair -> CallRecord(LinuxFd)] /\ Others(Pair, c) /\ call'[c] = q
    BY <2>7, <2>8, UpdateFacts DEF LinuxPre
  <2>10. UNCHANGED <<strayed, obj, lost, sq>> /\ call[c].at = "flight"
    BY DEF Linux!bio_drain_io_completions
  <2>11. LMade(c, fd)
    BY <1>3, <2>2, <2>7, <2>9, <2>10 DEF LMade
  <2> QED BY <2>2, <2>9, <2>10, <2>11 DEF LinuxStep, LinuxStepOf, Typed, LinuxPre
<1>4. ASSUME call[c].step = "close", dt' = [dt EXCEPT ![call[c].fd] = 0], UNCHANGED files,
             Linux!Update(c, [call[c] EXCEPT !.at = "done", !.res = "ok", !.own = FALSE])
      PROVE  LinuxStep
  <2>1. PICK q : q = [call[c] EXCEPT !.at = "done", !.res = "ok", !.own = FALSE]
    OBVIOUS
  <2>2. /\ q \in CallRecord(LinuxFd) /\ q.op = call[c].op /\ q.o = call[c].o
        /\ ~q.own /\ q.step = call[c].step /\ q.at = "done"
    BY <1>1, <2>1 DEF CallRecord, At
  <2>3. UNCHANGED <<strayed, obj, lost, sq>> /\ call[c].at = "flight"
    BY DEF Linux!bio_drain_io_completions
  <2>4. call' = [call EXCEPT ![c] = q]
    BY <1>4, <2>1 DEF Linux!Update
  <2>5. call' \in [Pair -> CallRecord(LinuxFd)] /\ Others(Pair, c) /\ call'[c] = q
    BY <2>2, <2>4, UpdateFacts DEF LinuxPre
  <2>6. LClosed(c)
    BY <1>4, <2>2, <2>3, <2>5 DEF LClosed
  <2> QED BY <2>3, <2>5, <2>6 DEF LinuxStep, LinuxStepOf, Typed, LinuxPre
<1> QED BY <1>2, <1>3, <1>4 DEF Linux!bio_drain_io_completions, Linux!Creates, LinuxCreates, Linux!Update

\* What a finished request leads to.
LEMMA LinuxGoesOn ==
    ASSUME LinuxPre, NEW c \in Pair, call[c].at = "done"
    PROVE  /\ Linux!Return(c) /\ ~LinuxOwn(call[c]) => LinuxStep
           /\ \A step \in {"bind", "listen", "connect", "close"} :
                 Linux!Continue(c, step) /\ LinuxOwn(call[c]) => LinuxStep
           /\ \A kind \in {"file", "socket"} :
                 Linux!Wrap(c, kind) /\ LinuxOwn(call[c]) => LinuxStep
<1>1. ASSUME Linux!Return(c), ~LinuxOwn(call[c]) PROVE LinuxStep
  <2>1. Typed(Pair, LinuxFd)' /\ LReturn(c)
    BY <1>1, LinuxReturns DEF LReturn
  <2> QED BY <2>1 DEF LinuxStep, LinuxStepOf
<1>2. ASSUME NEW step \in {"bind", "listen", "connect", "close"}, Linux!Continue(c, step),
             LinuxOwn(call[c])
      PROVE  LinuxStep
  <2>1. step \in Step
    BY DEF Step
  <2>2. Typed(Pair, LinuxFd)' /\ LContinue(c, step)
    BY <1>2, <2>1, LinuxContinues DEF LContinue
  <2> QED BY <2>1, <2>2 DEF LinuxStep, LinuxStepOf
<1>3. ASSUME NEW kind \in {"file", "socket"}, Linux!Wrap(c, kind), LinuxOwn(call[c])
      PROVE  LinuxStep
  <2>1. Typed(Pair, LinuxFd)' /\ LWrap(c, kind)
    BY <1>3, LinuxWraps DEF LWrap
  <2> QED BY <2>1 DEF LinuxStep, LinuxStepOf
<1> QED BY <1>1, <1>2, <1>3

\* What the calls do when a request has completed is one of the steps.
LEMMA LinuxEnds ==
    ASSUME LinuxPre, NEW c \in Pair,
           \/ Linux!FopenEnds(c) \/ Linux!UseEnds(c) \/ Linux!CloseEnds(c)
           \/ Linux!bio_make_socket(c) \/ Linux!ListenEnds(c) \/ Linux!ConnectEnds(c)
           \/ Linux!ShutdownEnds(c)
    PROVE  LinuxStep
<1>1. call[c].at = "done"
  BY DEF Linux!FopenEnds, Linux!UseEnds, Linux!CloseEnds, Linux!bio_make_socket, Linux!ListenEnds,
         Linux!ConnectEnds, Linux!ShutdownEnds, Linux!Ended
<1>2. CASE Linux!FopenEnds(c)
  BY <1>1, <1>2, LinuxGoesOn
     DEF Linux!FopenEnds, Linux!Ended, Linux!bio_file_from_fd, LinuxOwn, LinuxCreates
<1>3. CASE Linux!UseEnds(c) \/ Linux!CloseEnds(c)
  BY <1>1, <1>3, LinuxGoesOn DEF Linux!UseEnds, Linux!CloseEnds, LinuxOwn, LinuxCreates
<1>4. CASE Linux!bio_make_socket(c)
  BY <1>1, <1>4, LinuxGoesOn
     DEF Linux!bio_make_socket, Linux!AfterBind, Linux!Ended, Linux!bio_socket_from_fd,
         Linux!bio_io_close, LinuxOwn, LinuxCreates
<1>5. CASE Linux!ListenEnds(c) \/ Linux!ConnectEnds(c)
  BY <1>1, <1>5, LinuxGoesOn
     DEF Linux!ListenEnds, Linux!ConnectEnds, Linux!Ended, Linux!bio_socket_from_fd,
         Linux!bio_io_close, LinuxOwn, LinuxCreates
<1>6. CASE Linux!ShutdownEnds(c)
  BY <1>1, <1>6, LinuxGoesOn DEF Linux!ShutdownEnds, Linux!bio_io_close, LinuxOwn, LinuxCreates
<1> QED BY <1>2, <1>3, <1>4, <1>5, <1>6

\* The system call of bio_fs_test_lseek is one of the steps.
LEMMA LinuxSeek ==
    ASSUME LinuxPre, NEW c \in Pair, Linux!bio_fs_test_lseek(c)
    PROVE  LinuxStep
<1>1. call[c] \in CallRecord(LinuxFd)
  BY DEF LinuxPre, Typed
<1>2. PICK q : q = [call[c] EXCEPT !.step = "lseek", !.at = "flight"]
  OBVIOUS
<1>3. /\ q \in CallRecord(LinuxFd) /\ q.op = call[c].op /\ q.o = call[c].o
      /\ q.fd = call[c].fd /\ q.file = call[c].file /\ q.own = call[c].own
      /\ q.step = "lseek" /\ q.at = "flight" /\ q.res = call[c].res
  BY <1>1, <1>2 DEF CallRecord, At, Step
<1>4. /\ call' = [call EXCEPT ![c] = q] /\ KernelSame /\ UNCHANGED <<obj, sq>>
      /\ call[c].at = "done" /\ call[c].step = "open" /\ call[c].res = "ok"
  BY <1>2 DEF Linux!bio_fs_test_lseek, Linux!Update, Linux!Ended, Linux!kernelVars, KernelSame
<1>5. Typed(Pair, LinuxFd)' /\ Goes(Pair, c, q.step, q.at, q.res)
  BY <1>3, <1>4, LinuxGoes
<1>6. LSeek(c)
  BY <1>3, <1>4, <1>5 DEF LSeek
<1> QED BY <1>5, <1>6 DEF LinuxStep, LinuxStepOf

\* A read or write that is resumed takes one of the steps, on a freed file too.
LEMMA LinuxTransferEnds ==
    ASSUME LinuxPre, NEW c \in Pair, Linux!TransferEnds(c)
    PROVE  LinuxStep
<1>1. call[c] \in CallRecord(LinuxFd) /\ call[c].at = "done" /\ call[c].step = "transfer"
  BY DEF LinuxPre, Typed, Linux!TransferEnds
<1>2. CASE obj[call[c].o].mem
  <2>1. Linux!Return(c)
    BY <1>2 DEF Linux!TransferEnds, Linux!Return
  <2> QED BY <1>1, <2>1, LinuxGoesOn DEF LinuxOwn, LinuxCreates
<1>3. CASE ~obj[call[c].o].mem
  <2>2. PICK q : q = [call[c] EXCEPT !.at = "undefined"]
    OBVIOUS
  <2>3. /\ q \in CallRecord(LinuxFd) /\ q.op = call[c].op /\ q.o = call[c].o
        /\ q.fd = call[c].fd /\ q.file = call[c].file /\ q.own = call[c].own
        /\ q.step = call[c].step /\ q.at = "undefined" /\ q.res = call[c].res
    BY <1>1, <2>2 DEF CallRecord, At, Step
  <2>4. call' = [call EXCEPT ![c] = q] /\ KernelSame /\ UNCHANGED <<obj, sq>>
    BY <1>3, <2>2 DEF Linux!TransferEnds, Linux!Update, Linux!kernelVars, KernelSame
  <2>5. Typed(Pair, LinuxFd)' /\ Goes(Pair, c, q.step, q.at, q.res)
    BY <2>3, <2>4, LinuxGoes
  <2>6. LUndefined(c)
    BY <1>1, <1>3, <2>3, <2>4, <2>5 DEF LUndefined
  <2> QED BY <2>5, <2>6 DEF LinuxStep, LinuxStepOf
<1> QED BY <1>2, <1>3

\* bio_net_accept takes one of the steps when it is resumed, without memory for
\* the client too.
LEMMA LinuxAcceptEnds ==
    ASSUME LinuxPre, NEW c \in Pair, Linux!AcceptEnds(c)
    PROVE  LinuxStep
<1>1. CASE Linux!Ended(c, "accept", "ok") /\ call[c].fd > 0 /\ Linux!bio_socket_from_fd(c)
  BY <1>1, LinuxGoesOn DEF Linux!Ended, Linux!bio_socket_from_fd, LinuxOwn, LinuxCreates
<1>2. CASE Linux!Ended(c, "accept", "err") /\ Linux!Return(c)
  BY <1>2, LinuxGoesOn DEF Linux!Ended, LinuxOwn, LinuxCreates
<1>3. CASE /\ Linux!Ended(c, "accept", "ok")
           /\ call[c].fd = 0
           /\ lost' = lost \cup {call[c].file}
           /\ Linux!Update(c, Linux!Idle)
           /\ UNCHANGED <<Linux!kernelVars, obj, sq>>
  <2>1. call' = [call EXCEPT ![c] = NoCall] /\ UNCHANGED <<dt, files, strayed, obj, sq>>
    BY <1>3, LinuxNames DEF Linux!Update, Linux!kernelVars
  <2>2. call' \in [Pair -> CallRecord(LinuxFd)] /\ Returns(Pair, c)
    BY <2>1, ReturnFacts, LinuxZero DEF LinuxPre
  <2>3. LLose(c)
    BY <1>3, <2>1, <2>2 DEF LLose, Linux!Ended
  <2> QED BY <2>1, <2>2, <2>3 DEF LinuxStep, LinuxStepOf, Typed, LinuxPre
<1> QED BY <1>1, <1>2, <1>3 DEF Linux!AcceptEnds

\* bio_fdopen and bio_net_wrap are among the steps.
LEMMA LinuxFdopen ==
    ASSUME LinuxPre, NEW c \in Pair, Linux!bio_fdopen(c) \/ Linux!bio_net_wrap(c)
    PROVE  LinuxStep
<1>1. PICK fd : fd = Linux!NewFd
  OBVIOUS
<1>2. fd \in LinuxFd /\ Opened(fd)
  BY <1>1, LinuxNewFd DEF Linux!bio_fdopen, Linux!bio_net_wrap
<1>3. CASE Linux!bio_fdopen(c)
  <2>1. PICK file : file = files + 1
    OBVIOUS
  <2>2. file \in Nat
    BY <2>1 DEF LinuxPre
  <2>3. obj' = Append(obj, TheObject("file", fd, file, "none")) /\ UNCHANGED <<call, strayed, lost, sq>>
    BY <1>1, <1>3, <2>1, LinuxNames DEF Linux!bio_fdopen, Linux!NewFile
  <2>4. obj' \in Seq(ObjectRecord(Pair, LinuxFd)) /\ Grown(Len(obj) + 1, "file", fd, file, "none")
    BY <1>2, <2>2, <2>3, GrowFacts DEF LinuxPre
  <2>5. LFdopen(fd)
    BY <1>2, <2>1, <2>3, <2>4 DEF LFdopen
  <2> QED BY <1>2, <2>3, <2>4, <2>5 DEF LinuxStep, LinuxStepOf, Typed, LinuxPre
<1>4. CASE Linux!bio_net_wrap(c)
  <2>1. LNetWrap(fd) /\ UNCHANGED <<call, obj>>
    BY <1>2, <1>4 DEF LNetWrap, Linux!bio_net_wrap, Linux!NewFile
  <2> QED BY <1>2, <2>1 DEF LinuxStep, LinuxStepOf, Typed, LinuxPre
<1> QED BY <1>3, <1>4

\* The calls that make an open file are among the steps.
LEMMA LinuxMakes ==
    ASSUME LinuxPre, NEW c \in Pair,
           Linux!bio_fopen(c) \/ Linux!bio_net_listen(c) \/ Linux!bio_net_connect(c)
    PROVE  LinuxStep
<1>1. ASSUME NEW op \in Op, NEW step \in Step, Linux!Begin(c, op, step, 0),
             <<op, step>> \in {<<"fopen", "open">>, <<"listen", "socket">>, <<"connect", "socket">>}
      PROVE  LinuxStep
  <2>1. Typed(Pair, LinuxFd)' /\ LMake(c, op, step)
    BY <1>1, LinuxBeginFree DEF LMake
  <2> QED BY <2>1 DEF LinuxStep, LinuxStepOf
<1>2. {"fopen", "listen", "connect"} \subseteq Op /\ {"open", "socket"} \subseteq Step
  BY DEF Op, Step
<1> QED BY <1>1, <1>2 DEF Linux!bio_fopen, Linux!bio_net_listen, Linux!bio_net_connect

\* The calls that use an open file are among the steps.
LEMMA LinuxUses ==
    ASSUME LinuxPre, NEW c \in Pair, NEW o \in DOMAIN obj,
           \/ Linux!bio_fread(c, o) \/ Linux!bio_fwrite(c, o) \/ Linux!bio_fflush(c, o)
           \/ Linux!bio_fstat(c, o) \/ Linux!bio_net_accept(c, o) \/ Linux!bio_net_send(c, o)
           \/ Linux!bio_net_recv(c, o)
    PROVE  LinuxStep
<1>1. ASSUME NEW op \in {"transfer", "use", "accept"}, Linux!Begin(c, op, op, o), obj[o].live
      PROVE  LinuxStep
  <2>1. op \in Op /\ op \in Step
    BY DEF Op, Step
  <2>2. Typed(Pair, LinuxFd)' /\ LUse(c, op, o)
    BY <1>1, <2>1, LinuxBegin DEF LUse
  <2> QED BY <2>1, <2>2 DEF LinuxStep, LinuxStepOf
<1> QED
  BY <1>1 DEF Linux!bio_fread, Linux!bio_fwrite, Linux!bio_fflush, Linux!bio_fstat, Linux!Open,
              Linux!bio_net_accept, Linux!bio_net_send, Linux!bio_net_recv

\* The calls that close a handle are among the steps.
LEMMA LinuxCloses ==
    ASSUME LinuxPre, NEW c \in Pair, NEW o \in DOMAIN obj,
           Linux!bio_fclose(c, o) \/ Linux!bio_net_close(c, o)
    PROVE  LinuxStep
<1>1. PICK step \in {"close", "shutdown"} : Linux!CloseHandle(c, o, "close", step) /\ obj[o].live
  BY DEF Linux!bio_fclose, Linux!bio_net_close, Linux!Open
<1>2. PICK r : r = TheCall("close", step, o, "queued")
  OBVIOUS
<1>3. "queued" \in At /\ step \in Step /\ "close" \in Op
  BY DEF At, Step, Op
<1>4. Fresh(r, LinuxFd, "close", step, o, obj[o].fd, obj[o].file, "queued")
  BY <1>2, <1>3, LinuxZero, CallFields DEF LinuxPre
<1>5. PICK p : p = [r EXCEPT !.own = TRUE]
  OBVIOUS
<1>6. PICK q : q = [p EXCEPT !.at = "queued", !.res = "none"]
  OBVIOUS
<1>7. /\ p \in CallRecord(LinuxFd)
      /\ p.op = "close" /\ p.step = step /\ p.o = o /\ p.fd = obj[o].fd /\ p.file = obj[o].file
      /\ p.own = TRUE /\ p.pkt = "none"
  BY <1>4, <1>5 DEF CallRecord, Fresh
<1>8. /\ q \in CallRecord(LinuxFd)
      /\ q.op = "close" /\ q.step = step /\ q.o = o /\ q.fd = obj[o].fd /\ q.file = obj[o].file
      /\ q.own = TRUE /\ q.pkt = "none" /\ q.at = "queued" /\ q.res = "none"
  BY <1>3, <1>6, <1>7 DEF CallRecord
<1>9. /\ call' = [call EXCEPT ![c] = q] /\ call[c] = NoCall
      /\ obj' = [obj EXCEPT ![o] = FreedObject]
      /\ sq' = Append(sq, c) /\ KernelSame
  BY <1>1, <1>2, <1>5, <1>6, LinuxNames
     DEF Linux!CloseHandle, Linux!bio_submit_io_req, Linux!Update, Linux!kernelVars, KernelSame
<1>10. call' \in [Pair -> CallRecord(LinuxFd)] /\ Others(Pair, c) /\ call'[c] = q
  BY <1>8, <1>9, UpdateFacts DEF LinuxPre
<1>11. obj' \in Seq(ObjectRecord(Pair, LinuxFd)) /\ Frees(o)
  BY <1>9, FreeFacts, LinuxZero DEF LinuxPre
<1>12. LClose(c, o, step)
  BY <1>1, <1>8, <1>9, <1>10, <1>11 DEF LClose, Begins
<1> QED BY <1>3, <1>9, <1>10, <1>11, <1>12 DEF LinuxStep, LinuxStepOf, Typed

\* Every step of the port is one of the steps above.
LEMMA LinuxCases ==
    ASSUME LinuxPre, Linux!Next
    PROVE  LinuxStep
<1>1. CASE Linux!Take
  BY <1>1, LinuxTake
<1>2. ASSUME NEW c \in Pair,
             \/ Linux!bio_drain_io_completions(c)
             \/ Linux!bio_fopen(c) \/ Linux!bio_fs_test_lseek(c) \/ Linux!FopenEnds(c)
             \/ Linux!bio_fdopen(c) \/ Linux!TransferEnds(c) \/ Linux!UseEnds(c)
             \/ Linux!CloseEnds(c) \/ Linux!bio_net_wrap(c) \/ Linux!bio_net_listen(c)
             \/ Linux!bio_net_connect(c) \/ Linux!bio_make_socket(c) \/ Linux!ListenEnds(c)
             \/ Linux!ConnectEnds(c) \/ Linux!AcceptEnds(c) \/ Linux!ShutdownEnds(c)
      PROVE  LinuxStep
  BY <1>2, LinuxDrain, LinuxEnds, LinuxSeek, LinuxTransferEnds, LinuxAcceptEnds, LinuxFdopen, LinuxMakes
<1>3. ASSUME NEW c \in Pair, NEW o \in DOMAIN obj,
             \/ Linux!bio_fread(c, o) \/ Linux!bio_fwrite(c, o) \/ Linux!bio_fflush(c, o)
             \/ Linux!bio_fstat(c, o) \/ Linux!bio_fclose(c, o) \/ Linux!bio_net_accept(c, o)
             \/ Linux!bio_net_send(c, o) \/ Linux!bio_net_recv(c, o) \/ Linux!bio_net_close(c, o)
      PROVE  LinuxStep
  BY <1>3, LinuxUses, LinuxCloses
<1> QED BY <1>1, <1>2, <1>3 DEF Linux!Next
-----------------------------------------------------------------------------
\* The requests of the port.
LinuxSteps == {"open", "lseek", "transfer", "use", "close", "socket", "bind", "listen",
               "connect", "accept", "shutdown"}

\* A call owns a descriptor in certain steps, names an object in others, and is
\* undefined only if that object was closed.
LinuxCalls ==
    \A c \in Pair :
        /\ call[c].own <=> LinuxOwn(call[c])
        /\ call[c].at = "queued" => call[c].step \in LinuxSteps
        /\ call[c].step = "transfer" <=> call[c].op = "transfer"
        /\ call[c].step \in {"transfer", "use", "accept"} => call[c].o \in DOMAIN obj
        /\ call[c].at = "undefined" => call[c].op = "transfer" /\ ~obj[call[c].o].live

\* The queue holds the requests that are queued, each once.
LinuxQueue ==
    /\ sq \in Seq(Pair)
    /\ \A i, j \in DOMAIN sq : sq[i] = sq[j] => i = j
    /\ \A i \in DOMAIN sq : call[sq[i]].at = "queued"
    /\ \A c \in Pair : call[c].at = "queued" => \E i \in DOMAIN sq : sq[i] = c

\* The request of d comes after that of c.
Behind(c, d) == \E i, j \in DOMAIN sq : i < j /\ sq[i] = c /\ sq[j] = d

\* The open file of a request that was not taken yet is still open: its object is,
\* or the request to close it is behind.
NamedBy(c) ==
    \/ /\ obj[call[c].o].live
       /\ obj[call[c].o].fd = call[c].fd
       /\ obj[call[c].o].file = call[c].file
    \/ \E d \in Pair : /\ call[d].own
                       /\ call[d].fd = call[c].fd
                       /\ call[d].file = call[c].file
                       /\ Behind(c, d)

\* What each queued request names is still open.
LinuxNamed ==
    \A c \in Pair :
        call[c].at = "queued" /\ call[c].step \in {"transfer", "use", "accept"} => NamedBy(c)

\* An open handle has its memory.
LiveIsAllocated == \A o \in DOMAIN obj : obj[o].live => obj[o].mem

\* The inductive invariant of the port: ownership, and the order of the
\* submission queue, which makes a request reach the file it was made for.
LinuxInv ==
    /\ Typed(Pair, LinuxFd)
    /\ Owned(Pair, LinuxFd)
    /\ LinuxCalls
    /\ LinuxQueue
    /\ LinuxNamed
    /\ LiveIsAllocated
    /\ strayed = {}

\* Every step of the Linux port keeps ownership.
LEMMA LinuxOwnedStep ==
    ASSUME LinuxInv, NEW c \in Pair, LinuxStepOf(c)
    PROVE  Owned(Pair, LinuxFd)'
<1>0. Owned(Pair, LinuxFd) /\ NoCall.own = FALSE
  BY NoCallFields, LinuxZero DEF LinuxInv
<1>1. ASSUME NEW step, NEW at, NEW res, Goes(Pair, c, step, at, res) PROVE SameCalls(Pair)
  BY <1>1 DEF Goes, Others, SameCalls, SameCall
<1>2. ASSUME NEW op, NEW step, NEW o, NEW fd, NEW file, NEW at,
             Begins(Pair, c, op, step, o, fd, file, FALSE, at)
      PROVE  SameCalls(Pair)
  BY <1>0, <1>2 DEF Begins, Others, SameCalls, SameCall
<1>3. ASSUME Returns(Pair, c) PROVE SameCallsBut(Pair, c) /\ ~call'[c].own
  BY <1>0, <1>3 DEF Returns, Others, SameCallsBut, SameCall
<1>4. UNCHANGED obj => SameObjects
  BY DEF SameObjects, SameObject
<1>5. ASSUME NEW n, NEW kind, NEW fd, NEW file, NEW mode, Grown(n, kind, fd, file, mode)
      PROVE  NewObject(n, fd, file)
  BY <1>5 DEF Grown, NewObject, SameObject
<1>6. ASSUME UNCHANGED call PROVE SameCalls(Pair)
  BY <1>6 DEF SameCalls, SameCall
<1>10. CASE LTake(c)
  BY <1>0, <1>1, <1>4, <1>10, OwnedKept DEF LTake
<1>11. CASE LClosed(c)
  <2>1. call[c].own /\ ~call'[c].own
    BY <1>11 DEF LClosed, LinuxInv, LinuxCalls, LinuxOwn
  <2>2. SameCallsBut(Pair, c)
    BY <1>11 DEF LClosed, Others, SameCallsBut, SameCall
  <2> QED BY <1>0, <1>4, <1>11, <2>1, <2>2, OwnedCloseCall DEF LClosed
<1>12. CASE LSeek(c)
  BY <1>0, <1>1, <1>4, <1>12, OwnedKept DEF LSeek, KernelSame
<1>13. CASE LReturn(c)
  <2>1. call[c] \in CallRecord(LinuxFd) /\ ~call[c].own
    BY <1>13 DEF LReturn, LinuxInv, LinuxCalls, Typed
  <2>2. call[c].own = FALSE
    BY <2>1 DEF CallRecord
  <2>3. SameCalls(Pair)
    BY <1>0, <1>13, <2>2 DEF LReturn, Returns, Others, SameCalls, SameCall
  <2> QED BY <1>0, <1>4, <1>13, <2>3, OwnedKept DEF LReturn, KernelSame
<1>14. CASE LUndefined(c)
  BY <1>0, <1>1, <1>4, <1>14, OwnedKept DEF LUndefined, KernelSame
<1>15. CASE LLose(c)
  <2>1. call[c].own
    BY <1>15 DEF LLose, LinuxInv, LinuxCalls, LinuxOwn, LinuxCreates
  <2> QED BY <1>0, <1>3, <1>4, <1>15, <2>1, OwnedCallLost DEF LLose
<1>16. ASSUME NEW res \in {"ok", "err"}, LEnd(c, res) PROVE Owned(Pair, LinuxFd)'
  BY <1>0, <1>1, <1>4, <1>16, OwnedKept DEF LEnd, KernelSame
<1>17. ASSUME NEW fd \in LinuxFd, LMade(c, fd) PROVE Owned(Pair, LinuxFd)'
  <2>1. ~call[c].own
    BY <1>17 DEF LMade, LinuxInv, LinuxCalls, LinuxOwn, LinuxCreates
  <2>2. SameCallsBut(Pair, c)
    BY <1>17 DEF LMade, Others, SameCallsBut, SameCall
  <2> QED BY <1>0, <1>4, <1>17, <2>1, <2>2, OwnedOpenCall DEF LMade
<1>18. ASSUME NEW op \in Op, NEW step \in Step, LMake(c, op, step) PROVE Owned(Pair, LinuxFd)'
  BY <1>0, <1>2, <1>4, <1>18, OwnedKept DEF LMake, KernelSame
<1>19. ASSUME NEW op \in Op, NEW o \in DOMAIN obj, LUse(c, op, o) PROVE Owned(Pair, LinuxFd)'
  <2>1. SameCalls(Pair)
    BY <1>0, <1>19 DEF LUse, Begins, Others, SameCalls, SameCall
  <2> QED BY <1>0, <1>4, <1>19, <2>1, OwnedKept DEF LUse, KernelSame
<1>20. ASSUME NEW step \in Step, LContinue(c, step) PROVE Owned(Pair, LinuxFd)'
  BY <1>0, <1>1, <1>4, <1>20, OwnedKept DEF LContinue, KernelSame
<1>21. ASSUME NEW kind \in {"file", "socket"}, LWrap(c, kind) PROVE Owned(Pair, LinuxFd)'
  <2>1. call[c].own
    BY <1>21 DEF LWrap, LinuxInv, LinuxCalls
  <2>2. PICK n : n = Len(obj) + 1
    OBVIOUS
  <2>3. NewObject(n, call[c].fd, call[c].file)
    BY <1>21, <2>2 DEF LWrap, Grown, NewObject, SameObject
  <2> QED BY <1>0, <1>3, <1>21, <2>1, <2>3, OwnedWrap DEF LWrap, KernelSame
<1>22. ASSUME NEW o \in DOMAIN obj, NEW step \in Step, LClose(c, o, step) PROVE Owned(Pair, LinuxFd)'
  <2>1. SameObjectsBut(o) /\ obj[o].live /\ ~obj'[o].live
    BY <1>22 DEF LClose, Frees, SameObjectsBut, SameObject
  <2>2. /\ SameCallsBut(Pair, c) /\ ~call[c].own /\ call'[c].own
        /\ call'[c].fd = obj[o].fd /\ call'[c].file = obj[o].file
    BY <1>0, <1>22 DEF LClose, Begins, Others, SameCallsBut, SameCall
  <2> QED BY <1>0, <1>22, <2>1, <2>2, OwnedCloseHandle DEF LClose, KernelSame
<1>23. ASSUME NEW fd \in LinuxFd, LFdopen(fd) PROVE Owned(Pair, LinuxFd)'
  <2>1. PICK n : n = Len(obj) + 1
    OBVIOUS
  <2>2. NewObject(n, fd, files + 1)
    BY <1>23, <2>1 DEF LFdopen, Grown, NewObject, SameObject
  <2> QED BY <1>0, <1>6, <1>23, <2>2, OwnedOpenObject DEF LFdopen
<1>24. ASSUME NEW fd \in LinuxFd, LNetWrap(fd) PROVE Owned(Pair, LinuxFd)'
  BY <1>0, <1>4, <1>6, <1>24, OwnedOpenLost DEF LNetWrap
<1> QED
  BY <1>10, <1>11, <1>12, <1>13, <1>14, <1>15, <1>16, <1>17, <1>18, <1>19, <1>20, <1>21, <1>22,
     <1>23, <1>24 DEF LinuxStepOf

\* Every step of the Linux port keeps the shape of the calls.
LEMMA LinuxCallsStep ==
    ASSUME LinuxInv, NEW c \in Pair, LinuxStepOf(c)
    PROVE  LinuxCalls'
<1>0. /\ LinuxCalls /\ LiveIsAllocated
      /\ NoCall.own = FALSE /\ NoCall.step = "none" /\ NoCall.op = "none" /\ NoCall.at = "none"
  BY NoCallFields, LinuxZero DEF LinuxInv
<1> USE DEF LinuxCalls, LinuxOwn, LinuxCreates, LinuxSteps, Others
<1>10. CASE LTake(c)
  BY <1>0, <1>10 DEF LTake, Goes, LinuxInv, LinuxQueue
<1>11. CASE LClosed(c)
  BY <1>0, <1>11 DEF LClosed
<1>12. CASE LSeek(c)
  BY <1>0, <1>12 DEF LSeek, Goes
<1>13. CASE LReturn(c)
  BY <1>0, <1>13 DEF LReturn, Returns
<1>14. CASE LUndefined(c)
  BY <1>0, <1>14 DEF LUndefined, Goes, LiveIsAllocated
<1>15. CASE LLose(c)
  BY <1>0, <1>15 DEF LLose, Returns
<1>16. ASSUME NEW res \in {"ok", "err"}, LEnd(c, res) PROVE LinuxCalls'
  BY <1>0, <1>16 DEF LEnd, Goes
<1>17. ASSUME NEW fd \in LinuxFd, LMade(c, fd) PROVE LinuxCalls'
  BY <1>0, <1>17 DEF LMade
<1>18. ASSUME NEW op \in Op, NEW step \in Step, LMake(c, op, step) PROVE LinuxCalls'
  BY <1>0, <1>18 DEF LMake, Begins
<1>19. ASSUME NEW op \in Op, NEW o \in DOMAIN obj, LUse(c, op, o) PROVE LinuxCalls'
  BY <1>0, <1>19 DEF LUse, Begins
<1>20. ASSUME NEW step \in Step, LContinue(c, step) PROVE LinuxCalls'
  BY <1>0, <1>20 DEF LContinue, Goes
<1>21. ASSUME NEW kind \in {"file", "socket"}, LWrap(c, kind) PROVE LinuxCalls'
  BY <1>0, <1>21 DEF LWrap, Returns, Grown
<1>22. ASSUME NEW o \in DOMAIN obj, NEW step \in Step, LClose(c, o, step) PROVE LinuxCalls'
  BY <1>0, <1>22 DEF LClose, Begins, Frees
<1>23. ASSUME NEW fd \in LinuxFd, LFdopen(fd) PROVE LinuxCalls'
  BY <1>0, <1>23 DEF LFdopen, Grown
<1>24. ASSUME NEW fd \in LinuxFd, LNetWrap(fd) PROVE LinuxCalls'
  BY <1>0, <1>24 DEF LNetWrap
<1> QED
  BY <1>10, <1>11, <1>12, <1>13, <1>14, <1>15, <1>16, <1>17, <1>18, <1>19, <1>20, <1>21, <1>22,
     <1>23, <1>24 DEF LinuxStepOf

\* The queue is left alone.
LEMMA QueueSame ==
    ASSUME LinuxQueue, UNCHANGED sq,
           \A d \in Pair : (call'[d].at = "queued") <=> (call[d].at = "queued")
    PROVE  LinuxQueue'
  BY DEF LinuxQueue

\* A request is put at the end.
LEMMA QueueAppend ==
    ASSUME LinuxQueue, NEW c \in Pair, sq' = Append(sq, c), call[c].at # "queued",
           call'[c].at = "queued", Others(Pair, c)
    PROVE  /\ LinuxQueue'
           /\ \A x, y \in Pair : Behind(x, y) => Behind(x, y)'
           /\ \A x \in Pair : call[x].at = "queued" => Behind(x, c)'
<1>1. /\ sq' \in Seq(Pair) /\ Len(sq') = Len(sq) + 1 /\ Len(sq) \in Nat
      /\ \A i \in 1 .. Len(sq) : sq'[i] = sq[i]
      /\ sq'[Len(sq) + 1] = c
  BY DEF LinuxQueue
<1>2. DOMAIN sq = 1 .. Len(sq) /\ DOMAIN sq' = 1 .. Len(sq) + 1
  BY <1>1 DEF LinuxQueue
<1>3. \A i \in 1 .. Len(sq) : sq[i] \in Pair /\ sq[i] # c
  BY <1>2 DEF LinuxQueue
<1>4. LinuxQueue'
  <2>1. \A i, j \in DOMAIN sq' : sq'[i] = sq'[j] => i = j
    BY <1>1, <1>2, <1>3 DEF LinuxQueue
  <2>2. \A i \in DOMAIN sq' : call'[sq'[i]].at = "queued"
    BY <1>1, <1>2, <1>3 DEF LinuxQueue, Others
  <2>3. ASSUME NEW d \in Pair, call'[d].at = "queued" PROVE \E i \in DOMAIN sq' : sq'[i] = d
    <3>1. CASE d = c
      BY <1>1, <1>2, <3>1
    <3>2. CASE d # c
      BY <1>1, <1>2, <2>3, <3>2 DEF LinuxQueue, Others
    <3> QED BY <3>1, <3>2
  <2> QED BY <1>1, <2>1, <2>2, <2>3 DEF LinuxQueue
<1>5. ASSUME NEW x \in Pair, NEW y \in Pair, Behind(x, y) PROVE Behind(x, y)'
  <2>1. PICK i, j \in 1 .. Len(sq) : i < j /\ sq[i] = x /\ sq[j] = y
    BY <1>2, <1>5 DEF Behind
  <2>2. i \in DOMAIN sq' /\ j \in DOMAIN sq' /\ sq'[i] = x /\ sq'[j] = y
    BY <1>1, <1>2, <2>1
  <2> QED BY <2>1, <2>2 DEF Behind
<1>6. ASSUME NEW x \in Pair, call[x].at = "queued" PROVE Behind(x, c)'
  <2>1. PICK i \in 1 .. Len(sq) : sq[i] = x
    BY <1>2, <1>6 DEF LinuxQueue
  <2>2. /\ i \in DOMAIN sq' /\ Len(sq) + 1 \in DOMAIN sq' /\ i < Len(sq) + 1
        /\ sq'[i] = x /\ sq'[Len(sq) + 1] = c
    BY <1>1, <1>2, <2>1
  <2> QED BY <2>2 DEF Behind
<1> QED BY <1>4, <1>5, <1>6

\* The request at the head is taken.
LEMMA QueueTail ==
    ASSUME LinuxQueue, NEW c \in Pair, sq # <<>>, c = Head(sq), sq' = Tail(sq),
           call'[c].at # "queued", Others(Pair, c)
    PROVE  /\ LinuxQueue'
           /\ call[c].at = "queued"
           /\ \A x, y \in Pair : x # c /\ Behind(x, y) => Behind(x, y)'
<1>1. /\ sq' \in Seq(Pair) /\ Len(sq') = Len(sq) - 1 /\ Len(sq) \in Nat /\ Len(sq) > 0
      /\ \A i \in 1 .. Len(sq) - 1 : sq'[i] = sq[i + 1]
      /\ sq[1] = c
  BY DEF LinuxQueue
<1>2. DOMAIN sq = 1 .. Len(sq) /\ DOMAIN sq' = 1 .. Len(sq) - 1
  BY <1>1 DEF LinuxQueue
<1>3. \A i \in 2 .. Len(sq) : sq[i] \in Pair /\ sq[i] # c
  BY <1>1, <1>2 DEF LinuxQueue
<1>4. LinuxQueue'
  <2>1. \A i, j \in DOMAIN sq' : sq'[i] = sq'[j] => i = j
    <3> SUFFICES ASSUME NEW i \in DOMAIN sq', NEW j \in DOMAIN sq', sq'[i] = sq'[j] PROVE i = j
      OBVIOUS
    <3>1. sq[i + 1] = sq[j + 1] /\ i + 1 \in DOMAIN sq /\ j + 1 \in DOMAIN sq
      BY <1>1, <1>2
    <3>2. i + 1 = j + 1
      BY <3>1 DEF LinuxQueue
    <3> QED BY <1>1, <1>2, <3>2
  <2>2. ASSUME NEW i \in DOMAIN sq' PROVE call'[sq'[i]].at = "queued"
    <3>1. sq'[i] = sq[i + 1] /\ i + 1 \in DOMAIN sq /\ i + 1 \in 2 .. Len(sq)
      BY <1>1, <1>2
    <3> QED BY <1>3, <3>1 DEF LinuxQueue, Others
  <2>3. ASSUME NEW d \in Pair, call'[d].at = "queued" PROVE \E i \in DOMAIN sq' : sq'[i] = d
    <3>1. d # c /\ call[d].at = "queued"
      BY <2>3 DEF Others
    <3>2. PICK i \in 1 .. Len(sq) : sq[i] = d
      BY <1>2, <3>1 DEF LinuxQueue
    <3>3. i # 1
      BY <1>1, <3>1, <3>2
    <3>4. i - 1 \in DOMAIN sq' /\ sq'[i - 1] = d
      BY <1>1, <1>2, <3>2, <3>3
    <3> QED BY <3>4
  <2> QED BY <1>1, <2>1, <2>2, <2>3 DEF LinuxQueue
<1>5. ASSUME NEW x \in Pair, NEW y \in Pair, x # c, Behind(x, y) PROVE Behind(x, y)'
  <2>1. PICK i, j \in 1 .. Len(sq) : i < j /\ sq[i] = x /\ sq[j] = y
    BY <1>2, <1>5 DEF Behind
  <2>2. i # 1
    BY <1>1, <1>5, <2>1
  <2>3. /\ i - 1 \in DOMAIN sq' /\ j - 1 \in DOMAIN sq' /\ i - 1 < j - 1
        /\ sq'[i - 1] = x /\ sq'[j - 1] = y
    BY <1>1, <1>2, <2>1, <2>2
  <2> QED BY <2>3 DEF Behind
<1>6. call[c].at = "queued"
  BY <1>1, <1>2 DEF LinuxQueue
<1> QED BY <1>4, <1>5, <1>6

\* Every step of the Linux port keeps the queue in agreement with the calls.
LEMMA LinuxQueueStep ==
    ASSUME LinuxInv, NEW c \in Pair, LinuxStepOf(c)
    PROVE  LinuxQueue'
<1>0. LinuxQueue /\ NoCall.at = "none"
  BY NoCallFields, LinuxZero DEF LinuxInv
<1>1. ASSUME UNCHANGED sq, Others(Pair, c), call[c].at # "queued", call'[c].at # "queued"
      PROVE  LinuxQueue'
  <2>1. \A d \in Pair : (call'[d].at = "queued") <=> (call[d].at = "queued")
    BY <1>1 DEF Others
  <2> QED BY <1>0, <1>1, <2>1, QueueSame
<1>10. CASE LTake(c)
  BY <1>0, <1>10, QueueTail DEF LTake, Goes
<1>11. CASE LClosed(c) \/ \E fd \in LinuxFd : LMade(c, fd)
  BY <1>1, <1>11 DEF LClosed, LMade
<1>12. CASE LSeek(c) \/ LUndefined(c) \/ \E res \in {"ok", "err"} : LEnd(c, res)
  BY <1>1, <1>12 DEF LSeek, LUndefined, LEnd, Goes
<1>13. CASE LReturn(c) \/ LLose(c) \/ \E kind \in {"file", "socket"} : LWrap(c, kind)
  BY <1>0, <1>1, <1>13 DEF LReturn, LLose, LWrap, Returns
<1>14. ASSUME NEW op \in Op, NEW step \in Step, LMake(c, op, step) PROVE LinuxQueue'
  BY <1>0, <1>14, QueueAppend DEF LMake, Begins
<1>15. ASSUME NEW op \in Op, NEW o \in DOMAIN obj, LUse(c, op, o) PROVE LinuxQueue'
  BY <1>0, <1>15, QueueAppend DEF LUse, Begins
<1>16. ASSUME NEW step \in Step, LContinue(c, step) PROVE LinuxQueue'
  BY <1>0, <1>16, QueueAppend DEF LContinue, Goes
<1>17. ASSUME NEW o \in DOMAIN obj, NEW step \in Step, LClose(c, o, step) PROVE LinuxQueue'
  BY <1>0, <1>17, QueueAppend DEF LClose, Begins
<1>18. CASE \E fd \in LinuxFd : LFdopen(fd) \/ LNetWrap(fd)
  BY <1>0, <1>18, QueueSame DEF LFdopen, LNetWrap
<1> QED
  BY <1>10, <1>11, <1>12, <1>13, <1>14, <1>15, <1>16, <1>17, <1>18 DEF LinuxStepOf

\* A request x that goes on waiting keeps what it names, if the objects and the
\* owners behind it are kept.
LEMMA NamedKept ==
    ASSUME NEW x \in Pair, NamedBy(x), call'[x] = call[x], call[x].o \in DOMAIN obj,
           SameObject(call[x].o), \A d \in Pair : Behind(x, d) => Behind(x, d)' /\ SameCall(d)
    PROVE  NamedBy(x)'
<1>1. CASE obj[call[x].o].live /\ obj[call[x].o].fd = call[x].fd /\ obj[call[x].o].file = call[x].file
  BY <1>1 DEF NamedBy, SameObject
<1>2. ASSUME NEW d \in Pair, call[d].own, call[d].fd = call[x].fd, call[d].file = call[x].file, Behind(x, d)
      PROVE  NamedBy(x)'
  <2>1. Behind(x, d)' /\ call'[d].own /\ call'[d].fd = call'[x].fd /\ call'[d].file = call'[x].file
    BY <1>2 DEF SameCall
  <2> QED BY <2>1 DEF NamedBy
<1> QED BY <1>1, <1>2 DEF NamedBy

\* What is behind a request is queued.
LEMMA BehindIsQueued ==
    ASSUME LinuxQueue, NEW x \in Pair, NEW d \in Pair, Behind(x, d)
    PROVE  call[d].at = "queued"
  BY DEF LinuxQueue, Behind

\* Every step keeps what queued requests name: a handle is closed by a request
\* behind them.
LEMMA LinuxNamedStep ==
    ASSUME LinuxInv, NEW c \in Pair, LinuxStepOf(c)
    PROVE  LinuxNamed'
<1> SUFFICES ASSUME NEW x \in Pair, call'[x].at = "queued",
                    call'[x].step \in {"transfer", "use", "accept"}
             PROVE  NamedBy(x)'
  BY DEF LinuxNamed
<1>0. LinuxQueue /\ LinuxCalls /\ LinuxNamed /\ NoCall.at = "none" /\ NoCall.own = FALSE
  BY NoCallFields, LinuxZero DEF LinuxInv
<1>1. call'[x] = call[x] => NamedBy(x) /\ call[x].o \in DOMAIN obj /\ call[x].at = "queued"
  BY <1>0 DEF LinuxNamed, LinuxCalls
<1>2. \A d \in Pair : Behind(x, d) => call[d].at = "queued"
  BY <1>0, BehindIsQueued
<1>3. ASSUME UNCHANGED sq, Others(Pair, c), call[c].at # "queued", x # c, \A o \in DOMAIN obj : SameObject(o)
      PROVE  NamedBy(x)'
  <2>1. call'[x] = call[x]
    BY <1>3 DEF Others
  <2>2. \A d \in Pair : Behind(x, d) => Behind(x, d)' /\ SameCall(d)
    BY <1>2, <1>3 DEF Behind, SameCall, Others
  <2> QED BY <1>1, <1>3, <2>1, <2>2, NamedKept
<1>4. ASSUME sq' = Append(sq, c), Others(Pair, c), call[c].at # "queued", call'[c].at = "queued", x # c,
             SameObject(call[x].o)
      PROVE  NamedBy(x)'
  <2>1. call'[x] = call[x]
    BY <1>4 DEF Others
  <2>2. \A d \in Pair : Behind(x, d) => Behind(x, d)'
    BY <1>0, <1>4, QueueAppend
  <2>3. \A d \in Pair : Behind(x, d) => SameCall(d)
    BY <1>2, <1>4 DEF SameCall, Others
  <2> QED BY <1>1, <1>4, <2>1, <2>2, <2>3, NamedKept
<1>5. UNCHANGED obj => \A o \in DOMAIN obj : SameObject(o)
  BY DEF SameObject
<1>10. CASE LTake(c)
  <2>1. x # c /\ Others(Pair, c)
    BY <1>10 DEF LTake, Goes
  <2>2. call'[x] = call[x]
    BY <2>1 DEF Others
  <2>3. \A d \in Pair : Behind(x, d) => Behind(x, d)'
    BY <1>0, <1>10, <2>1, QueueTail DEF LTake, Goes
  <2>4. \A d \in Pair : SameCall(d)
    BY <1>10 DEF LTake, Goes, Others, SameCall
  <2> QED BY <1>1, <1>5, <1>10, <2>2, <2>3, <2>4, NamedKept DEF LTake
<1>11. CASE LClosed(c) \/ \E fd \in LinuxFd : LMade(c, fd)
  BY <1>3, <1>5, <1>11 DEF LClosed, LMade
<1>12. CASE LSeek(c) \/ LUndefined(c) \/ \E res \in {"ok", "err"} : LEnd(c, res)
  BY <1>3, <1>5, <1>12 DEF LSeek, LUndefined, LEnd, Goes
<1>13. CASE LReturn(c) \/ LLose(c)
  BY <1>0, <1>3, <1>5, <1>13 DEF LReturn, LLose, Returns
<1>14. ASSUME NEW kind \in {"file", "socket"}, LWrap(c, kind) PROVE NamedBy(x)'
  <2>1. \A o \in DOMAIN obj : SameObject(o)
    BY <1>14 DEF LWrap, Grown, SameObject
  <2> QED BY <1>0, <1>3, <1>14, <2>1 DEF LWrap, Returns
<1>15. ASSUME NEW op \in Op, NEW step \in Step, LMake(c, op, step) PROVE NamedBy(x)'
  <2>1. Others(Pair, c) /\ call'[c].at = "queued" /\ call[c].at # "queued" /\ x # c
    BY <1>0, <1>15 DEF LMake, Begins
  <2>2. SameObject(call[x].o)
    BY <1>15 DEF LMake, SameObject
  <2> QED BY <1>4, <1>15, <2>1, <2>2 DEF LMake
<1>16. ASSUME NEW op \in Op, NEW o \in DOMAIN obj, LUse(c, op, o) PROVE NamedBy(x)'
  <2>1. Others(Pair, c) /\ call'[c].at = "queued" /\ call[c].at # "queued"
    BY <1>0, <1>16 DEF LUse, Begins
  <2>2. SameObject(call[x].o)
    BY <1>16 DEF LUse, SameObject
  <2>3. CASE x # c
    BY <1>4, <1>16, <2>1, <2>2, <2>3 DEF LUse
  <2>4. CASE x = c
    BY <1>16, <2>4 DEF LUse, Begins, NamedBy
  <2> QED BY <2>3, <2>4
<1>17. ASSUME NEW step \in Step, LContinue(c, step) PROVE NamedBy(x)'
  <2>1. Others(Pair, c) /\ call'[c].at = "queued" /\ call[c].at # "queued" /\ x # c
    BY <1>17 DEF LContinue, Goes
  <2>2. SameObject(call[x].o)
    BY <1>17 DEF LContinue, SameObject
  <2> QED BY <1>4, <1>17, <2>1, <2>2 DEF LContinue
<1>18. ASSUME NEW o \in DOMAIN obj, NEW step \in Step, LClose(c, o, step) PROVE NamedBy(x)'
  <2>1. Others(Pair, c) /\ call'[c].at = "queued" /\ call[c].at # "queued" /\ x # c
    BY <1>0, <1>18 DEF LClose, Begins
  <2>2. call'[x] = call[x] /\ call[x].o \in DOMAIN obj /\ NamedBy(x)
    BY <1>1, <2>1 DEF Others
  <2>3. CASE call[x].o # o
    <3>1. SameObject(call[x].o)
      BY <1>18, <2>2, <2>3 DEF LClose, Frees, SameObject
    <3> QED BY <1>4, <1>18, <2>1, <3>1 DEF LClose
  <2>4. CASE call[x].o = o
    <3>1. CASE obj[call[x].o].live /\ obj[call[x].o].fd = call[x].fd /\ obj[call[x].o].file = call[x].file
      <4>1. Behind(x, c)'
        BY <1>0, <1>1, <1>18, <2>1, <2>2, QueueAppend DEF LClose
      <4>2. call'[c].own /\ call'[c].fd = call'[x].fd /\ call'[c].file = call'[x].file
        BY <1>18, <2>2, <2>4, <3>1 DEF LClose, Begins
      <4> QED BY <4>1, <4>2 DEF NamedBy
    <3>2. ASSUME NEW d \in Pair, call[d].own, call[d].fd = call[x].fd, call[d].file = call[x].file,
                 Behind(x, d)
          PROVE  NamedBy(x)'
      <4>1. Behind(x, d)'
        BY <1>0, <1>18, <2>1, <3>2, QueueAppend DEF LClose
      <4>2. call'[d] = call[d]
        BY <1>2, <2>1, <3>2 DEF Others
      <4> QED BY <2>2, <3>2, <4>1, <4>2 DEF NamedBy
    <3> QED BY <2>2, <3>1, <3>2 DEF NamedBy
  <2> QED BY <2>3, <2>4
<1>19. ASSUME NEW fd \in LinuxFd, LFdopen(fd) \/ LNetWrap(fd) PROVE NamedBy(x)'
  <2>1. UNCHANGED <<call, sq>> /\ \A o \in DOMAIN obj : SameObject(o)
    BY <1>5, <1>19 DEF LFdopen, LNetWrap, Grown, SameObject
  <2>2. \A d \in Pair : Behind(x, d) => Behind(x, d)' /\ SameCall(d)
    BY <2>1 DEF Behind, SameCall
  <2> QED BY <1>1, <2>1, <2>2, NamedKept
<1> QED
  BY <1>10, <1>11, <1>12, <1>13, <1>14, <1>15, <1>16, <1>17, <1>18, <1>19 DEF LinuxStepOf

\* Every step keeps the rest of the invariant; the request that the kernel takes
\* reaches its own file, because nothing behind it was taken.
LEMMA LinuxRestStep ==
    ASSUME LinuxInv, NEW c \in Pair, LinuxStepOf(c)
    PROVE  LiveIsAllocated' /\ strayed' = {}
<1>1. LiveIsAllocated'
  <2>1. UNCHANGED obj \/ (\E n, kind, fd, file, mode : Grown(n, kind, fd, file, mode)) \/ \E o \in DOMAIN obj : Frees(o)
    BY DEF LinuxStepOf, LTake, LClosed, LSeek, LReturn, LUndefined, LLose, LEnd, LMade, LMake, LUse,
           LContinue, LWrap, LClose, LFdopen, LNetWrap
  <2> QED BY <2>1 DEF LinuxInv, LiveIsAllocated, Grown, Frees
<1>2. strayed' = {}
  <2>1. CASE LTake(c)
    <3>1. call[c].at = "queued"
      BY <2>1, QueueTail DEF LTake, Goes, LinuxInv
    <3>2. LinuxCalls /\ LinuxNamed /\ Owned(Pair, LinuxFd)
      BY DEF LinuxInv
    <3>3. CASE call[c].own
      BY <2>1, <3>2, <3>3 DEF LTake, LinuxInv, Owned, Holders, CallHolds
    <3>4. CASE call[c].step \in {"transfer", "use", "accept"}
      <4>1. NamedBy(c) /\ call[c].o \in DOMAIN obj
        BY <3>1, <3>2, <3>4 DEF LinuxNamed, LinuxCalls
      <4>2. dt[call[c].fd] = call[c].file
        BY <3>2, <4>1 DEF NamedBy, Owned, Holders, CallHolds, ObjectHolds
      <4> QED BY <2>1, <4>2 DEF LTake, LinuxInv
    <3>5. CASE call[c].step \in {"open", "socket"}
      BY <2>1, <3>5 DEF LTake, LinuxInv
    <3> QED BY <3>1, <3>2, <3>3, <3>4, <3>5 DEF LinuxCalls, LinuxOwn, LinuxSteps
  <2>2. CASE ~LTake(c)
    BY <2>2 DEF LinuxInv, LinuxStepOf, LClosed, LSeek, LReturn, LUndefined, LLose, LEnd, LMade, LMake, LUse,
           LContinue, LWrap, LClose, LFdopen, LNetWrap, KernelSame
  <2> QED BY <2>1, <2>2
<1> QED BY <1>1, <1>2

\* The invariant of the Linux port is inductive.
LEMMA LinuxInvStep ==
    ASSUME LinuxInv, Linux!Next
    PROVE  LinuxInv'
<1>1. LinuxPre
  BY DEF LinuxInv, LinuxPre, LinuxQueue, LinuxCalls, Owned, Table
<1>2. LinuxStep
  BY <1>1, LinuxCases
<1>3. PICK c \in Pair : LinuxStepOf(c)
  BY <1>2 DEF LinuxStep
<1>4. Typed(Pair, LinuxFd)'
  BY <1>2 DEF LinuxStep
<1> QED
  BY <1>3, <1>4, LinuxOwnedStep, LinuxCallsStep, LinuxQueueStep, LinuxNamedStep, LinuxRestStep
     DEF LinuxInv

\* What a port that begins with at most the standard input starts from.
LEMMA OwnedInit ==
    ASSUME NEW C, NEW F, 0 \in F, F \subseteq Nat, NEW n \in {0, 1}, files = n, lost = {},
           dt = [fd \in F |-> IF fd < n THEN fd + 1 ELSE 0],
           DOMAIN obj = 1 .. n, \A c \in C : call[c].own = FALSE,
           \A o \in DOMAIN obj : obj[o].fd = 0 /\ obj[o].file = 1 /\ obj[o].live = TRUE
    PROVE  Owned(C, F)
<1>1. CASE n = 0
  BY <1>1 DEF Owned, Table, Holders, Held, ObjectHolds, CallHolds
<1>2. CASE n = 1
  <2>1. DOMAIN obj = {1} /\ \A fd \in F : dt[fd] = IF fd = 0 THEN 1 ELSE 0
    BY <1>2
  <2>2. obj[1].fd = 0 /\ obj[1].file = 1 /\ obj[1].live = TRUE
    BY <2>1
  <2>3. Table(F)
    BY <1>2, <2>1 DEF Table
  <2>4. Holders(C, F)
    BY <2>1, <2>2 DEF Holders, ObjectHolds, CallHolds
  <2>5. \A fd \in F : dt[fd] # 0 => Held(C, fd)
    BY <2>1, <2>2 DEF Held
  <2> QED BY <2>3, <2>4, <2>5 DEF Owned
<1> QED BY <1>1, <1>2

\* The invariant of the Linux port holds at first.
LEMMA LinuxInvInit ==
    ASSUME Linux!Init
    PROVE  LinuxInv
<1>1. PICK r : r = TheObject("file", 0, 1, "none")
  OBVIOUS
<1>2. /\ r \in ObjectRecord(Pair, LinuxFd)
      /\ r.fd = 0 /\ r.file = 1 /\ r.live = TRUE /\ r.mem = TRUE
  BY <1>1, LinuxZero DEF TheObject, ObjectRecord
<1>3. obj = <<r>> /\ Linux!InitObjects(obj) /\ sq = <<>>
  BY <1>1, LinuxNames DEF Linux!Init, Linux!InitObjects, Linux!Stdin
<1>4. Len(obj) = 1 /\ DOMAIN obj = 1 .. 1 /\ obj[1] = r /\ obj \in Seq(ObjectRecord(Pair, LinuxFd))
  BY <1>2, <1>3
<1>5. /\ files = 1 /\ dt = [fd \in LinuxFd |-> IF fd < 1 THEN fd + 1 ELSE 0]
      /\ call = [c \in Pair |-> NoCall] /\ strayed = {} /\ lost = {}
  BY <1>3, <1>4, LinuxNames DEF Linux!InitObjects, LinuxFd, Linux!Fd
<1>6. /\ \A c \in Pair : call[c] = NoCall
      /\ NoCall \in CallRecord(LinuxFd) /\ NoCall.op = "none" /\ NoCall.step = "none"
      /\ NoCall.own = FALSE /\ NoCall.at = "none"
  BY <1>5, NoCallFields, LinuxZero
<1>7. Typed(Pair, LinuxFd)
  BY <1>4, <1>5, <1>6 DEF Typed
<1>8. \A o \in DOMAIN obj : obj[o] = r
  BY <1>4
<1>9. Owned(Pair, LinuxFd)
  <2>1. \A o \in DOMAIN obj : obj[o].fd = 0 /\ obj[o].file = 1 /\ obj[o].live = TRUE
    BY <1>2, <1>8
  <2>2. \A c \in Pair : call[c].own = FALSE
    BY <1>6
  <2>3. LinuxFd \subseteq Nat /\ 0 \in LinuxFd
    BY BoundAssumption DEF LinuxFd
  <2> QED BY <1>4, <1>5, <2>1, <2>2, <2>3, OwnedInit
<1>10. LinuxCalls /\ LinuxNamed
  BY <1>6 DEF LinuxCalls, LinuxNamed, LinuxOwn, LinuxCreates
<1>11. LinuxQueue
  BY <1>3, <1>6 DEF LinuxQueue
<1>12. LiveIsAllocated
  BY <1>2, <1>8 DEF LiveIsAllocated
<1> QED BY <1>5, <1>7, <1>9, <1>10, <1>11, <1>12 DEF LinuxInv

\* The invariant says what the port promises.
LEMMA LinuxPromises ==
    ASSUME LinuxInv
    PROVE  /\ Linux!DescriptorsOwned
           /\ Linux!ReachesItsFile
           /\ Linux!FreedOnlyByClose
           /\ Linux!WaitersAreWoken
<1>1. Linux!DescriptorsOwned
  <2>1. \A fd \in Linux!Fd : Cardinality(Linux!Owners(fd)) = (IF dt[fd] = 0 THEN 0 ELSE 1)
    <3> SUFFICES ASSUME NEW fd \in Linux!Fd
                 PROVE  Cardinality(Linux!Owners(fd)) = (IF dt[fd] = 0 THEN 0 ELSE 1)
      OBVIOUS
    <3>1. Linux!Owners(fd) = OwnersOf(Pair, fd)
      BY DEF Linux!Owners, OwnersOf
    <3>2. fd \in LinuxFd
      BY DEF Linux!Fd, LinuxFd
    <3> QED BY <3>1, <3>2, OneOwner DEF LinuxInv
  <2>2. /\ \A o \in DOMAIN obj : obj[o].live => dt[obj[o].fd] = obj[o].file
        /\ \A c \in Pair : call[c].own => dt[call[c].fd] = call[c].file
    BY DEF LinuxInv, Owned, Holders, ObjectHolds, CallHolds
  <2> QED BY <2>1, <2>2, Counts DEF Linux!DescriptorsOwned
<1>2. Linux!ReachesItsFile /\ Linux!FreedOnlyByClose
  BY DEF LinuxInv, LinuxCalls, Linux!ReachesItsFile, Linux!FreedOnlyByClose
<1>3. Linux!WaitersAreWoken
  <2> SUFFICES ASSUME NEW c \in Pair
               PROVE  Cardinality({i \in DOMAIN sq : sq[i] = c}) = (IF call[c].at = "queued" THEN 1 ELSE 0)
    BY Counts DEF Linux!WaitersAreWoken
  <2>1. CASE call[c].at # "queued"
    <3>1. {i \in DOMAIN sq : sq[i] = c} = {}
      BY <2>1 DEF LinuxInv, LinuxQueue
    <3> QED BY <2>1, <3>1, FS_EmptySet
  <2>2. CASE call[c].at = "queued"
    <3>1. PICK i \in DOMAIN sq : sq[i] = c
      BY <2>2 DEF LinuxInv, LinuxQueue
    <3>2. {j \in DOMAIN sq : sq[j] = c} = {i}
      BY <3>1 DEF LinuxInv, LinuxQueue
    <3>3. Cardinality({i}) = 1
      BY FS_Singleton
    <3> QED BY <2>2, <3>2, <3>3
  <2> QED BY <2>1, <2>2
<1> QED BY <1>1, <1>2, <1>3

-----------------------------------------------------------------------------
(***************************************************************************)
(* FreeBSD.                                                                 *)
(***************************************************************************)
BsdFd == 0 .. BsdMaxFd

\* The handle of o is closed, its memory kept.
Shuts(o) ==
    /\ DOMAIN obj' = DOMAIN obj
    /\ \A p \in DOMAIN obj \ {o} : obj'[p] = obj[p]
    /\ obj'[o].kind = obj[o].kind
    /\ obj'[o].mem = obj[o].mem
    /\ obj'[o].mode = obj[o].mode
    /\ obj'[o].file = obj[o].file
    /\ obj'[o].acceptors = obj[o].acceptors
    /\ ~obj'[o].live

\* Nothing but modes of objects changes.
KeepsObjects ==
    /\ DOMAIN obj' = DOMAIN obj
    /\ \A p \in DOMAIN obj : /\ obj'[p].kind = obj[p].kind
                             /\ obj'[p].fd = obj[p].fd
                             /\ obj'[p].file = obj[p].file
                             /\ obj'[p].live = obj[p].live
                             /\ obj'[p].mem = obj[p].mem

\* The system call of c reaches what its descriptor stands for.
Reaches(c) ==
    \/ strayed' = strayed
    \/ /\ dt[call[c].fd] \notin {0, call[c].file}
       /\ strayed' = strayed \cup {IF call[c].o = 0 \/ obj[call[c].o].live THEN "open" ELSE "closed"}

\* The request of d stays what it is, only where it stands may change.
SameRequest(d) ==
    /\ call'[d].op = call[d].op
    /\ call'[d].step = call[d].step
    /\ call'[d].o = call[d].o
    /\ call'[d].fd = call[d].fd
    /\ call'[d].file = call[d].file
    /\ call'[d].own = call[d].own

\* A call that waits to read from object o.
Reader(d, o) == call[d].op \in {"accept", "recv"} /\ call[d].step = "event" /\ call[d].o = o

\* Nothing happens to descriptors.
BsdKernelSame == UNCHANGED <<dt, files, strayed, lost>>

\* bio_platform_update moves the request of d: to the kernel, which registers it,
\* refuses it, or lets it replace another one of the same descriptor.
BMoved(d) ==
    /\ SameRequest(d)
    /\ \/ call'[d].at = call[d].at /\ call'[d].res = call[d].res
       \/ call[d].at = "raised" /\ call'[d].at = "ready" /\ call'[d].res = call[d].res
       \/ call[d].at = "queued" /\ call'[d].at = "ready" /\ call'[d].res = "err"
       \/ call[d].at = "queued" /\ call'[d].at = "registered" /\ call'[d].res = call[d].res
       \/ /\ call[d].step = "event"
          /\ call[d].at \in {"queued", "registered"}
          /\ \E e \in Trio : /\ dt[call[e].fd] # 0
                             /\ call[e].fd = call[d].fd
                             /\ call[e].file > call[d].file
          /\ call'[d].at = "forgotten"
          /\ call'[d].res = call[d].res

\* bio_platform_update, for all requests at once.
BUpdate == (\A d \in Trio : BMoved(d)) /\ BsdKernelSame /\ UNCHANGED obj

\* An event or a finished aio request is dispatched.
BReady(c) ==
    /\ call[c].at = "registered"
    /\ Goes(Trio, c, call[c].step, "ready", call[c].res)
    /\ BsdKernelSame
    /\ UNCHANGED obj

\* bio_net_wrap fails, and the descriptor of the program is lost.
BNetWrap(fd) ==
    /\ Opened(fd)
    /\ lost' = lost \cup {files + 1}
    /\ UNCHANGED <<call, obj, strayed>>

\* A new open file becomes an object at once.
BMakes(fd, kind, mode) ==
    /\ Opened(fd)
    /\ Grown(Len(obj) + 1, kind, fd, files + 1, mode)
    /\ UNCHANGED <<call, strayed, lost>>

\* bio_net_connect waits for its socket.
BConnect(c, fd) ==
    /\ Opened(fd)
    /\ Begins(Trio, c, "connect", "event", 0, fd, files + 1, TRUE, "queued")
    /\ UNCHANGED <<obj, strayed, lost>>

\* A call hands its descriptor to a new object.
BWrap(c, kind, mode) ==
    /\ call[c].at = "ready"
    /\ call[c].op = "connect" \/ (call[c].op = "fopen" /\ call[c].res = "ok")
    /\ Returns(Trio, c)
    /\ Grown(Len(obj) + 1, kind, call[c].fd, call[c].file, mode)
    /\ BsdKernelSame

\* bio_net_wait: a call waits for an event of its socket.
BWait(c, o, op) ==
    /\ op \in {"accept", "send", "recv"}
    /\ obj[o].live /\ obj[o].kind = "socket"
    /\ Begins(Trio, c, op, "event", o, obj[o].fd, obj[o].file, FALSE, "queued")
    /\ BsdKernelSame
    /\ UNCHANGED obj

\* After the event the system call is made again, with the descriptor read before
\* the wait.
BRetry(c) ==
    /\ call[c].op \in {"accept", "send", "recv"}
    /\ call[c].at = "ready"
    /\ Reaches(c)
    /\ Returns(Trio, c)
    /\ \/ UNCHANGED <<dt, files, obj>>
       \/ \E fd \in BsdFd : Opened(fd) /\ Grown(Len(obj) + 1, "socket", fd, files + 1, "none")
    /\ UNCHANGED lost

\* bio_net_close meets a writer: its behaviour is undefined, and the descriptor
\* lost.
BCloseUndefined(c, o) ==
    /\ obj[o].live
    /\ \A d \in Trio : ~Reader(d, o)
    /\ Shuts(o)
    /\ Begins(Trio, c, "net_close", "none", o, obj[o].fd, obj[o].file, FALSE, "undefined")
    /\ lost' = lost \cup {obj[o].file}
    /\ UNCHANGED <<dt, files, strayed>>

\* What closing object o does to the call of d: a reader of a socket is
\* cancelled, an aio request ends, another event of the descriptor is forgotten.
BCancelled(d, o) ==
    /\ SameRequest(d)
    /\ \/ call'[d].at = call[d].at /\ call'[d].res = call[d].res
       \/ /\ Reader(d, o)
          /\ call[d].at \in {"queued", "registered"}
          /\ call'[d].at = "raised"
       \/ /\ call[d].step \in {"aio", "probe"}
          /\ call'[d].at = "ready"
       \/ /\ call[d].step = "event" /\ call[d].at = "registered" /\ call[d].fd = obj[o].fd
          /\ ~(obj[o].kind = "socket" /\ Reader(d, o))
          /\ call'[d].at = "forgotten"
    /\ obj[o].kind = "socket" /\ Reader(d, o) => call'[d].at \notin {"queued", "registered"}

\* A handle and its descriptor are closed.
BClose(o) ==
    /\ obj[o].live
    /\ Frees(o)
    /\ dt' = [dt EXCEPT ![obj[o].fd] = 0]
    /\ \A d \in Trio : BCancelled(d, o)
    /\ UNCHANGED <<files, strayed, lost>>

\* bio_fclose fails, and the descriptor is lost.
BCloseFails(o) ==
    /\ obj[o].live
    /\ obj[o].kind = "file"
    /\ Shuts(o)
    /\ lost' = lost \cup {obj[o].file}
    /\ UNCHANGED <<dt, files, strayed, call>>

\* bio_fopen sends a job to the pool.
BFopen(c) ==
    /\ Begins(Trio, c, "fopen", "job", 0, 0, 0, FALSE, "pool")
    /\ BsdKernelSame
    /\ UNCHANGED obj

\* An operation on a file sends a job to the pool.
BPool(c, o) ==
    /\ obj[o].live
    /\ Begins(Trio, c, "job", "job", o, obj[o].fd, obj[o].file, FALSE, "pool")
    /\ BsdKernelSame
    /\ KeepsObjects

\* An operation on a file makes an aio request.
BAio(c, o, op, step) ==
    /\ op \in {"transfer", "fflush"}
    /\ step \in {"aio", "probe"}
    /\ obj[o].live
    /\ Begins(Trio, c, op, step, o, obj[o].fd, obj[o].file, FALSE, "registered")
    /\ BsdKernelSame
    /\ UNCHANGED obj

\* The job of bio_fopen has opened the file.
BOpened(c, fd) ==
    /\ call[c].at = "pool" /\ call[c].op = "fopen"
    /\ Opened(fd)
    /\ Others(Trio, c)
    /\ call'[c].op = call[c].op
    /\ call'[c].step = call[c].step
    /\ call'[c].o = call[c].o
    /\ call'[c].fd = fd
    /\ call'[c].file = files + 1
    /\ call'[c].own
    /\ call'[c].at = "ready"
    /\ call'[c].res = "ok"
    /\ UNCHANGED <<strayed, lost, obj>>

\* The job of bio_fopen has failed.
BNotOpened(c) ==
    /\ call[c].at = "pool" /\ call[c].op = "fopen"
    /\ Goes(Trio, c, call[c].step, "ready", "err")
    /\ BsdKernelSame
    /\ UNCHANGED obj

\* A job uses the descriptor read before it was sent.
BJob(c) ==
    /\ call[c].at = "pool" /\ call[c].op # "fopen"
    /\ Reaches(c)
    /\ Goes(Trio, c, call[c].step, "ready", call[c].res)
    /\ UNCHANGED <<dt, files, lost, obj>>

\* A call that owns nothing returns, and may have learnt the mode of its file.
BReturn(c) ==
    /\ call[c].at = "ready"
    /\ call[c].step \in {"job", "aio", "probe"}
    /\ call[c].op = "fopen" => call[c].res # "ok"
    /\ Returns(Trio, c)
    /\ BsdKernelSame
    /\ KeepsObjects

\* An aio request ends on a file that was closed.
BUndefined(c) ==
    /\ call[c].at = "ready"
    /\ call[c].step \in {"aio", "probe"}
    /\ ~obj[call[c].o].live \/ ~obj[call[c].o].mem
    /\ Goes(Trio, c, call[c].step, "undefined", call[c].res)
    /\ BsdKernelSame
    /\ UNCHANGED obj

\* An aio request is refused by the file, and a job takes its place.
BToPool(c) ==
    /\ call[c].at = "ready"
    /\ call[c].step = "probe"
    /\ Others(Trio, c)
    /\ call'[c].op = "job"
    /\ call'[c].step = "job"
    /\ call'[c].o = call[c].o
    /\ call'[c].fd = call[c].fd
    /\ call'[c].file = call[c].file
    /\ call'[c].own = call[c].own
    /\ call'[c].at = "pool"
    /\ call'[c].res = "none"
    /\ BsdKernelSame
    /\ KeepsObjects

\* The steps of the port, told by what they do.
BsdStepOf(c) ==
    \/ BReady(c) \/ BRetry(c) \/ BFopen(c) \/ BNotOpened(c) \/ BJob(c) \/ BReturn(c)
    \/ BUndefined(c) \/ BToPool(c)
    \/ \E fd \in BsdFd : \/ BNetWrap(fd) \/ BConnect(c, fd) \/ BOpened(c, fd)
                         \/ BMakes(fd, "socket", "none") \/ BMakes(fd, "file", "unknown")
    \/ BWrap(c, "socket", "none") \/ BWrap(c, "file", "unknown")
    \/ \E o \in DOMAIN obj : \/ BCloseUndefined(c, o) \/ BClose(o) \/ BCloseFails(o) \/ BPool(c, o)
                             \/ \E op \in Op : BWait(c, o, op)
                             \/ \E op \in Op, step \in Step : BAio(c, o, op, step)

\* A step of some coroutine or of the update, well typed.
BsdStep == Typed(Trio, BsdFd)' /\ (BUpdate \/ \E c \in Trio : BsdStepOf(c))

\* What the descriptions of the steps rest on.
BsdPre ==
    /\ Typed(Trio, BsdFd)
    /\ dt \in [BsdFd -> Nat]
    /\ files \in Nat
    /\ \A c \in Trio : call[c].step \in {"aio", "probe"} => call[c].o \in DOMAIN obj

\* The records of the FreeBSD port are the ones above.
LEMMA BsdNames ==
    /\ FreeBsd!Idle = NoCall
    /\ FreeBsd!Freed = FreedObject
    /\ \A op, step, o, at : FreeBsd!Call(op, step, o, at) = TheCall(op, step, o, at)
    /\ \A kind, fd, file, mode : FreeBsd!Object(kind, fd, file, mode) = TheObject(kind, fd, file, mode)
  BY Zenon DEF FreeBsd!Idle, NoCall, FreeBsd!Freed, FreedObject, FreeBsd!Call, TheCall, FreeBsd!Object, TheObject

\* 0 is a descriptor.
LEMMA BsdZero == 0 \in BsdFd
  BY BoundAssumption DEF BsdFd

\* The kernel opens a file at a free descriptor.
LEMMA BsdNewFd ==
    ASSUME BsdPre, FreeBsd!OpenFile
    PROVE  FreeBsd!NewFd \in BsdFd /\ Opened(FreeBsd!NewFd)
<1>1. PICK fd : fd = FreeBsd!NewFd
  OBVIOUS
<1>2. BsdMaxFd \in Nat /\ dt \in [0 .. BsdMaxFd -> Nat] /\ \E f \in 0 .. BsdMaxFd : dt[f] = 0
  BY BoundAssumption DEF BsdPre, BsdFd, FreeBsd!Fd, FreeBsd!OpenFile, FreeBsd!CanOpen
<1>3. fd = CHOOSE f \in 0 .. BsdMaxFd : dt[f] = 0 /\ \A g \in 0 .. BsdMaxFd : dt[g] = 0 => f <= g
  BY <1>1 DEF FreeBsd!NewFd, FreeBsd!Fd
<1>4. fd \in 0 .. BsdMaxFd /\ dt[fd] = 0
  BY <1>2, <1>3, FreeDescriptor
<1> QED BY <1>1, <1>4 DEF Opened, FreeBsd!OpenFile, FreeBsd!NewFile, BsdFd

\* A step that changes only where the call of c stands.
LEMMA BsdGoes ==
    ASSUME BsdPre, NEW c \in Trio, NEW q, q \in CallRecord(BsdFd), q.op = call[c].op,
           q.o = call[c].o, q.fd = call[c].fd, q.file = call[c].file, q.own = call[c].own,
           call' = [call EXCEPT ![c] = q], UNCHANGED obj
    PROVE  Typed(Trio, BsdFd)' /\ Goes(Trio, c, q.step, q.at, q.res)
<1>1. call' \in [Trio -> CallRecord(BsdFd)] /\ Others(Trio, c) /\ call'[c] = q
  BY UpdateFacts DEF BsdPre
<1> QED BY <1>1 DEF Goes, Typed, BsdPre

\* The same, given as the field that changes.
LEMMA BsdStands ==
    ASSUME BsdPre, NEW c \in Trio, NEW at \in At, UNCHANGED obj,
           call' = [call EXCEPT ![c] = [call[c] EXCEPT !.at = at]]
    PROVE  Typed(Trio, BsdFd)' /\ Goes(Trio, c, call[c].step, at, call[c].res)
<1>1. call[c] \in CallRecord(BsdFd)
  BY DEF BsdPre, Typed
<1>2. PICK q : q = [call[c] EXCEPT !.at = at]
  OBVIOUS
<1>3. /\ q \in CallRecord(BsdFd) /\ q.op = call[c].op /\ q.o = call[c].o
      /\ q.fd = call[c].fd /\ q.file = call[c].file /\ q.own = call[c].own
      /\ q.step = call[c].step /\ q.at = at /\ q.res = call[c].res
  BY <1>1, <1>2 DEF CallRecord
<1>4. call' = [call EXCEPT ![c] = q]
  BY <1>2
<1>5. Typed(Trio, BsdFd)' /\ Goes(Trio, c, q.step, q.at, q.res)
  BY <1>3, <1>4, BsdGoes
<1> QED BY <1>3, <1>5

\* An event, and an aio request that has finished, are steps.
LEMMA BsdReadies ==
    ASSUME BsdPre, NEW c \in Trio, FreeBsd!bio_platform_dispatch_events(c) \/ FreeBsd!AioDone(c)
    PROVE  BsdStep
<1>1. /\ call' = [call EXCEPT ![c] = [call[c] EXCEPT !.at = "ready"]]
      /\ call[c].at = "registered" /\ BsdKernelSame /\ UNCHANGED obj
  BY DEF FreeBsd!bio_platform_dispatch_events, FreeBsd!AioDone, FreeBsd!Update, FreeBsd!kernelVars, BsdKernelSame
<1>2. "ready" \in At
  BY DEF At
<1>3. Typed(Trio, BsdFd)' /\ Goes(Trio, c, call[c].step, "ready", call[c].res)
  BY <1>1, <1>2, BsdStands
<1>4. BReady(c)
  BY <1>1, <1>3 DEF BReady
<1> QED BY <1>3, <1>4 DEF BsdStep, BsdStepOf

\* A new open file becomes an object, by whatever call.
LEMMA BsdNewObject ==
    ASSUME BsdPre, FreeBsd!OpenFile, NEW kind \in {"file", "socket"}, NEW mode \in {"none", "unknown"},
           obj' = Append(obj, FreeBsd!Object(kind, FreeBsd!NewFd, FreeBsd!NewFile, mode))
    PROVE  /\ obj' \in Seq(ObjectRecord(Trio, BsdFd))
           /\ \E fd \in BsdFd : Opened(fd) /\ Grown(Len(obj) + 1, kind, fd, files + 1, mode)
<1>1. PICK fd, file : fd = FreeBsd!NewFd /\ file = files + 1
  OBVIOUS
<1>2. fd \in BsdFd /\ Opened(fd)
  BY <1>1, BsdNewFd
<1>3. file \in Nat
  BY <1>1 DEF BsdPre
<1>4. obj' = Append(obj, TheObject(kind, fd, file, mode))
  BY <1>1, BsdNames DEF FreeBsd!NewFile
<1>5. obj' \in Seq(ObjectRecord(Trio, BsdFd)) /\ Grown(Len(obj) + 1, kind, fd, file, mode)
  BY <1>2, <1>3, <1>4, GrowFacts DEF BsdPre
<1> QED BY <1>1, <1>2, <1>5

\* A new open file that becomes an object at once is a step.
LEMMA BsdMakes ==
    ASSUME BsdPre, FreeBsd!OpenFile, UNCHANGED <<call, strayed, lost>>,
           \/ FreeBsd!bio_socket_from_fd(FreeBsd!NewFd, FreeBsd!NewFile)
           \/ FreeBsd!bio_file_from_fd(FreeBsd!NewFd, FreeBsd!NewFile),
           NEW c \in Trio
    PROVE  BsdStep
<1>1. CASE FreeBsd!bio_socket_from_fd(FreeBsd!NewFd, FreeBsd!NewFile)
  <2>1. /\ obj' \in Seq(ObjectRecord(Trio, BsdFd))
        /\ \E fd \in BsdFd : Opened(fd) /\ Grown(Len(obj) + 1, "socket", fd, files + 1, "none")
    BY <1>1, BsdNewObject DEF FreeBsd!bio_socket_from_fd
  <2>2. \E fd \in BsdFd : BMakes(fd, "socket", "none")
    BY <2>1 DEF BMakes
  <2> QED BY <2>1, <2>2 DEF BsdStep, BsdStepOf, Typed, BsdPre
<1>2. CASE FreeBsd!bio_file_from_fd(FreeBsd!NewFd, FreeBsd!NewFile)
  <2>1. /\ obj' \in Seq(ObjectRecord(Trio, BsdFd))
        /\ \E fd \in BsdFd : Opened(fd) /\ Grown(Len(obj) + 1, "file", fd, files + 1, "unknown")
    BY <1>2, BsdNewObject DEF FreeBsd!bio_file_from_fd
  <2>2. \E fd \in BsdFd : BMakes(fd, "file", "unknown")
    BY <2>1 DEF BMakes
  <2> QED BY <2>1, <2>2 DEF BsdStep, BsdStepOf, Typed, BsdPre
<1> QED BY <1>1, <1>2

\* The return of a call sets it to no call.
LEMMA BsdReturns ==
    ASSUME BsdPre, NEW c \in Trio, FreeBsd!Update(c, FreeBsd!Idle)
    PROVE  call' \in [Trio -> CallRecord(BsdFd)] /\ Returns(Trio, c)
<1>1. call' = [call EXCEPT ![c] = NoCall]
  BY BsdNames DEF FreeBsd!Update
<1> QED BY <1>1, ReturnFacts, BsdZero DEF BsdPre

\* The descriptor of a call becomes an object.
LEMMA BsdWraps ==
    ASSUME BsdPre, NEW c \in Trio, call[c].at = "ready",
           FreeBsd!Update(c, FreeBsd!Idle), BsdKernelSame,
           \/ call[c].op = "connect" /\ FreeBsd!bio_socket_from_fd(call[c].fd, call[c].file)
           \/ /\ call[c].op = "fopen" /\ call[c].res = "ok"
              /\ FreeBsd!bio_file_from_fd(call[c].fd, call[c].file)
    PROVE  BsdStep
<1>1. PICK fd, file : fd = call[c].fd /\ file = call[c].file
  OBVIOUS
<1>2. call[c] \in CallRecord(BsdFd)
  BY DEF BsdPre, Typed
<1>3. fd \in BsdFd /\ file \in Nat
  BY <1>1, <1>2 DEF CallRecord
<1>4. ASSUME NEW kind \in {"file", "socket"}, NEW mode \in {"none", "unknown"},
             obj' = Append(obj, TheObject(kind, fd, file, mode))
      PROVE  obj' \in Seq(ObjectRecord(Trio, BsdFd)) /\ Grown(Len(obj) + 1, kind, fd, file, mode)
  BY <1>3, <1>4, GrowFacts DEF BsdPre
<1>5. call' \in [Trio -> CallRecord(BsdFd)] /\ Returns(Trio, c)
  BY BsdReturns
<1>6. CASE call[c].op = "connect" /\ FreeBsd!bio_socket_from_fd(call[c].fd, call[c].file)
  <2>1. obj' = Append(obj, TheObject("socket", fd, file, "none"))
    BY <1>1, <1>6, BsdNames DEF FreeBsd!bio_socket_from_fd
  <2>2. obj' \in Seq(ObjectRecord(Trio, BsdFd)) /\ BWrap(c, "socket", "none")
    BY <1>1, <1>4, <1>5, <1>6, <2>1 DEF BWrap
  <2> QED BY <1>5, <2>2 DEF BsdStep, BsdStepOf, Typed
<1>7. CASE /\ call[c].op = "fopen" /\ call[c].res = "ok"
           /\ FreeBsd!bio_file_from_fd(call[c].fd, call[c].file)
  <2>1. obj' = Append(obj, TheObject("file", fd, file, "unknown"))
    BY <1>1, <1>7, BsdNames DEF FreeBsd!bio_file_from_fd
  <2>2. obj' \in Seq(ObjectRecord(Trio, BsdFd)) /\ BWrap(c, "file", "unknown")
    BY <1>1, <1>4, <1>5, <1>7, <2>1 DEF BWrap
  <2> QED BY <1>5, <2>2 DEF BsdStep, BsdStepOf, Typed
<1> QED BY <1>6, <1>7

\* bio_net_wrap is one of the steps.
LEMMA BsdNetWrap ==
    ASSUME BsdPre, NEW c \in Trio, FreeBsd!bio_net_wrap(c)
    PROVE  BsdStep
<1>1. PICK fd : fd = FreeBsd!NewFd
  OBVIOUS
<1>2. fd \in BsdFd /\ Opened(fd)
  BY <1>1, BsdNewFd DEF FreeBsd!bio_net_wrap
<1>3. BNetWrap(fd) /\ UNCHANGED <<call, obj>>
  BY <1>2 DEF BNetWrap, FreeBsd!bio_net_wrap, FreeBsd!NewFile
<1> QED BY <1>2, <1>3 DEF BsdStep, BsdStepOf, Typed, BsdPre

\* bio_net_connect is one of the steps.
LEMMA BsdConnects ==
    ASSUME BsdPre, NEW c \in Trio, FreeBsd!bio_net_connect(c)
    PROVE  BsdStep
<1>1. CASE FreeBsd!bio_socket_from_fd(FreeBsd!NewFd, FreeBsd!NewFile) /\ UNCHANGED call
  BY <1>1, BsdMakes DEF FreeBsd!bio_net_connect
<1>2. CASE /\ FreeBsd!Update(c, FreeBsd!Holding(FreeBsd!Call("connect", "event", 0, "queued")))
           /\ UNCHANGED obj
  <2>1. PICK fd : fd = FreeBsd!NewFd
    OBVIOUS
  <2>2. fd \in BsdFd /\ Opened(fd) /\ files + 1 \in Nat
    BY <2>1, BsdNewFd DEF FreeBsd!bio_net_connect, BsdPre
  <2>3. PICK r : r = TheCall("connect", "event", 0, "queued")
    OBVIOUS
  <2>4. "queued" \in At /\ "event" \in Step /\ "connect" \in Op
    BY DEF At, Step, Op
  <2>5. Fresh(r, BsdFd, "connect", "event", 0, 0, 0, "queued")
    BY <2>3, <2>4, BsdZero, FreeCallFields
  <2>6. PICK q : q = [r EXCEPT !.fd = fd, !.file = files + 1, !.own = TRUE]
    OBVIOUS
  <2>7. /\ q \in CallRecord(BsdFd)
        /\ q.op = "connect" /\ q.step = "event" /\ q.o = 0 /\ q.fd = fd /\ q.file = files + 1
        /\ q.own = TRUE /\ q.at = "queued" /\ q.res = "none" /\ q.pkt = "none"
    BY <2>2, <2>5, <2>6 DEF CallRecord, Fresh
  <2>8. call' = [call EXCEPT ![c] = q] /\ call[c] = NoCall /\ UNCHANGED <<obj, strayed, lost>>
    BY <1>2, <2>1, <2>3, <2>6, BsdNames
       DEF FreeBsd!Update, FreeBsd!Holding, FreeBsd!NewFile, FreeBsd!bio_net_connect
  <2>9. call' \in [Trio -> CallRecord(BsdFd)] /\ Others(Trio, c) /\ call'[c] = q
    BY <2>7, <2>8, UpdateFacts DEF BsdPre
  <2>10. BConnect(c, fd)
    BY <2>2, <2>7, <2>8, <2>9 DEF BConnect, Begins
  <2> QED BY <2>2, <2>8, <2>9, <2>10 DEF BsdStep, BsdStepOf, Typed, BsdPre
<1> QED BY <1>1, <1>2 DEF FreeBsd!bio_net_connect

\* Waiting for an event of a socket is one of the steps.
LEMMA BsdWaits ==
    ASSUME BsdPre, NEW c \in Trio, NEW o \in DOMAIN obj, NEW op \in {"accept", "send", "recv"},
           call[c] = FreeBsd!Idle, FreeBsd!Open(o, "socket"), FreeBsd!bio_net_wait(c, o, op)
    PROVE  BsdStep
<1>1. PICK q : q = TheCall(op, "event", o, "queued")
  OBVIOUS
<1>2. "queued" \in At /\ "event" \in Step /\ op \in Op
  BY DEF At, Step, Op
<1>3. Fresh(q, BsdFd, op, "event", o, obj[o].fd, obj[o].file, "queued")
  BY <1>1, <1>2, BsdZero, CallFields DEF BsdPre
<1>4. /\ call' = [call EXCEPT ![c] = q] /\ call[c] = NoCall /\ BsdKernelSame /\ UNCHANGED obj
      /\ obj[o].live /\ obj[o].kind = "socket"
  BY <1>1, BsdNames
     DEF FreeBsd!bio_net_wait, FreeBsd!Update, FreeBsd!kernelVars, FreeBsd!Open, BsdKernelSame
<1>5. call' \in [Trio -> CallRecord(BsdFd)] /\ Others(Trio, c) /\ call'[c] = q
  BY <1>3, <1>4, UpdateFacts DEF BsdPre, Fresh
<1>6. BWait(c, o, op)
  BY <1>3, <1>4, <1>5 DEF BWait, Begins, Fresh
<1> QED BY <1>2, <1>4, <1>5, <1>6 DEF BsdStep, BsdStepOf, Typed, BsdPre

\* The calls that wait for an event of a socket are among the steps.
LEMMA BsdSockets ==
    ASSUME BsdPre, NEW c \in Trio, NEW o \in DOMAIN obj,
           FreeBsd!bio_net_accept(c, o) \/ FreeBsd!bio_net_send(c, o) \/ FreeBsd!bio_net_recv(c, o)
    PROVE  BsdStep
<1>1. CASE FreeBsd!bio_net_accept(c, o)
  BY <1>1, BsdWaits, BsdMakes DEF FreeBsd!bio_net_accept
<1>2. CASE FreeBsd!bio_net_send(c, o) \/ FreeBsd!bio_net_recv(c, o)
  BY <1>2, BsdWaits DEF FreeBsd!bio_net_send, FreeBsd!bio_net_recv
<1> QED BY <1>1, <1>2

\* The system call after the wait is one of the steps.
LEMMA BsdRetries ==
    ASSUME BsdPre, NEW c \in Trio, FreeBsd!Retry(c)
    PROVE  BsdStep
<1>1. call' \in [Trio -> CallRecord(BsdFd)] /\ Returns(Trio, c)
  BY BsdReturns DEF FreeBsd!Retry
<1>2. Reaches(c) /\ UNCHANGED lost /\ call[c].op \in {"accept", "send", "recv"} /\ call[c].at = "ready"
  BY DEF FreeBsd!Retry, FreeBsd!Reach, Reaches
<1>3. CASE UNCHANGED <<dt, files, obj>>
  <2>1. BRetry(c)
    BY <1>1, <1>2, <1>3 DEF BRetry
  <2> QED BY <1>1, <1>3, <2>1 DEF BsdStep, BsdStepOf, Typed, BsdPre
<1>4. CASE FreeBsd!OpenFile /\ FreeBsd!bio_socket_from_fd(FreeBsd!NewFd, FreeBsd!NewFile)
  <2>1. /\ obj' \in Seq(ObjectRecord(Trio, BsdFd))
        /\ \E fd \in BsdFd : Opened(fd) /\ Grown(Len(obj) + 1, "socket", fd, files + 1, "none")
    BY <1>4, BsdNewObject DEF FreeBsd!bio_socket_from_fd
  <2>2. BRetry(c)
    BY <1>1, <1>2, <2>1 DEF BRetry
  <2> QED BY <1>1, <2>1, <2>2 DEF BsdStep, BsdStepOf, Typed
<1> QED BY <1>3, <1>4 DEF FreeBsd!Retry

\* An object is replaced.
LEMMA PutFacts ==
    ASSUME NEW C, NEW F, Typed(C, F), NEW o \in DOMAIN obj, NEW r \in ObjectRecord(C, F),
           obj' = [obj EXCEPT ![o] = r]
    PROVE  /\ obj' \in Seq(ObjectRecord(C, F))
           /\ DOMAIN obj' = DOMAIN obj
           /\ \A p \in DOMAIN obj \ {o} : obj'[p] = obj[p]
           /\ obj'[o] = r
<1>1. obj \in Seq(ObjectRecord(C, F))
  BY DEF Typed
<1> QED BY <1>1

\* The handle of an object is closed and its memory kept.
LEMMA ShutFacts ==
    ASSUME NEW C, NEW F, Typed(C, F), NEW o \in DOMAIN obj,
           obj' = [obj EXCEPT ![o] = [obj[o] EXCEPT !.live = FALSE]]
    PROVE  obj' \in Seq(ObjectRecord(C, F)) /\ Shuts(o)
<1>1. obj[o] \in ObjectRecord(C, F)
  BY ObjectAt
<1>2. PICK r : r = [obj[o] EXCEPT !.live = FALSE]
  OBVIOUS
<1>3. /\ r \in ObjectRecord(C, F) /\ ~r.live /\ r.kind = obj[o].kind /\ r.mem = obj[o].mem
      /\ r.mode = obj[o].mode /\ r.file = obj[o].file /\ r.acceptors = obj[o].acceptors
  BY <1>1, <1>2 DEF ObjectRecord
<1>4. obj' = [obj EXCEPT ![o] = r]
  BY <1>2
<1>5. /\ obj' \in Seq(ObjectRecord(C, F))
      /\ DOMAIN obj' = DOMAIN obj
      /\ \A p \in DOMAIN obj \ {o} : obj'[p] = obj[p]
      /\ obj'[o] = r
  BY <1>3, <1>4, PutFacts
<1> QED BY <1>3, <1>5 DEF Shuts

\* The mode of an object changes.
LEMMA ModeFacts ==
    ASSUME NEW C, NEW F, Typed(C, F), NEW o \in DOMAIN obj,
           NEW mode \in {"none", "unknown", "enabled", "disabled", "skip", "always"},
           obj' = [obj EXCEPT ![o].mode = mode]
    PROVE  obj' \in Seq(ObjectRecord(C, F)) /\ KeepsObjects
<1>1. obj[o] \in ObjectRecord(C, F)
  BY ObjectAt
<1>2. PICK r : r = [obj[o] EXCEPT !.mode = mode]
  OBVIOUS
<1>3. /\ r \in ObjectRecord(C, F) /\ r.live = obj[o].live /\ r.kind = obj[o].kind
      /\ r.mem = obj[o].mem /\ r.fd = obj[o].fd /\ r.file = obj[o].file
  BY <1>1, <1>2 DEF ObjectRecord
<1>4. obj' = [obj EXCEPT ![o] = r]
  BY <1>2
<1>5. /\ obj' \in Seq(ObjectRecord(C, F))
      /\ DOMAIN obj' = DOMAIN obj
      /\ \A p \in DOMAIN obj \ {o} : obj'[p] = obj[p]
      /\ obj'[o] = r
  BY <1>3, <1>4, PutFacts
<1> QED BY <1>3, <1>5 DEF KeepsObjects

\* What closing does to the calls of the others: at and res only.
LEMMA BsdCancels ==
    ASSUME BsdPre, NEW o \in DOMAIN obj, NEW calls, FreeBsd!Close(calls, obj[o].fd),
           \A d \in Trio :
               /\ calls[d] \in CallRecord(BsdFd)
               /\ calls[d].op = call[d].op /\ calls[d].step = call[d].step /\ calls[d].o = call[d].o
               /\ calls[d].fd = call[d].fd /\ calls[d].file = call[d].file /\ calls[d].own = call[d].own
               /\ \/ calls[d].at = call[d].at /\ calls[d].res = call[d].res
                  \/ Reader(d, o) /\ call[d].at \in {"queued", "registered"} /\ calls[d].at = "raised"
                  \/ call[d].step \in {"aio", "probe"} /\ calls[d].at = "ready"
               /\ obj[o].kind = "socket" /\ Reader(d, o) => calls[d].at \notin {"queued", "registered"}
    PROVE  /\ call' \in [Trio -> CallRecord(BsdFd)]
           /\ dt' = [dt EXCEPT ![obj[o].fd] = 0]
           /\ \A d \in Trio : BCancelled(d, o)
<1>1. /\ dt' = [dt EXCEPT ![obj[o].fd] = 0]
      /\ call' = [c \in Trio |->
            IF calls[c].at = "registered" /\ calls[c].step = "event" /\ calls[c].fd = obj[o].fd
            THEN [calls[c] EXCEPT !.at = "forgotten"] ELSE calls[c]]
  BY DEF FreeBsd!Close
<1>2. ASSUME NEW d \in Trio PROVE call'[d] \in CallRecord(BsdFd) /\ BCancelled(d, o)
  <2>1. PICK r : r = calls[d]
    OBVIOUS
  <2>2. /\ r \in CallRecord(BsdFd)
        /\ r.op = call[d].op /\ r.step = call[d].step /\ r.o = call[d].o
        /\ r.fd = call[d].fd /\ r.file = call[d].file /\ r.own = call[d].own
        /\ \/ r.at = call[d].at /\ r.res = call[d].res
           \/ Reader(d, o) /\ call[d].at \in {"queued", "registered"} /\ r.at = "raised"
           \/ call[d].step \in {"aio", "probe"} /\ r.at = "ready"
        /\ obj[o].kind = "socket" /\ Reader(d, o) => r.at \notin {"queued", "registered"}
    BY <2>1
  <2>3. CASE r.at = "registered" /\ r.step = "event" /\ r.fd = obj[o].fd
    <3>1. PICK q : q = [r EXCEPT !.at = "forgotten"]
      OBVIOUS
    <3>2. /\ q \in CallRecord(BsdFd)
          /\ q.op = r.op /\ q.step = r.step /\ q.o = r.o /\ q.fd = r.fd /\ q.file = r.file
          /\ q.own = r.own /\ q.at = "forgotten"
      BY <2>2, <3>1 DEF CallRecord, At
    <3>3. call'[d] = q
      BY <1>1, <2>1, <2>3, <3>1
    <3> QED BY <2>2, <2>3, <3>2, <3>3 DEF BCancelled, SameRequest
  <2>4. CASE ~(r.at = "registered" /\ r.step = "event" /\ r.fd = obj[o].fd)
    <3>1. call'[d] = r
      BY <1>1, <2>1, <2>4
    <3> QED BY <2>2, <3>1 DEF BCancelled, SameRequest
  <2> QED BY <2>3, <2>4
<1>3. call' = [d \in Trio |-> call'[d]]
  BY <1>1
<1>4. call' \in [Trio -> CallRecord(BsdFd)]
  BY <1>2, <1>3
<1> QED BY <1>1, <1>2, <1>4

\* bio_net_close is one of the steps, whether it meets a writer or not.
LEMMA BsdNetCloses ==
    ASSUME BsdPre, NEW c \in Trio, NEW o \in DOMAIN obj, FreeBsd!bio_net_close(c, o)
    PROVE  BsdStep
<1>1. obj[o].live /\ obj[o].kind = "socket" /\ UNCHANGED <<files, strayed>> /\ call[c] = NoCall
  BY BsdNames DEF FreeBsd!bio_net_close, FreeBsd!Open
<1>2. CASE /\ FreeBsd!Waiter(o, "read") = {}
           /\ obj' = [obj EXCEPT ![o] = FreeBsd!Closed(o)]
           /\ FreeBsd!Update(c, FreeBsd!Call("net_close", "none", o, "undefined"))
           /\ lost' = lost \cup {obj[o].file}
           /\ UNCHANGED dt
  <2>1. PICK q : q = TheCall("net_close", "none", o, "undefined")
    OBVIOUS
  <2>2. "undefined" \in At /\ "none" \in Step /\ "net_close" \in Op
    BY DEF At, Step, Op
  <2>3. Fresh(q, BsdFd, "net_close", "none", o, obj[o].fd, obj[o].file, "undefined")
    BY <2>1, <2>2, BsdZero, CallFields DEF BsdPre
  <2>4. call' = [call EXCEPT ![c] = q]
    BY <1>2, <2>1, BsdNames DEF FreeBsd!Update
  <2>5. call' \in [Trio -> CallRecord(BsdFd)] /\ Others(Trio, c) /\ call'[c] = q
    BY <2>3, <2>4, UpdateFacts DEF BsdPre, Fresh
  <2>6. obj' \in Seq(ObjectRecord(Trio, BsdFd)) /\ Shuts(o)
    BY <1>2, ShutFacts DEF BsdPre, FreeBsd!Closed
  <2>7. \A d \in Trio : ~Reader(d, o)
    BY <1>2 DEF FreeBsd!Waiter, FreeBsd!Filter, Reader
  <2>8. BCloseUndefined(c, o)
    BY <1>1, <1>2, <2>3, <2>5, <2>6, <2>7 DEF BCloseUndefined, Begins, Fresh
  <2> QED BY <2>5, <2>6, <2>8 DEF BsdStep, BsdStepOf, Typed
<1>3. CASE /\ obj' = [obj EXCEPT ![o] = FreeBsd!Freed]
           /\ FreeBsd!Close([d \in Trio |-> IF d \in FreeBsd!Waiter(o, "read")
                                            THEN FreeBsd!bio_cancel_io(call[d]) ELSE call[d]],
                            obj[o].fd)
           /\ UNCHANGED lost
  <2>1. PICK calls : calls = [d \in Trio |-> IF d \in FreeBsd!Waiter(o, "read")
                                             THEN FreeBsd!bio_cancel_io(call[d]) ELSE call[d]]
    OBVIOUS
  <2>2. ASSUME NEW d \in Trio
        PROVE  /\ calls[d] \in CallRecord(BsdFd)
               /\ calls[d].op = call[d].op /\ calls[d].step = call[d].step /\ calls[d].o = call[d].o
               /\ calls[d].fd = call[d].fd /\ calls[d].file = call[d].file /\ calls[d].own = call[d].own
               /\ \/ calls[d].at = call[d].at /\ calls[d].res = call[d].res
                  \/ Reader(d, o) /\ call[d].at \in {"queued", "registered"} /\ calls[d].at = "raised"
               /\ Reader(d, o) => calls[d].at \notin {"queued", "registered"}
    <3>1. call[d] \in CallRecord(BsdFd)
      BY DEF BsdPre, Typed
    <3>2. d \in FreeBsd!Waiter(o, "read") <=> Reader(d, o)
      BY DEF FreeBsd!Waiter, FreeBsd!Filter, Reader
    <3>3. CASE Reader(d, o) /\ call[d].at \in {"queued", "registered"}
      <4>1. calls[d] = [call[d] EXCEPT !.at = "raised"]
        BY <2>1, <3>2, <3>3 DEF FreeBsd!bio_cancel_io
      <4> QED BY <3>1, <3>3, <4>1 DEF CallRecord, At
    <3>4. CASE ~(Reader(d, o) /\ call[d].at \in {"queued", "registered"})
      <4>1. calls[d] = call[d]
        BY <2>1, <3>2, <3>4 DEF FreeBsd!bio_cancel_io
      <4> QED BY <3>1, <3>4, <4>1
    <3> QED BY <3>3, <3>4
  <2>3. FreeBsd!Close(calls, obj[o].fd)
    BY <1>3, <2>1
  <2>4. /\ call' \in [Trio -> CallRecord(BsdFd)]
        /\ dt' = [dt EXCEPT ![obj[o].fd] = 0]
        /\ \A d \in Trio : BCancelled(d, o)
    BY <2>2, <2>3, BsdCancels
  <2>5. obj' = [obj EXCEPT ![o] = FreedObject]
    BY <1>3, BsdNames
  <2>6. obj' \in Seq(ObjectRecord(Trio, BsdFd)) /\ Frees(o)
    BY <2>5, FreeFacts, BsdZero DEF BsdPre
  <2>7. BClose(o)
    BY <1>1, <1>3, <2>4, <2>6 DEF BClose
  <2> QED BY <2>4, <2>6, <2>7 DEF BsdStep, BsdStepOf, Typed
<1> QED BY <1>2, <1>3 DEF FreeBsd!bio_net_close

\* bio_fclose is one of the steps, whether it fails or not, and whatever aio
\* requests the file has.
LEMMA BsdFcloses ==
    ASSUME BsdPre, NEW c \in Trio, NEW o \in DOMAIN obj, FreeBsd!bio_fclose(c, o)
    PROVE  BsdStep
<1> DEFINE pending == {d \in FreeBsd!Aio(o) : call[d].at = "registered"}
<1>1. obj[o].live /\ obj[o].kind = "file" /\ UNCHANGED <<files, strayed>>
  BY DEF FreeBsd!bio_fclose, FreeBsd!Open
<1>2. CASE /\ obj' = [obj EXCEPT ![o] = FreeBsd!Closed(o)]
           /\ lost' = lost \cup {obj[o].file}
           /\ UNCHANGED <<dt, call>>
  <2>1. obj' \in Seq(ObjectRecord(Trio, BsdFd)) /\ Shuts(o)
    BY <1>2, ShutFacts DEF BsdPre, FreeBsd!Closed
  <2>2. BCloseFails(o)
    BY <1>1, <1>2, <2>1 DEF BCloseFails
  <2> QED BY <1>2, <2>1, <2>2 DEF BsdStep, BsdStepOf, Typed, BsdPre
<1>3. CASE /\ obj' = [obj EXCEPT ![o] = FreeBsd!Freed]
           /\ FreeBsd!Close([d \in Trio |-> IF d \in pending
                                            THEN [call[d] EXCEPT !.at = "ready", !.res = "err"]
                                            ELSE call[d]],
                            obj[o].fd)
           /\ UNCHANGED lost
  <2>1. PICK calls : calls = [d \in Trio |-> IF d \in pending
                                             THEN [call[d] EXCEPT !.at = "ready", !.res = "err"]
                                             ELSE call[d]]
    OBVIOUS
  <2>2. ASSUME NEW d \in Trio
        PROVE  /\ calls[d] \in CallRecord(BsdFd)
               /\ calls[d].op = call[d].op /\ calls[d].step = call[d].step /\ calls[d].o = call[d].o
               /\ calls[d].fd = call[d].fd /\ calls[d].file = call[d].file /\ calls[d].own = call[d].own
               /\ \/ calls[d].at = call[d].at /\ calls[d].res = call[d].res
                  \/ call[d].step \in {"aio", "probe"} /\ calls[d].at = "ready"
    <3>1. call[d] \in CallRecord(BsdFd)
      BY DEF BsdPre, Typed
    <3>2. CASE d \in pending
      <4>1. calls[d] = [call[d] EXCEPT !.at = "ready", !.res = "err"]
        BY <2>1, <3>2
      <4>2. call[d].step \in {"aio", "probe"}
        BY <3>2 DEF FreeBsd!Aio
      <4> QED BY <3>1, <4>1, <4>2 DEF CallRecord, At
    <3>3. CASE d \notin pending
      <4>1. calls[d] = call[d]
        BY <2>1, <3>3
      <4> QED BY <3>1, <4>1
    <3> QED BY <3>2, <3>3
  <2>3. FreeBsd!Close(calls, obj[o].fd)
    BY <1>3, <2>1
  <2>4. /\ call' \in [Trio -> CallRecord(BsdFd)]
        /\ dt' = [dt EXCEPT ![obj[o].fd] = 0]
        /\ \A d \in Trio : BCancelled(d, o)
    BY <1>1, <2>2, <2>3, BsdCancels
  <2>5. obj' = [obj EXCEPT ![o] = FreedObject]
    BY <1>3, BsdNames
  <2>6. obj' \in Seq(ObjectRecord(Trio, BsdFd)) /\ Frees(o)
    BY <2>5, FreeFacts, BsdZero DEF BsdPre
  <2>7. BClose(o)
    BY <1>1, <1>3, <2>4, <2>6 DEF BClose
  <2> QED BY <2>4, <2>6, <2>7 DEF BsdStep, BsdStepOf, Typed
<1> QED BY <1>2, <1>3 DEF FreeBsd!bio_fclose

\* A call begins with a job of the pool.
LEMMA BsdPools ==
    ASSUME BsdPre, NEW c \in Trio, NEW o \in DOMAIN obj, NEW op \in {"fstat", "transfer", "fflush"},
           NEW step \in Step, NEW at \in At, NEW r, r = FreeBsd!Call(op, step, o, at),
           FreeBsd!RunInPool(c, r), call[c] = FreeBsd!Idle, obj[o].live, BsdKernelSame,
           KeepsObjects, obj' \in Seq(ObjectRecord(Trio, BsdFd))
    PROVE  BsdStep
<1>1. op \in Op /\ r = TheCall(op, step, o, at)
  BY BsdNames DEF Op
<1>2. Fresh(r, BsdFd, op, step, o, obj[o].fd, obj[o].file, at)
  BY <1>1, BsdZero, CallFields DEF BsdPre
<1>3. PICK q : q = [r EXCEPT !.op = IF @ = "fopen" THEN @ ELSE "job",
                             !.step = "job", !.at = "pool", !.res = "none"]
  OBVIOUS
<1>4. /\ q \in CallRecord(BsdFd)
      /\ q.op = "job" /\ q.step = "job" /\ q.o = o /\ q.fd = obj[o].fd /\ q.file = obj[o].file
      /\ q.own = FALSE /\ q.at = "pool" /\ q.res = "none" /\ q.pkt = "none"
  <2>1. r.op # "fopen"
    BY <1>2 DEF Fresh
  <2>2. q = [r EXCEPT !.op = "job", !.step = "job", !.at = "pool", !.res = "none"]
    BY <1>3, <2>1
  <2>3. "job" \in Op /\ "job" \in Step /\ "pool" \in At
    BY DEF Op, Step, At
  <2> QED BY <1>2, <2>2, <2>3 DEF CallRecord, Fresh
<1>5. call' = [call EXCEPT ![c] = q] /\ call[c] = NoCall
  BY <1>3, BsdNames DEF FreeBsd!RunInPool, FreeBsd!Update
<1>6. call' \in [Trio -> CallRecord(BsdFd)] /\ Others(Trio, c) /\ call'[c] = q
  BY <1>4, <1>5, UpdateFacts DEF BsdPre
<1>7. BPool(c, o)
  BY <1>4, <1>5, <1>6 DEF BPool, Begins
<1> QED BY <1>6, <1>7 DEF BsdStep, BsdStepOf, Typed

\* If no object changes, none changes but in its mode.
LEMMA KeptIsKept == UNCHANGED obj => KeepsObjects
  BY DEF KeepsObjects

\* bio_fopen is one of the steps.
LEMMA BsdFopens ==
    ASSUME BsdPre, NEW c \in Trio, FreeBsd!bio_fopen(c)
    PROVE  BsdStep
<1>1. PICK r : r = TheCall("fopen", "job", 0, "pool")
  OBVIOUS
<1>2. "pool" \in At /\ "job" \in Step /\ "fopen" \in Op
  BY DEF At, Step, Op
<1>3. Fresh(r, BsdFd, "fopen", "job", 0, 0, 0, "pool")
  BY <1>1, <1>2, BsdZero, FreeCallFields
<1>4. PICK q : q = [r EXCEPT !.op = IF @ = "fopen" THEN @ ELSE "job",
                             !.step = "job", !.at = "pool", !.res = "none"]
  OBVIOUS
<1>5. /\ q \in CallRecord(BsdFd)
      /\ q.op = "fopen" /\ q.step = "job" /\ q.o = 0 /\ q.fd = 0 /\ q.file = 0
      /\ q.own = FALSE /\ q.at = "pool" /\ q.res = "none" /\ q.pkt = "none"
  <2>1. r.op = "fopen"
    BY <1>3 DEF Fresh
  <2>2. q = [r EXCEPT !.op = "fopen", !.step = "job", !.at = "pool", !.res = "none"]
    BY <1>4, <2>1
  <2> QED BY <1>2, <1>3, <2>2 DEF CallRecord, Fresh
<1>6. call' = [call EXCEPT ![c] = q] /\ call[c] = NoCall /\ BsdKernelSame /\ UNCHANGED obj
  BY <1>1, <1>4, BsdNames
     DEF FreeBsd!bio_fopen, FreeBsd!RunInPool, FreeBsd!Update, FreeBsd!kernelVars, BsdKernelSame
<1>7. call' \in [Trio -> CallRecord(BsdFd)] /\ Others(Trio, c) /\ call'[c] = q
  BY <1>5, <1>6, UpdateFacts DEF BsdPre
<1>8. BFopen(c)
  BY <1>5, <1>6, <1>7 DEF BFopen, Begins
<1> QED BY <1>6, <1>7, <1>8 DEF BsdStep, BsdStepOf, Typed, BsdPre

\* bio_fstat is one of the steps.
LEMMA BsdFstats ==
    ASSUME BsdPre, NEW c \in Trio, NEW o \in DOMAIN obj, FreeBsd!bio_fstat(c, o)
    PROVE  BsdStep
<1>1. PICK r : r = FreeBsd!Call("fstat", "job", o, "pool")
  OBVIOUS
<1>2. "pool" \in At /\ "job" \in Step
  BY DEF At, Step
<1>3. /\ FreeBsd!RunInPool(c, r) /\ call[c] = FreeBsd!Idle /\ obj[o].live /\ BsdKernelSame
      /\ UNCHANGED obj
  BY <1>1 DEF FreeBsd!bio_fstat, FreeBsd!Open, FreeBsd!kernelVars, BsdKernelSame
<1>4. obj' \in Seq(ObjectRecord(Trio, BsdFd))
  BY <1>3 DEF BsdPre, Typed
<1> QED BY <1>1, <1>2, <1>3, <1>4, KeptIsKept, BsdPools

\* Reads, writes and bio_fflush are among the steps, in each mode of the file.
LEMMA BsdTransfers ==
    ASSUME BsdPre, NEW c \in Trio, NEW o \in DOMAIN obj, NEW op \in {"transfer", "fflush"},
           FreeBsd!Transfer(c, o, op)
    PROVE  BsdStep
<1>1. PICK step \in {"aio", "probe"} : step = IF obj[o].mode = "unknown" THEN "probe" ELSE "aio"
  OBVIOUS
<1>2. PICK r : r = FreeBsd!Call(op, step, o, "registered")
  OBVIOUS
<1>3. "registered" \in At /\ step \in Step /\ op \in Op
  BY DEF At, Step, Op
<1>4. /\ call[c] = FreeBsd!Idle /\ obj[o].live /\ BsdKernelSame
      /\ \/ FreeBsd!RunInPool(c, r) /\ UNCHANGED obj
         \/ FreeBsd!Update(c, r) /\ UNCHANGED obj
         \/ obj' = [obj EXCEPT ![o].mode = "disabled"] /\ FreeBsd!RunInPool(c, r)
  BY <1>1, <1>2 DEF FreeBsd!Transfer, FreeBsd!Open, FreeBsd!kernelVars, BsdKernelSame
<1>5. obj \in Seq(ObjectRecord(Trio, BsdFd))
  BY DEF BsdPre, Typed
<1>6. CASE FreeBsd!RunInPool(c, r) /\ UNCHANGED obj
  BY <1>2, <1>3, <1>4, <1>5, <1>6, KeptIsKept, BsdPools
<1>7. CASE obj' = [obj EXCEPT ![o].mode = "disabled"] /\ FreeBsd!RunInPool(c, r)
  <2>1. obj' \in Seq(ObjectRecord(Trio, BsdFd)) /\ KeepsObjects
    BY <1>7, ModeFacts DEF BsdPre
  <2>2. FreeBsd!RunInPool(c, r)
    BY <1>7
  <2> QED BY <1>2, <1>3, <1>4, <2>1, <2>2, BsdPools, Zenon
<1>8. CASE FreeBsd!Update(c, r) /\ UNCHANGED obj
  <2>1. r = TheCall(op, step, o, "registered")
    BY <1>2, BsdNames
  <2>2. Fresh(r, BsdFd, op, step, o, obj[o].fd, obj[o].file, "registered")
    BY <1>3, <2>1, BsdZero, CallFields DEF BsdPre
  <2>3. call' = [call EXCEPT ![c] = r] /\ call[c] = NoCall
    BY <1>4, <1>8, BsdNames DEF FreeBsd!Update
  <2>4. call' \in [Trio -> CallRecord(BsdFd)] /\ Others(Trio, c) /\ call'[c] = r
    BY <2>2, <2>3, UpdateFacts DEF BsdPre, Fresh
  <2>5. BAio(c, o, op, step)
    BY <1>4, <1>8, <2>2, <2>3, <2>4 DEF BAio, Begins, Fresh
  <2> QED BY <1>3, <1>5, <1>8, <2>4, <2>5 DEF BsdStep, BsdStepOf, Typed
<1> QED BY <1>4, <1>6, <1>7, <1>8

\* The jobs of the pool are among the steps.
LEMMA BsdJobs ==
    ASSUME BsdPre, NEW c \in Trio, FreeBsd!Job(c)
    PROVE  BsdStep
<1>1. call[c] \in CallRecord(BsdFd)
  BY DEF BsdPre, Typed
<1>2. call[c].at = "pool" /\ UNCHANGED <<obj, lost>>
  BY DEF FreeBsd!Job
<1>3. CASE /\ call[c].op = "fopen" /\ FreeBsd!OpenFile
           /\ FreeBsd!Update(c, [FreeBsd!Holding(call[c]) EXCEPT !.at = "ready", !.res = "ok"])
           /\ UNCHANGED strayed
  <2>1. PICK fd : fd = FreeBsd!NewFd
    OBVIOUS
  <2>2. fd \in BsdFd /\ Opened(fd) /\ files + 1 \in Nat
    BY <1>3, <2>1, BsdNewFd DEF BsdPre
  <2>3. PICK p : p = [call[c] EXCEPT !.fd = fd, !.file = files + 1, !.own = TRUE]
    OBVIOUS
  <2>4. PICK q : q = [p EXCEPT !.at = "ready", !.res = "ok"]
    OBVIOUS
  <2>5. /\ p \in CallRecord(BsdFd) /\ p.op = call[c].op /\ p.o = call[c].o
        /\ p.fd = fd /\ p.file = files + 1 /\ p.own /\ p.step = call[c].step
    BY <1>1, <2>2, <2>3 DEF CallRecord
  <2>6. /\ q \in CallRecord(BsdFd) /\ q.op = call[c].op /\ q.o = call[c].o
        /\ q.fd = fd /\ q.file = files + 1 /\ q.own
        /\ q.step = call[c].step /\ q.at = "ready" /\ q.res = "ok"
    BY <2>4, <2>5 DEF CallRecord, At
  <2>7. call' = [call EXCEPT ![c] = q]
    BY <1>3, <2>1, <2>3, <2>4 DEF FreeBsd!Update, FreeBsd!Holding, FreeBsd!NewFile
  <2>8. call' \in [Trio -> CallRecord(BsdFd)] /\ Others(Trio, c) /\ call'[c] = q
    BY <2>6, <2>7, UpdateFacts DEF BsdPre
  <2>9. BOpened(c, fd)
    BY <1>2, <1>3, <2>2, <2>6, <2>8 DEF BOpened
  <2> QED BY <1>2, <2>2, <2>8, <2>9 DEF BsdStep, BsdStepOf, Typed, BsdPre
<1>4. CASE /\ call[c].op = "fopen"
           /\ FreeBsd!Update(c, [call[c] EXCEPT !.at = "ready", !.res = "err"])
           /\ UNCHANGED FreeBsd!kernelVars
  <2>1. PICK q : q = [call[c] EXCEPT !.at = "ready", !.res = "err"]
    OBVIOUS
  <2>2. /\ q \in CallRecord(BsdFd) /\ q.op = call[c].op /\ q.o = call[c].o
        /\ q.fd = call[c].fd /\ q.file = call[c].file /\ q.own = call[c].own
        /\ q.step = call[c].step /\ q.at = "ready" /\ q.res = "err"
    BY <1>1, <2>1 DEF CallRecord, At
  <2>3. call' = [call EXCEPT ![c] = q] /\ BsdKernelSame
    BY <1>2, <1>4, <2>1 DEF FreeBsd!Update, FreeBsd!kernelVars, BsdKernelSame
  <2>4. Typed(Trio, BsdFd)' /\ Goes(Trio, c, q.step, q.at, q.res)
    BY <1>2, <2>2, <2>3, BsdGoes
  <2>5. BNotOpened(c)
    BY <1>2, <1>4, <2>2, <2>3, <2>4 DEF BNotOpened
  <2> QED BY <2>4, <2>5 DEF BsdStep, BsdStepOf
<1>5. CASE /\ call[c].op # "fopen" /\ FreeBsd!Reach(call[c])
           /\ FreeBsd!Update(c, [call[c] EXCEPT !.at = "ready"]) /\ UNCHANGED <<dt, files>>
  <2>1. "ready" \in At /\ call' = [call EXCEPT ![c] = [call[c] EXCEPT !.at = "ready"]]
    BY <1>5 DEF At, FreeBsd!Update
  <2>2. Typed(Trio, BsdFd)' /\ Goes(Trio, c, call[c].step, "ready", call[c].res)
    BY <1>2, <2>1, BsdStands
  <2>3. BJob(c)
    BY <1>2, <1>5, <2>2 DEF BJob, Reaches, FreeBsd!Reach
  <2> QED BY <2>2, <2>3 DEF BsdStep, BsdStepOf
<1> QED BY <1>3, <1>4, <1>5 DEF FreeBsd!Job

\* What a call does when its job has ended is one of the steps.
LEMMA BsdJobEnds ==
    ASSUME BsdPre, NEW c \in Trio, FreeBsd!JobEnds(c)
    PROVE  BsdStep
<1>1. /\ call[c].step = "job" /\ call[c].at = "ready" /\ BsdKernelSame
      /\ FreeBsd!Update(c, FreeBsd!Idle)
  BY DEF FreeBsd!JobEnds, FreeBsd!kernelVars, BsdKernelSame
<1>2. CASE call[c].op = "fopen" /\ call[c].res = "ok"
  <2>1. FreeBsd!bio_file_from_fd(call[c].fd, call[c].file)
    BY <1>2 DEF FreeBsd!JobEnds
  <2> QED BY <1>1, <1>2, <2>1, BsdWraps
<1>3. CASE ~(call[c].op = "fopen" /\ call[c].res = "ok")
  <2>1. UNCHANGED obj
    BY <1>3 DEF FreeBsd!JobEnds
  <2>2. call' \in [Trio -> CallRecord(BsdFd)] /\ Returns(Trio, c)
    BY <1>1, BsdReturns
  <2>3. BReturn(c)
    BY <1>1, <1>3, <2>1, <2>2, KeptIsKept DEF BReturn
  <2> QED BY <2>1, <2>2, <2>3 DEF BsdStep, BsdStepOf, Typed, BsdPre
<1> QED BY <1>2, <1>3

\* What a call does when its aio request has ended is one of the steps.
LEMMA BsdAioEnds ==
    ASSUME BsdPre, NEW c \in Trio, NEW res, FreeBsd!AioEnds(c, res),
           call[c].step \in {"aio", "probe"} => call[c].op \in {"transfer", "fflush"}
    PROVE  BsdStep
<1>1. PICK o : o = call[c].o
  OBVIOUS
<1>2. /\ call[c].step \in {"aio", "probe"} /\ call[c].at = "ready" /\ BsdKernelSame
      /\ o \in DOMAIN obj /\ call[c] \in CallRecord(BsdFd) /\ call[c].op # "fopen"
  BY <1>1 DEF FreeBsd!AioEnds, FreeBsd!kernelVars, BsdKernelSame, BsdPre, Typed
<1>3. CASE \/ res = "ok" /\ call[c].op = "transfer" /\ ~obj[o].live
           \/ res # "err" /\ call[c].step = "probe" /\ ~obj[o].mem
  <2>1. call' = [call EXCEPT ![c] = [call[c] EXCEPT !.at = "undefined"]] /\ UNCHANGED obj
    BY <1>1, <1>3 DEF FreeBsd!AioEnds, FreeBsd!Update
  <2>2. "undefined" \in At
    BY DEF At
  <2>3. Typed(Trio, BsdFd)' /\ Goes(Trio, c, call[c].step, "undefined", call[c].res)
    BY <2>1, <2>2, BsdStands
  <2>4. BUndefined(c)
    BY <1>1, <1>2, <1>3, <2>1, <2>3 DEF BUndefined
  <2> QED BY <2>3, <2>4 DEF BsdStep, BsdStepOf
<1>4. CASE ~(\/ res = "ok" /\ call[c].op = "transfer" /\ ~obj[o].live
             \/ res # "err" /\ call[c].step = "probe" /\ ~obj[o].mem)
  <2>1. obj' \in Seq(ObjectRecord(Trio, BsdFd)) /\ KeepsObjects
    <3>1. CASE res # "err" /\ call[c].step = "probe"
      <4>1. PICK mode \in {"enabled", "disabled"} : mode = IF res = "ok" THEN "enabled" ELSE "disabled"
        OBVIOUS
      <4>2. obj' = [obj EXCEPT ![o].mode = mode]
        BY <1>1, <1>4, <3>1, <4>1 DEF FreeBsd!AioEnds
      <4> QED BY <1>2, <4>2, ModeFacts DEF BsdPre
    <3>2. CASE ~(res # "err" /\ call[c].step = "probe")
      <4>1. UNCHANGED obj
        BY <1>1, <1>4, <3>2 DEF FreeBsd!AioEnds
      <4> QED BY <4>1, KeptIsKept DEF BsdPre, Typed
    <3> QED BY <3>1, <3>2
  <2>2. CASE res = "unsupported" /\ call[c].step = "probe"
    <3>1. FreeBsd!RunInPool(c, call[c])
      BY <1>1, <1>4, <2>2 DEF FreeBsd!AioEnds
    <3>2. PICK q : q = [call[c] EXCEPT !.op = "job", !.step = "job", !.at = "pool", !.res = "none"]
      OBVIOUS
    <3>3. "job" \in Op /\ "job" \in Step /\ "pool" \in At
      BY DEF Op, Step, At
    <3>4. /\ q \in CallRecord(BsdFd) /\ q.op = "job" /\ q.o = call[c].o
          /\ q.fd = call[c].fd /\ q.file = call[c].file /\ q.own = call[c].own
          /\ q.step = "job" /\ q.at = "pool" /\ q.res = "none"
      BY <1>2, <3>2, <3>3 DEF CallRecord
    <3>5. call' = [call EXCEPT ![c] = q]
      BY <1>2, <3>1, <3>2 DEF FreeBsd!RunInPool, FreeBsd!Update
    <3>6. call' \in [Trio -> CallRecord(BsdFd)] /\ Others(Trio, c) /\ call'[c] = q
      BY <3>4, <3>5, UpdateFacts DEF BsdPre
    <3>7. BToPool(c)
      BY <1>2, <2>1, <2>2, <3>4, <3>6 DEF BToPool
    <3> QED BY <2>1, <3>6, <3>7 DEF BsdStep, BsdStepOf, Typed
  <2>3. CASE ~(res = "unsupported" /\ call[c].step = "probe")
    <3>1. FreeBsd!Update(c, FreeBsd!Idle)
      BY <1>1, <1>4, <2>3 DEF FreeBsd!AioEnds
    <3>2. call' \in [Trio -> CallRecord(BsdFd)] /\ Returns(Trio, c)
      BY <3>1, BsdReturns
    <3>3. BReturn(c)
      BY <1>2, <2>1, <3>2 DEF BReturn
    <3> QED BY <2>1, <3>2, <3>3 DEF BsdStep, BsdStepOf, Typed
  <2> QED BY <2>2, <2>3
<1> QED BY <1>3, <1>4

\* bio_platform_update is the step that moves every request.
LEMMA BsdUpdates ==
    ASSUME BsdPre, FreeBsd!bio_platform_update
    PROVE  BsdStep
<1> DEFINE Added == {c \in Trio : call[c].at = "queued" /\ dt[call[c].fd] # 0}
           Replaced(c) == \E d \in Added : /\ call[d].fd = call[c].fd
                                           /\ FreeBsd!Filter(d) = FreeBsd!Filter(c)
                                           /\ call[d].file > call[c].file
           Case(c) ==
               CASE call[c].at = "raised" -> [call[c] EXCEPT !.at = "ready"]
                 [] call[c].at = "queued" /\ c \notin Added -> [call[c] EXCEPT !.at = "ready", !.res = "err"]
                 [] call[c].step = "event" /\ call[c].at \in {"queued", "registered"} /\ Replaced(c) ->
                       [call[c] EXCEPT !.at = "forgotten"]
                 [] c \in Added /\ ~Replaced(c) -> [call[c] EXCEPT !.at = "registered"]
                 [] OTHER -> call[c]
<1>1. call' = [c \in Trio |-> Case(c)] /\ BsdKernelSame /\ UNCHANGED obj
  BY DEF FreeBsd!bio_platform_update, FreeBsd!kernelVars, BsdKernelSame
<1>2. ASSUME NEW d \in Trio PROVE call'[d] \in CallRecord(BsdFd) /\ BMoved(d)
  <2>1. call[d] \in CallRecord(BsdFd)
    BY DEF BsdPre, Typed
  <2>2. call'[d] = Case(d)
    BY <1>1
  <2>3. CASE call[d].at = "raised"
    <3>1. call'[d] = [call[d] EXCEPT !.at = "ready"]
      BY <2>2, <2>3
    <3> QED BY <2>1, <2>3, <3>1 DEF CallRecord, At, BMoved, SameRequest
  <2>4. CASE call[d].at = "queued" /\ d \notin Added
    <3>1. call'[d] = [call[d] EXCEPT !.at = "ready", !.res = "err"]
      BY <2>2, <2>4
    <3> QED BY <2>1, <2>4, <3>1 DEF CallRecord, At, BMoved, SameRequest
  <2>5. CASE call[d].at \in {"queued", "registered"} /\ (call[d].at = "queued" => d \in Added)
             /\ call[d].step = "event" /\ Replaced(d)
    <3>1. call'[d] = [call[d] EXCEPT !.at = "forgotten"]
      BY <2>2, <2>5
    <3> QED BY <2>1, <2>5, <3>1 DEF CallRecord, At, BMoved, SameRequest
  <2>6. CASE d \in Added /\ ~Replaced(d)
    <3>1. call'[d] = [call[d] EXCEPT !.at = "registered"]
      BY <2>2, <2>6
    <3> QED BY <2>1, <2>6, <3>1 DEF CallRecord, At, BMoved, SameRequest
  <2>7. CASE call'[d] = call[d]
    BY <2>1, <2>7 DEF BMoved, SameRequest
  <2> QED BY <2>2, <2>3, <2>4, <2>5, <2>6, <2>7
<1>3. call' = [d \in Trio |-> call'[d]]
  BY <1>1
<1>4. call' \in [Trio -> CallRecord(BsdFd)]
  BY <1>2, <1>3
<1> QED BY <1>1, <1>2, <1>4 DEF BsdStep, BUpdate, Typed, BsdPre

\* Every step of the port is one of the steps above.
LEMMA BsdCases ==
    ASSUME BsdPre, FreeBsd!Next,
           \A c \in Trio : call[c].step \in {"aio", "probe"} => call[c].op \in {"transfer", "fflush"}
    PROVE  BsdStep
<1>1. CASE FreeBsd!bio_platform_update
  BY <1>1, BsdUpdates
<1>2. ASSUME NEW c \in Trio,
             \/ FreeBsd!bio_platform_dispatch_events(c) \/ FreeBsd!AioDone(c)
             \/ FreeBsd!bio_net_wrap(c) \/ FreeBsd!bio_net_connect(c) \/ FreeBsd!Retry(c)
             \/ FreeBsd!Job(c) \/ FreeBsd!JobEnds(c) \/ FreeBsd!bio_fopen(c)
             \/ \E res \in {"ok", "err", "unsupported"} : FreeBsd!AioEnds(c, res)
      PROVE  BsdStep
  BY <1>2, BsdReadies, BsdNetWrap, BsdConnects, BsdRetries, BsdJobs, BsdJobEnds, BsdFopens, BsdAioEnds
<1>3. ASSUME NEW c \in Trio, FreeBsd!bio_net_listen(c) \/ FreeBsd!bio_fdopen(c)
      PROVE  BsdStep
  BY <1>3, BsdMakes DEF FreeBsd!bio_net_listen, FreeBsd!bio_fdopen
<1>4. ASSUME NEW c \in Trio, FreeBsd!ConnectEnds(c)
      PROVE  BsdStep
  BY <1>4, BsdWraps DEF FreeBsd!ConnectEnds, FreeBsd!kernelVars, BsdKernelSame
<1>5. ASSUME NEW c \in Trio, NEW o \in DOMAIN obj,
             \/ FreeBsd!bio_net_accept(c, o) \/ FreeBsd!bio_net_send(c, o) \/ FreeBsd!bio_net_recv(c, o)
             \/ FreeBsd!bio_net_close(c, o) \/ FreeBsd!bio_fstat(c, o) \/ FreeBsd!bio_fclose(c, o)
      PROVE  BsdStep
  BY <1>5, BsdSockets, BsdNetCloses, BsdFstats, BsdFcloses
<1>6. ASSUME NEW c \in Trio, NEW o \in DOMAIN obj,
             FreeBsd!bio_fread(c, o) \/ FreeBsd!bio_fwrite(c, o) \/ FreeBsd!bio_fflush(c, o)
      PROVE  BsdStep
  BY <1>6, BsdTransfers DEF FreeBsd!bio_fread, FreeBsd!bio_fwrite, FreeBsd!bio_fflush
<1> QED BY <1>1, <1>2, <1>3, <1>4, <1>5, <1>6 DEF FreeBsd!Next
-----------------------------------------------------------------------------
\* A connect owns its socket, a job of bio_fopen what it opened.
BsdOwn(r) == r.op = "connect" \/ (r.op = "fopen" /\ r.at = "ready" /\ r.res = "ok")

\* Which steps an operation has, and where it may stand in them.
BsdShape(r) ==
    /\ r.own <=> BsdOwn(r)
    /\ r.op \in {"accept", "send", "recv", "connect"} <=> r.step = "event"
    /\ r.step \in {"aio", "probe"} <=> r.op \in {"transfer", "fflush"}
    /\ r.step = "job" <=> r.op \in {"fopen", "job"}
    /\ r.op \in {"none", "fopen", "connect"} <=> r.o = 0
    /\ r.op = "connect" => r.at \in {"queued", "registered", "ready"}
    /\ r.at = "queued" => r.step = "event"
    /\ r.at = "raised" => r.op \in {"accept", "recv"}
    /\ r.at = "pool" => r.step = "job"
    /\ r.step = "job" => r.at \in {"pool", "ready"}

\* The object of c is the one whose descriptor it has.
Same(c) == obj[call[c].o].fd = call[c].fd /\ obj[call[c].o].file = call[c].file

\* As long as its handle is open, the object of a call is what the call has read of
\* it; a read that waits has an open handle, and only calls of closed handles are
\* forgotten or undefined.
BsdNamed(c) ==
    /\ call[c].o # 0 => call[c].o \in DOMAIN obj
    /\ call[c].o # 0 /\ obj[call[c].o].live =>
          Same(c) /\ (call[c].step = "event" => obj[call[c].o].kind = "socket")
    /\ call[c].op \in {"accept", "recv"} /\ call[c].at \in {"queued", "registered"} => obj[call[c].o].live
    /\ call[c].at = "forgotten" => call[c].op = "send" /\ ~obj[call[c].o].live
    /\ call[c].at = "undefined" =>
          call[c].op \in {"transfer", "fflush", "net_close"} /\ ~obj[call[c].o].live

\* A descriptor is used again only for newer open files.
Newer(c) == call[c].file <= files /\ (dt[call[c].fd] # 0 => call[c].file <= dt[call[c].fd])

\* The inductive invariant of the port: ownership, and that a descriptor is used
\* again only for newer files, so a request can be replaced only once its handle
\* was closed.
BsdInv ==
    /\ Typed(Trio, BsdFd)
    /\ Owned(Trio, BsdFd)
    /\ \A c \in Trio : BsdShape(call[c])
    /\ \A c \in Trio : BsdNamed(c)
    /\ \A c \in Trio : Newer(c)
    /\ LiveIsAllocated
    /\ strayed \subseteq {"closed"}

\* Every step of the FreeBSD port keeps ownership.
LEMMA BsdOwnedStep ==
    ASSUME BsdInv, BsdStep
    PROVE  Owned(Trio, BsdFd)'
<1>0. Owned(Trio, BsdFd) /\ NoCall.own = FALSE
  BY NoCallFields, BsdZero DEF BsdInv
<1>1. ASSUME NEW c, NEW step, NEW at, NEW res, Goes(Trio, c, step, at, res) PROVE SameCalls(Trio)
  BY <1>1 DEF Goes, Others, SameCalls, SameCall
<1>2. ASSUME NEW c, NEW op, NEW step, NEW o, NEW fd, NEW file, NEW at,
             Begins(Trio, c, op, step, o, fd, file, FALSE, at)
      PROVE  SameCalls(Trio)
  BY <1>0, <1>2 DEF Begins, Others, SameCalls, SameCall
<1>3. ASSUME NEW c, Returns(Trio, c) PROVE SameCallsBut(Trio, c) /\ ~call'[c].own
  BY <1>0, <1>3 DEF Returns, Others, SameCallsBut, SameCall
<1>4. UNCHANGED obj => SameObjects
  BY DEF SameObjects, SameObject
<1>5. KeepsObjects => SameObjects
  BY DEF KeepsObjects, SameObjects, SameObject
<1>6. ASSUME UNCHANGED call PROVE SameCalls(Trio)
  BY <1>6 DEF SameCalls, SameCall
<1>7. ASSUME NEW c \in Trio, Returns(Trio, c), ~call[c].own PROVE SameCalls(Trio)
  <2>1. call[c] \in CallRecord(BsdFd)
    BY DEF BsdInv, Typed
  <2>2. call[c].own = FALSE
    BY <1>7, <2>1 DEF CallRecord
  <2> QED BY <1>0, <1>7, <2>2 DEF Returns, Others, SameCalls, SameCall
<1>8. ASSUME NEW o \in DOMAIN obj, Shuts(o) \/ Frees(o) PROVE SameObjectsBut(o) /\ ~obj'[o].live
  BY <1>8 DEF Shuts, Frees, SameObjectsBut, SameObject
<1>9. CASE BUpdate
  <2>1. SameCalls(Trio)
    BY <1>9 DEF BUpdate, BMoved, SameRequest, SameCalls, SameCall
  <2> QED BY <1>0, <1>4, <1>9, <2>1, OwnedKept DEF BUpdate, BsdKernelSame
<1>10. ASSUME NEW c \in Trio, BReady(c) \/ BNotOpened(c) \/ BJob(c) \/ BUndefined(c) PROVE Owned(Trio, BsdFd)'
  BY <1>0, <1>1, <1>4, <1>10, OwnedKept DEF BReady, BNotOpened, BJob, BUndefined, BsdKernelSame
<1>11. ASSUME NEW c \in Trio, BFopen(c) PROVE Owned(Trio, BsdFd)'
  BY <1>0, <1>2, <1>4, <1>11, OwnedKept DEF BFopen, BsdKernelSame
<1>12. ASSUME NEW c \in Trio, NEW o \in DOMAIN obj, BPool(c, o) PROVE Owned(Trio, BsdFd)'
  <2>1. SameCalls(Trio)
    BY <1>0, <1>12 DEF BPool, Begins, Others, SameCalls, SameCall
  <2> QED BY <1>0, <2>1, <1>5, <1>12, OwnedKept DEF BPool, BsdKernelSame
<1>13. ASSUME NEW c \in Trio, NEW o \in DOMAIN obj, NEW op \in Op, BWait(c, o, op) \/ \E step \in Step : BAio(c, o, op, step)
       PROVE  Owned(Trio, BsdFd)'
  <2>1. SameCalls(Trio)
    BY <1>0, <1>13 DEF BAio, BWait, Begins, Others, SameCalls, SameCall
  <2> QED BY <1>0, <2>1, <1>4, <1>13, OwnedKept DEF BAio, BWait, BsdKernelSame
<1>14. ASSUME NEW c \in Trio, BReturn(c) PROVE Owned(Trio, BsdFd)'
  <2>1. ~call[c].own
    BY <1>14 DEF BReturn, BsdInv, BsdShape, BsdOwn
  <2> QED BY <1>0, <1>5, <1>7, <1>14, <2>1, OwnedKept DEF BReturn, BsdKernelSame
<1>15. ASSUME NEW c \in Trio, BToPool(c) PROVE Owned(Trio, BsdFd)'
  <2>1. SameCalls(Trio)
    BY <1>15 DEF BToPool, Others, SameCalls, SameCall
  <2> QED BY <1>0, <1>5, <1>15, <2>1, OwnedKept DEF BToPool, BsdKernelSame
<1>16. ASSUME NEW c \in Trio, BRetry(c) PROVE Owned(Trio, BsdFd)'
  <2>1. ~call[c].own
    BY <1>16 DEF BRetry, BsdInv, BsdShape, BsdOwn
  <2>2. SameCalls(Trio) /\ UNCHANGED lost
    BY <1>7, <1>16, <2>1 DEF BRetry
  <2>3. CASE UNCHANGED <<dt, files, obj>>
    BY <1>0, <1>4, <2>2, <2>3, OwnedKept
  <2>4. ASSUME NEW fd \in BsdFd, Opened(fd), Grown(Len(obj) + 1, "socket", fd, files + 1, "none")
        PROVE  Owned(Trio, BsdFd)'
    <3>1. PICK n : n = Len(obj) + 1
      OBVIOUS
    <3>2. NewObject(n, fd, files + 1)
      BY <2>4, <3>1 DEF Grown, NewObject, SameObject
    <3> QED BY <1>0, <2>2, <2>4, <3>2, OwnedOpenObject
  <2> QED BY <1>16, <2>3, <2>4 DEF BRetry
<1>17. ASSUME NEW fd \in BsdFd, BNetWrap(fd) PROVE Owned(Trio, BsdFd)'
  BY <1>0, <1>4, <1>6, <1>17, OwnedOpenLost DEF BNetWrap
<1>18. ASSUME NEW c \in Trio, NEW fd \in BsdFd, BConnect(c, fd) PROVE Owned(Trio, BsdFd)'
  <2>1. ~call[c].own /\ SameCallsBut(Trio, c) /\ call'[c].own /\ call'[c].fd = fd /\ call'[c].file = files + 1
    BY <1>0, <1>18 DEF BConnect, Begins, Others, SameCallsBut, SameCall
  <2> QED BY <1>0, <1>4, <1>18, <2>1, OwnedOpenCall DEF BConnect
<1>19. ASSUME NEW c \in Trio, NEW fd \in BsdFd, BOpened(c, fd) PROVE Owned(Trio, BsdFd)'
  <2>1. SameCallsBut(Trio, c)
    BY <1>19 DEF BOpened, Others, SameCallsBut, SameCall
  <2>2. ~call[c].own
    BY <1>19 DEF BOpened, BsdInv, BsdShape, BsdOwn
  <2> QED BY <1>0, <1>4, <1>19, <2>1, <2>2, OwnedOpenCall DEF BOpened
<1>20. ASSUME NEW fd \in BsdFd, NEW kind, NEW mode, BMakes(fd, kind, mode) PROVE Owned(Trio, BsdFd)'
  <2>1. PICK n : n = Len(obj) + 1
    OBVIOUS
  <2>2. NewObject(n, fd, files + 1)
    BY <1>20, <2>1 DEF BMakes, Grown, NewObject, SameObject
  <2> QED BY <1>0, <1>6, <1>20, <2>2, OwnedOpenObject DEF BMakes
<1>21. ASSUME NEW c \in Trio, NEW kind, NEW mode, BWrap(c, kind, mode) PROVE Owned(Trio, BsdFd)'
  <2>1. call[c].own
    BY <1>21 DEF BWrap, BsdInv, BsdShape, BsdOwn
  <2>2. PICK n : n = Len(obj) + 1
    OBVIOUS
  <2>3. NewObject(n, call[c].fd, call[c].file)
    BY <1>21, <2>2 DEF BWrap, Grown, NewObject, SameObject
  <2> QED BY <1>0, <1>3, <1>21, <2>1, <2>3, OwnedWrap DEF BWrap, BsdKernelSame
<1>22. ASSUME NEW c \in Trio, NEW o \in DOMAIN obj, BCloseUndefined(c, o) PROVE Owned(Trio, BsdFd)'
  <2>1. SameCalls(Trio)
    BY <1>0, <1>22 DEF BCloseUndefined, Begins, Others, SameCalls, SameCall
  <2> QED BY <1>0, <1>8, <1>22, <2>1, OwnedObjectLost DEF BCloseUndefined
<1>23. ASSUME NEW o \in DOMAIN obj, BClose(o) PROVE Owned(Trio, BsdFd)'
  <2>1. SameCalls(Trio)
    BY <1>23 DEF BClose, BCancelled, SameRequest, SameCalls, SameCall
  <2> QED BY <1>0, <1>8, <1>23, <2>1, OwnedCloseObject DEF BClose
<1>24. ASSUME NEW o \in DOMAIN obj, BCloseFails(o) PROVE Owned(Trio, BsdFd)'
  BY <1>0, <1>6, <1>8, <1>24, OwnedObjectLost DEF BCloseFails
<1> QED
  BY <1>9, <1>10, <1>11, <1>12, <1>13, <1>14, <1>15, <1>16, <1>17, <1>18, <1>19, <1>20, <1>21, <1>22,
     <1>23, <1>24 DEF BsdStep, BsdStepOf

\* Every step of the FreeBSD port keeps the shape of the calls.
LEMMA BsdShapeStep ==
    ASSUME BsdInv, BsdStep
    PROVE  \A d \in Trio : BsdShape(call'[d])
<1>0. /\ \A d \in Trio : BsdShape(call[d])
      /\ \A d \in Trio : BsdNamed(d)
      /\ \A d \in Trio : Newer(d)
      /\ Typed(Trio, BsdFd)
      /\ Owned(Trio, BsdFd)
  BY DEF BsdInv
<1>1. /\ NoCall.own = FALSE /\ NoCall.step = "none" /\ NoCall.op = "none" /\ NoCall.at = "none"
      /\ NoCall.o = 0
  BY NoCallFields, BsdZero
<1>2. \A o \in DOMAIN obj : o # 0
  BY <1>0, ObjectAt
<1>3. \A d \in Trio : call[d].op = "connect" => dt[call[d].fd] = call[d].file
  BY <1>0 DEF BsdShape, BsdOwn, Owned, Holders, CallHolds
<1> USE DEF BsdShape, BsdOwn
<1>9. CASE BUpdate
  <2> SUFFICES ASSUME NEW d \in Trio PROVE BsdShape(call'[d])
    OBVIOUS
  <2>1. SameRequest(d) /\ BsdShape(call[d])
    BY <1>0, <1>9 DEF BUpdate, BMoved
  <2>2. CASE /\ call[d].step = "event"
             /\ \E e \in Trio : /\ dt[call[e].fd] # 0
                                /\ call[e].fd = call[d].fd
                                /\ call[e].file > call[d].file
             /\ call'[d].at = "forgotten"
    <3>1. PICK e \in Trio : dt[call[e].fd] # 0 /\ call[e].fd = call[d].fd /\ call[e].file > call[d].file
      BY <2>2
    <3>2. call[e].file <= dt[call[d].fd] /\ call[e] \in CallRecord(BsdFd) /\ call[d] \in CallRecord(BsdFd)
      BY <1>0, <3>1 DEF Newer, Typed
    <3>3. call[e].file \in Nat /\ call[d].file \in Nat
      BY <3>2 DEF CallRecord
    <3>4. call[d].op # "connect"
      BY <1>3, <3>1, <3>2, <3>3
    <3> QED BY <2>1, <2>2, <3>4 DEF SameRequest
  <2>3. CASE \/ call'[d].at = call[d].at /\ call'[d].res = call[d].res
             \/ call[d].at = "raised" /\ call'[d].at = "ready" /\ call'[d].res = call[d].res
             \/ call[d].at = "queued" /\ call'[d].at = "ready" /\ call'[d].res = "err"
             \/ call[d].at = "queued" /\ call'[d].at = "registered" /\ call'[d].res = call[d].res
    BY <2>1, <2>3 DEF SameRequest
  <2> QED BY <1>9, <2>2, <2>3 DEF BUpdate, BMoved
<1>10. ASSUME NEW c \in Trio, BReady(c) \/ BNotOpened(c) \/ BJob(c) \/ BUndefined(c)
       PROVE  \A d \in Trio : BsdShape(call'[d])
  BY <1>0, <1>10 DEF BReady, BNotOpened, BJob, BUndefined, Goes, Others
<1>11. ASSUME NEW c \in Trio, BFopen(c) PROVE \A d \in Trio : BsdShape(call'[d])
  BY <1>0, <1>11 DEF BFopen, Begins, Others
<1>12. ASSUME NEW c \in Trio, NEW o \in DOMAIN obj, BPool(c, o) PROVE \A d \in Trio : BsdShape(call'[d])
  BY <1>0, <1>2, <1>12 DEF BPool, Begins, Others
<1>13. ASSUME NEW c \in Trio, NEW o \in DOMAIN obj, NEW op \in Op, BWait(c, o, op) \/ \E step \in Step : BAio(c, o, op, step)
       PROVE  \A d \in Trio : BsdShape(call'[d])
  BY <1>0, <1>2, <1>13 DEF BAio, BWait, Begins, Others
<1>14. ASSUME NEW c \in Trio, BReturn(c) \/ BRetry(c) \/ \E kind, mode : BWrap(c, kind, mode)
       PROVE  \A d \in Trio : BsdShape(call'[d])
  BY <1>0, <1>1, <1>14 DEF BReturn, BRetry, BWrap, Returns, Others
<1>15. ASSUME NEW c \in Trio, BToPool(c) PROVE \A d \in Trio : BsdShape(call'[d])
  BY <1>0, <1>15 DEF BToPool, Others
<1>17. CASE \/ \E fd \in BsdFd : \E kind, mode : BNetWrap(fd) \/ BMakes(fd, kind, mode)
            \/ \E o \in DOMAIN obj : BCloseFails(o)
  BY <1>0, <1>17 DEF BNetWrap, BMakes, BCloseFails
<1>18. ASSUME NEW c \in Trio, NEW fd \in BsdFd, BConnect(c, fd) PROVE \A d \in Trio : BsdShape(call'[d])
  BY <1>0, <1>18 DEF BConnect, Begins, Others
<1>19. ASSUME NEW c \in Trio, NEW fd \in BsdFd, BOpened(c, fd) PROVE \A d \in Trio : BsdShape(call'[d])
  BY <1>0, <1>19 DEF BOpened, Others
<1>22. ASSUME NEW c \in Trio, NEW o \in DOMAIN obj, BCloseUndefined(c, o) PROVE \A d \in Trio : BsdShape(call'[d])
  BY <1>0, <1>2, <1>22 DEF BCloseUndefined, Begins, Others
<1>23. ASSUME NEW o \in DOMAIN obj, BClose(o) PROVE \A d \in Trio : BsdShape(call'[d])
  <2> SUFFICES ASSUME NEW d \in Trio PROVE BsdShape(call'[d])
    OBVIOUS
  <2>1. SameRequest(d) /\ BsdShape(call[d]) /\ BCancelled(d, o)
    BY <1>0, <1>23 DEF BClose, BCancelled
  <2>2. call[d].op = "connect" => call[d].fd # obj[o].fd
    BY <1>0, <1>23 DEF BClose, Owned, Holders
  <2> QED BY <2>1, <2>2 DEF SameRequest, BCancelled, Reader
<1> QED
  BY <1>9, <1>10, <1>11, <1>12, <1>13, <1>14, <1>15, <1>17, <1>18, <1>19, <1>22,
     <1>23 DEF BsdStep, BsdStepOf

\* Objects stay as they are, but for new ones.
Stay == DOMAIN obj \subseteq DOMAIN obj' /\ \A p \in DOMAIN obj : /\ obj'[p].kind = obj[p].kind
                                                                 /\ obj'[p].fd = obj[p].fd
                                                                 /\ obj'[p].file = obj[p].file
                                                                 /\ obj'[p].live = obj[p].live
\* The handle of o is closed, nothing else happens to the others.
Ends(o) == /\ DOMAIN obj' = DOMAIN obj
           /\ \A p \in DOMAIN obj \ {o} : obj'[p] = obj[p]
           /\ ~obj'[o].live

\* As far as calls can see, objects stay or one handle is closed.
LEMMA StayFacts ==
    /\ UNCHANGED obj => Stay
    /\ KeepsObjects => Stay
    /\ \A n, kind, fd, file, mode : Grown(n, kind, fd, file, mode) => Stay
    /\ \A o : Shuts(o) \/ Frees(o) => Ends(o)
  BY DEF Stay, Ends, KeepsObjects, Grown, Shuts, Frees

\* Every step keeps what calls know of their objects: a request is forgotten only
\* when a newer file has its descriptor, so its handle was closed.
LEMMA BsdNamedStep ==
    ASSUME BsdInv, BsdStep
    PROVE  \A d \in Trio : BsdNamed(d)'
<1>0. /\ \A d \in Trio : BsdShape(call[d])
      /\ \A d \in Trio : BsdNamed(d)
      /\ \A d \in Trio : Newer(d)
      /\ Typed(Trio, BsdFd)
      /\ Owned(Trio, BsdFd)
      /\ LiveIsAllocated
  BY DEF BsdInv
<1>1. /\ NoCall.step = "none" /\ NoCall.op = "none" /\ NoCall.at = "none" /\ NoCall.o = 0
  BY NoCallFields, BsdZero
<1>2. \A o \in DOMAIN obj : o # 0
  BY <1>0, ObjectAt
<1>3. \A d \in Trio : call[d].o # 0 /\ obj[call[d].o].live => dt[call[d].fd] = call[d].file
  BY <1>0 DEF BsdNamed, Same, Owned, Holders, ObjectHolds
<1>4. ASSUME NEW d \in Trio, Stay, call'[d] = call[d] PROVE BsdNamed(d)'
  BY <1>0, <1>4 DEF BsdNamed, Stay, Same, BsdShape
<1>5. ASSUME NEW d \in Trio, call'[d] = NoCall PROVE BsdNamed(d)'
  BY <1>1, <1>5 DEF BsdNamed
<1>9. CASE BUpdate
  <2> SUFFICES ASSUME NEW d \in Trio PROVE BsdNamed(d)'
    OBVIOUS
  <2>1. SameRequest(d) /\ BsdShape(call[d]) /\ BsdNamed(d) /\ UNCHANGED obj
    BY <1>0, <1>9 DEF BUpdate, BMoved
  <2>2. CASE /\ call[d].step = "event"
             /\ call[d].at \in {"queued", "registered"}
             /\ \E e \in Trio : /\ dt[call[e].fd] # 0
                                /\ call[e].fd = call[d].fd
                                /\ call[e].file > call[d].file
             /\ call'[d].at = "forgotten"
    <3>1. PICK e \in Trio : dt[call[e].fd] # 0 /\ call[e].fd = call[d].fd /\ call[e].file > call[d].file
      BY <2>2
    <3>2. call[e].file <= dt[call[d].fd] /\ call[e] \in CallRecord(BsdFd) /\ call[d] \in CallRecord(BsdFd)
      BY <1>0, <3>1 DEF Newer, Typed
    <3>3. call[e].file \in Nat /\ call[d].file \in Nat
      BY <3>2 DEF CallRecord
    <3>4. dt[call[d].fd] # call[d].file
      BY <3>1, <3>2, <3>3
    <3>5. call[d].op # "connect"
      BY <1>0, <3>4 DEF BsdShape, BsdOwn, Owned, Holders, CallHolds
    <3>6. call[d].o # 0 /\ ~obj[call[d].o].live
      BY <1>3, <2>1, <2>2, <3>4, <3>5 DEF BsdShape
    <3> QED BY <2>1, <2>2, <3>5, <3>6 DEF SameRequest, BsdNamed, BsdShape
  <2>3. CASE \/ call'[d].at = call[d].at /\ call'[d].res = call[d].res
             \/ call[d].at = "raised" /\ call'[d].at = "ready" /\ call'[d].res = call[d].res
             \/ call[d].at = "queued" /\ call'[d].at = "ready" /\ call'[d].res = "err"
             \/ call[d].at = "queued" /\ call'[d].at = "registered" /\ call'[d].res = call[d].res
    BY <2>1, <2>3 DEF SameRequest, BsdNamed, Same
  <2> QED BY <1>9, <2>2, <2>3 DEF BUpdate, BMoved
<1>10. ASSUME NEW c \in Trio, BReady(c) \/ BNotOpened(c) \/ BJob(c) \/ BUndefined(c)
       PROVE  \A d \in Trio : BsdNamed(d)'
  <2>1. \A d \in Trio \ {c} : BsdNamed(d)'
    BY <1>4, <1>10, StayFacts DEF BReady, BNotOpened, BJob, BUndefined, Goes, Others
  <2>2. UNCHANGED obj /\ BsdNamed(c) /\ BsdShape(call[c])
    BY <1>0, <1>10 DEF BReady, BNotOpened, BJob, BUndefined
  <2>3. CASE BReady(c) \/ BNotOpened(c) \/ BJob(c)
    BY <2>1, <2>2, <2>3 DEF BReady, BNotOpened, BJob, Goes, BsdNamed, Same
  <2>4. CASE BUndefined(c)
    <3>1. call[c].op \in {"transfer", "fflush"} /\ call[c].o \in DOMAIN obj /\ ~obj[call[c].o].live
      BY <1>0, <2>2, <2>4 DEF BUndefined, BsdShape, BsdNamed, LiveIsAllocated
    <3> QED BY <2>1, <2>2, <2>4, <3>1 DEF BUndefined, Goes, BsdNamed, Same
  <2> QED BY <1>10, <2>3, <2>4
<1>11. ASSUME NEW c \in Trio, BFopen(c) PROVE \A d \in Trio : BsdNamed(d)'
  BY <1>4, <1>11, StayFacts DEF BFopen, Begins, Others, BsdNamed
<1>12. ASSUME NEW c \in Trio, NEW o \in DOMAIN obj, BPool(c, o) PROVE \A d \in Trio : BsdNamed(d)'
  <2>1. \A d \in Trio \ {c} : BsdNamed(d)'
    BY <1>4, <1>12, StayFacts DEF BPool, Begins, Others
  <2>2. BsdNamed(c)'
    BY <1>12 DEF BPool, Begins, BsdNamed, Same, KeepsObjects
  <2> QED BY <2>1, <2>2
<1>13. ASSUME NEW c \in Trio, NEW o \in DOMAIN obj, NEW op \in Op, BWait(c, o, op) \/ \E step \in Step : BAio(c, o, op, step)
       PROVE  \A d \in Trio : BsdNamed(d)'
  <2>1. \A d \in Trio \ {c} : BsdNamed(d)'
    BY <1>4, <1>13, StayFacts DEF BAio, BWait, Begins, Others
  <2>2. BsdNamed(c)'
    BY <1>13 DEF BWait, BAio, Begins, BsdNamed, Same
  <2> QED BY <2>1, <2>2
<1>14. ASSUME NEW c \in Trio, BReturn(c) \/ BRetry(c) \/ \E kind, mode : BWrap(c, kind, mode)
       PROVE  \A d \in Trio : BsdNamed(d)'
  <2>1. Stay
    BY <1>14, StayFacts DEF BReturn, BRetry, BWrap
  <2>2. Returns(Trio, c)
    BY <1>14 DEF BReturn, BRetry, BWrap
  <2> QED BY <1>4, <1>5, <2>1, <2>2 DEF Returns, Others
<1>15. ASSUME NEW c \in Trio, BToPool(c) PROVE \A d \in Trio : BsdNamed(d)'
  <2>1. \A d \in Trio \ {c} : BsdNamed(d)'
    BY <1>4, <1>15, StayFacts DEF BToPool, Others
  <2>2. BsdNamed(c)'
    BY <1>0, <1>15 DEF BToPool, BsdNamed, BsdShape, Same, KeepsObjects
  <2> QED BY <2>1, <2>2
<1>17. ASSUME NEW fd \in BsdFd, NEW kind, NEW mode, BNetWrap(fd) \/ BMakes(fd, kind, mode)
       PROVE  \A d \in Trio : BsdNamed(d)'
  BY <1>4, <1>17, StayFacts DEF BNetWrap, BMakes
<1>18. ASSUME NEW c \in Trio, NEW fd \in BsdFd, BConnect(c, fd) PROVE \A d \in Trio : BsdNamed(d)'
  BY <1>4, <1>18, StayFacts DEF BConnect, Begins, Others, BsdNamed
<1>19. ASSUME NEW c \in Trio, NEW fd \in BsdFd, BOpened(c, fd) PROVE \A d \in Trio : BsdNamed(d)'
  <2>1. \A d \in Trio \ {c} : BsdNamed(d)'
    BY <1>4, <1>19, StayFacts DEF BOpened, Others
  <2>2. BsdNamed(c)'
    BY <1>0, <1>19 DEF BOpened, BsdNamed, BsdShape
  <2> QED BY <2>1, <2>2
<1>22. ASSUME NEW c \in Trio, NEW o \in DOMAIN obj, BCloseUndefined(c, o) PROVE \A d \in Trio : BsdNamed(d)'
  <2>1. Ends(o)
    BY <1>22, StayFacts DEF BCloseUndefined
  <2>2. ASSUME NEW d \in Trio \ {c} PROVE BsdNamed(d)'
    <3>1. BsdShape(call[d]) /\ BsdNamed(d) /\ call'[d] = call[d] /\ ~Reader(d, o)
      BY <1>0, <1>22, <2>2 DEF BCloseUndefined, Begins, Others
    <3> QED BY <1>2, <2>1, <3>1 DEF BsdNamed, BsdShape, Ends, Reader, Same
  <2>3. BsdNamed(c)'
    BY <1>22, <2>1 DEF BCloseUndefined, Begins, BsdNamed, Ends
  <2> QED BY <2>2, <2>3
<1>23. ASSUME NEW o \in DOMAIN obj, BClose(o) PROVE \A d \in Trio : BsdNamed(d)'
  <2> SUFFICES ASSUME NEW d \in Trio PROVE BsdNamed(d)'
    OBVIOUS
  <2>1. SameRequest(d) /\ BsdShape(call[d]) /\ BCancelled(d, o) /\ BsdNamed(d) /\ Ends(o)
    BY <1>0, <1>23, StayFacts DEF BClose, BCancelled
  <2>2. call[d].op = "connect" => call[d].fd # obj[o].fd
    BY <1>0, <1>23 DEF BClose, BsdShape, BsdOwn, Owned, Holders
  <2>3. call[d].o # 0 /\ call[d].o # o /\ obj[call[d].o].live => call[d].fd # obj[o].fd
    BY <1>0, <1>23, <2>1 DEF BClose, BsdNamed, Same, Owned, Holders
  <2>4. call[d].o = o /\ call[d].step = "event" => obj[o].kind = "socket"
    BY <1>2, <1>23, <2>1 DEF BClose, BsdNamed
  <2> QED BY <1>2, <2>1, <2>2, <2>3, <2>4 DEF SameRequest, BCancelled, Reader, Ends, BsdNamed, BsdShape, Same
<1>24. ASSUME NEW o \in DOMAIN obj, BCloseFails(o) PROVE \A d \in Trio : BsdNamed(d)'
  <2>1. Ends(o) /\ UNCHANGED call /\ obj[o].kind = "file" /\ obj[o].live
    BY <1>24, StayFacts DEF BCloseFails
  <2>2. ASSUME NEW d \in Trio PROVE BsdNamed(d)'
    <3>1. BsdShape(call[d]) /\ BsdNamed(d) /\ call'[d] = call[d]
      BY <1>0, <2>1
    <3>2. call[d].o = o => call[d].step # "event"
      BY <1>2, <2>1, <3>1 DEF BsdNamed
    <3> QED BY <1>2, <2>1, <3>1, <3>2 DEF BsdNamed, BsdShape, Ends, Same
  <2> QED BY <2>2
<1> QED
  BY <1>9, <1>10, <1>11, <1>12, <1>13, <1>14, <1>15, <1>17, <1>18, <1>19, <1>22,
     <1>23, <1>24 DEF BsdStep, BsdStepOf

\* Every step keeps the order of the files of a descriptor.
LEMMA BsdNewerStep ==
    ASSUME BsdInv, BsdStep
    PROVE  \A d \in Trio : Newer(d)'
<1>0. /\ \A d \in Trio : Newer(d)
      /\ \A d \in Trio : call[d] \in CallRecord(BsdFd)
      /\ \A d \in Trio : call[d].fd \in BsdFd /\ call[d].file \in Nat
      /\ dt \in [BsdFd -> Nat] /\ files \in Nat
      /\ \A fd \in BsdFd : dt[fd] <= files
      /\ \A o \in DOMAIN obj : obj[o].live => obj[o].fd \in BsdFd /\ dt[obj[o].fd] = obj[o].file
  BY DEF BsdInv, Typed, CallRecord, Owned, Table, Holders, ObjectHolds
<1>1. NoCall.fd = 0 /\ NoCall.file = 0 /\ 0 \in BsdFd
  BY NoCallFields, BsdZero
<1> DEFINE Later == \/ UNCHANGED <<dt, files>>
                    \/ \E fd \in BsdFd : Opened(fd)
                    \/ \E fd \in BsdFd : dt' = [dt EXCEPT ![fd] = 0] /\ UNCHANGED files
<1>2. ASSUME NEW d \in Trio, Later, call'[d].fd = call[d].fd, call'[d].file = call[d].file
      PROVE  Newer(d)'
  BY <1>0, <1>2 DEF Newer, Opened
<1>3. Later
  <2>1. ASSUME NEW o \in DOMAIN obj, BClose(o) PROVE Later
    <3>1. obj[o].fd \in BsdFd
      BY <1>0, <2>1 DEF BClose
    <3> QED BY <2>1, <3>1 DEF BClose
  <2>2. ASSUME NEW c \in Trio, BRetry(c) PROVE Later
    BY <2>2 DEF BRetry
  <2>3. CASE \E c \in Trio, fd \in BsdFd : \E kind, mode :
               BNetWrap(fd) \/ BConnect(c, fd) \/ BOpened(c, fd) \/ BMakes(fd, kind, mode)
    BY <2>3 DEF BNetWrap, BConnect, BOpened, BMakes
  <2>4. \/ UNCHANGED <<dt, files>>
        \/ \E o \in DOMAIN obj : BClose(o)
        \/ \E c \in Trio : BRetry(c)
        \/ \E c \in Trio, fd \in BsdFd : \E kind, mode :
               BNetWrap(fd) \/ BConnect(c, fd) \/ BOpened(c, fd) \/ BMakes(fd, kind, mode)
    BY ZenonT(40) DEF BsdStep, BsdStepOf, BUpdate, BReady, BFopen, BNotOpened, BJob, BReturn, BUndefined,
           BToPool, BWrap, BCloseUndefined, BCloseFails, BPool, BWait, BAio, BsdKernelSame
  <2> QED BY <2>1, <2>2, <2>3, <2>4
<1>4. ASSUME NEW d \in Trio, call'[d] = NoCall PROVE Newer(d)'
  <2>1. dt' \in [BsdFd -> Nat] /\ files' \in Nat
    BY <1>0, <1>3 DEF Opened
  <2> QED BY <1>1, <1>4, <2>1 DEF Newer
<1>5. ASSUME NEW d \in Trio, UNCHANGED <<dt, files>>, NEW o \in DOMAIN obj, obj[o].live,
             call'[d].fd = obj[o].fd, call'[d].file = obj[o].file
      PROVE  Newer(d)'
  BY <1>0, <1>5 DEF Newer
<1>6. ASSUME NEW d \in Trio, NEW fd \in BsdFd, Opened(fd), call'[d].fd = fd, call'[d].file = files + 1
      PROVE  Newer(d)'
  BY <1>0, <1>6 DEF Newer, Opened
<1>9. CASE BUpdate
  BY <1>2, <1>3, <1>9 DEF BUpdate, BMoved, SameRequest
<1>10. ASSUME NEW c \in Trio, BReady(c) \/ BNotOpened(c) \/ BJob(c) \/ BUndefined(c) \/ BToPool(c)
       PROVE  \A d \in Trio : Newer(d)'
  BY <1>2, <1>3, <1>10 DEF BReady, BNotOpened, BJob, BUndefined, BToPool, Goes, Others
<1>11. ASSUME NEW c \in Trio, BFopen(c) PROVE \A d \in Trio : Newer(d)'
  <2>1. Newer(c)'
    BY <1>0, <1>1, <1>11 DEF BFopen, BsdKernelSame, Begins, Newer
  <2> QED BY <1>2, <1>3, <1>11, <2>1 DEF BFopen, Begins, Others
<1>12. ASSUME NEW c \in Trio, NEW o \in DOMAIN obj, BPool(c, o) \/ BCloseUndefined(c, o)
       PROVE \A d \in Trio : Newer(d)'
  <2>1. Newer(c)'
    BY <1>5, <1>12 DEF BPool, BCloseUndefined, Begins, BsdKernelSame
  <2> QED BY <1>2, <1>3, <1>12, <2>1 DEF BPool, BCloseUndefined, Begins, Others
<1>13. ASSUME NEW c \in Trio, NEW o \in DOMAIN obj, NEW op \in Op, BWait(c, o, op) \/ \E step \in Step : BAio(c, o, op, step)
       PROVE  \A d \in Trio : Newer(d)'
  <2>1. Newer(c)'
    BY <1>5, <1>13 DEF BWait, BAio, Begins, BsdKernelSame
  <2> QED BY <1>2, <1>3, <1>13, <2>1 DEF BWait, BAio, Begins, Others
<1>14. ASSUME NEW c \in Trio, BReturn(c) \/ BRetry(c) \/ \E kind, mode : BWrap(c, kind, mode)
       PROVE  \A d \in Trio : Newer(d)'
  BY <1>2, <1>3, <1>4, <1>14 DEF BReturn, BRetry, BWrap, Returns, Others
<1>17. CASE \/ \E fd \in BsdFd : \E kind, mode : BNetWrap(fd) \/ BMakes(fd, kind, mode)
            \/ \E o \in DOMAIN obj : BCloseFails(o)
  BY <1>2, <1>3, <1>17 DEF BNetWrap, BMakes, BCloseFails
<1>18. ASSUME NEW c \in Trio, NEW fd \in BsdFd, BConnect(c, fd) \/ BOpened(c, fd) PROVE \A d \in Trio : Newer(d)'
  <2>1. Newer(c)'
    BY <1>6, <1>18 DEF BConnect, BOpened, Begins
  <2> QED BY <1>2, <1>3, <1>18, <2>1 DEF BConnect, BOpened, Begins, Others
<1>23. ASSUME NEW o \in DOMAIN obj, BClose(o) PROVE \A d \in Trio : Newer(d)'
  BY <1>2, <1>3, <1>23 DEF BClose, BCancelled, SameRequest
<1> QED
  BY <1>9, <1>10, <1>11, <1>12, <1>13, <1>14, <1>17, <1>18, <1>23 DEF BsdStep, BsdStepOf

\* Every step keeps the rest of the invariant: a system call with an old
\* descriptor reaches another file only if its handle was closed.
LEMMA BsdRestStep ==
    ASSUME BsdInv, BsdStep
    PROVE  LiveIsAllocated' /\ strayed' \subseteq {"closed"}
<1>1. LiveIsAllocated'
  <2>1. \/ UNCHANGED obj \/ KeepsObjects
        \/ \E n, kind, fd, file, mode : Grown(n, kind, fd, file, mode)
        \/ \E o \in DOMAIN obj : Shuts(o) \/ Frees(o)
    BY ZenonT(40) DEF BsdStep, BsdStepOf, BUpdate, BReady, BRetry, BFopen, BNotOpened, BJob, BReturn, BUndefined,
           BToPool, BNetWrap, BConnect, BOpened, BMakes, BWrap, BCloseUndefined, BClose, BCloseFails,
           BPool, BWait, BAio
  <2> QED BY <2>1 DEF BsdInv, LiveIsAllocated, Grown, Frees, Shuts, KeepsObjects
<1>2. strayed' \subseteq {"closed"}
  <2>1. ASSUME NEW c \in Trio, Reaches(c), call[c].o # 0 PROVE strayed' \subseteq {"closed"}
    <3>1. BsdNamed(c) /\ Owned(Trio, BsdFd)
      BY DEF BsdInv
    <3>2. obj[call[c].o].live => dt[call[c].fd] = call[c].file
      BY <2>1, <3>1 DEF BsdNamed, Same, Owned, Holders, ObjectHolds
    <3> QED BY <2>1, <3>2 DEF Reaches, BsdInv
  <2>2. ASSUME NEW c \in Trio, BRetry(c) \/ BJob(c) PROVE Reaches(c) /\ call[c].o # 0
    BY <2>2 DEF BRetry, BJob, BsdInv, BsdShape
  <2>3. CASE UNCHANGED strayed
    BY <2>3 DEF BsdInv
  <2>4. \/ UNCHANGED strayed
        \/ \E c \in Trio : BRetry(c) \/ BJob(c)
    BY ZenonT(40) DEF BsdStep, BsdStepOf, BUpdate, BReady, BFopen, BNotOpened, BReturn, BUndefined,
           BToPool, BNetWrap, BConnect, BOpened, BMakes, BWrap, BCloseUndefined, BClose, BCloseFails,
           BPool, BWait, BAio, BsdKernelSame
  <2> QED BY <2>1, <2>2, <2>3, <2>4
<1> QED BY <1>1, <1>2

\* The invariant of the FreeBSD port is inductive.
LEMMA BsdInvStep ==
    ASSUME BsdInv, FreeBsd!Next
    PROVE  BsdInv'
<1>1. BsdPre
  BY DEF BsdInv, BsdPre, BsdShape, BsdNamed, Owned, Table
<1>2. \A c \in Trio : call[c].step \in {"aio", "probe"} => call[c].op \in {"transfer", "fflush"}
  BY DEF BsdInv, BsdShape
<1>3. BsdStep
  BY <1>1, <1>2, BsdCases
<1>4. Typed(Trio, BsdFd)'
  BY <1>3 DEF BsdStep
<1> QED
  BY <1>3, <1>4, BsdOwnedStep, BsdShapeStep, BsdNamedStep, BsdNewerStep, BsdRestStep DEF BsdInv

\* The invariant of the FreeBSD port holds at first.
LEMMA BsdInvInit ==
    ASSUME FreeBsd!Init
    PROVE  BsdInv
<1>1. obj = <<>> /\ FreeBsd!InitObjects(obj)
  BY DEF FreeBsd!Init, FreeBsd!InitObjects
<1>2. Len(obj) = 0 /\ DOMAIN obj = {} /\ DOMAIN obj = 1 .. 0 /\ obj \in Seq(ObjectRecord(Trio, BsdFd))
  BY <1>1
<1>3. /\ files = 0 /\ dt = [fd \in BsdFd |-> IF fd < 0 THEN fd + 1 ELSE 0]
      /\ call = [c \in Trio |-> NoCall] /\ strayed = {} /\ lost = {}
  BY <1>1, <1>2, BsdNames DEF FreeBsd!InitObjects, BsdFd, FreeBsd!Fd
<1>4. /\ \A c \in Trio : call[c] = NoCall
      /\ NoCall \in CallRecord(BsdFd) /\ NoCall.op = "none" /\ NoCall.step = "none" /\ NoCall.o = 0
      /\ NoCall.own = FALSE /\ NoCall.at = "none" /\ NoCall.file = 0 /\ NoCall.fd = 0
  BY <1>3, NoCallFields, BsdZero
<1>5. Typed(Trio, BsdFd)
  BY <1>2, <1>3, <1>4 DEF Typed
<1>6. Owned(Trio, BsdFd)
  <2>1. \A c \in Trio : call[c].own = FALSE
    BY <1>4
  <2>2. BsdFd \subseteq Nat /\ 0 \in BsdFd
    BY BoundAssumption DEF BsdFd
  <2>3. PICK n : n = 0
    OBVIOUS
  <2>4. /\ n \in {0, 1} /\ files = n /\ DOMAIN obj = 1 .. n
        /\ dt = [fd \in BsdFd |-> IF fd < n THEN fd + 1 ELSE 0]
    BY <1>2, <1>3, <2>3
  <2> QED BY <1>2, <1>3, <2>1, <2>2, <2>4, OwnedInit
<1>7. \A c \in Trio : BsdShape(call[c]) /\ BsdNamed(c)
  BY <1>4 DEF BsdShape, BsdNamed, BsdOwn
<1>8. \A c \in Trio : Newer(c)
  <2>1. dt[0] = 0
    BY <1>3, BsdZero
  <2> QED BY <1>3, <1>4, <2>1 DEF Newer
<1>9. LiveIsAllocated
  BY <1>2 DEF LiveIsAllocated
<1> QED BY <1>3, <1>5, <1>6, <1>7, <1>8, <1>9 DEF BsdInv

\* The invariant says what the port promises.
LEMMA BsdPromises ==
    ASSUME BsdInv
    PROVE  /\ FreeBsd!DescriptorsOwned
           /\ FreeBsd!ReachesItsFile
           /\ FreeBsd!FreedOnlyByClose
           /\ FreeBsd!WaitersAreWoken
<1>1. FreeBsd!DescriptorsOwned
  <2>1. \A fd \in FreeBsd!Fd : Cardinality(FreeBsd!Owners(fd)) = (IF dt[fd] = 0 THEN 0 ELSE 1)
    <3> SUFFICES ASSUME NEW fd \in FreeBsd!Fd
                 PROVE  Cardinality(FreeBsd!Owners(fd)) = (IF dt[fd] = 0 THEN 0 ELSE 1)
      OBVIOUS
    <3>1. FreeBsd!Owners(fd) = OwnersOf(Trio, fd)
      BY DEF FreeBsd!Owners, OwnersOf
    <3>2. fd \in BsdFd
      BY DEF FreeBsd!Fd, BsdFd
    <3> QED BY <3>1, <3>2, OneOwner DEF BsdInv
  <2>2. /\ \A o \in DOMAIN obj : obj[o].live => dt[obj[o].fd] = obj[o].file
        /\ \A c \in Trio : call[c].own => dt[call[c].fd] = call[c].file
    BY DEF BsdInv, Owned, Holders, ObjectHolds, CallHolds
  <2> QED BY <2>1, <2>2, Counts DEF FreeBsd!DescriptorsOwned
<1>2. FreeBsd!ReachesItsFile
  BY DEF BsdInv, FreeBsd!ReachesItsFile
<1>3. FreeBsd!FreedOnlyByClose /\ FreeBsd!WaitersAreWoken
  BY DEF BsdInv, BsdNamed, FreeBsd!FreedOnlyByClose, FreeBsd!WaitersAreWoken
<1> QED BY <1>1, <1>2, <1>3
=============================================================================
