---------------------------- MODULE WindowsProofs ----------------------------
(***************************************************************************)
(* The Windows port, and the theorems about the three ports.  Its actions   *)
(* are kinds of steps (WinStep) that keep each part of its inductive        *)
(* invariant (WinInv), as in PortsProofs.                                   *)
(***************************************************************************)
EXTENDS PortsProofs

\* The acceptors that the object of a pipe lists.
Entries(o) == obj[o].acceptors

\* One of them is stale: the stack frame it stood on is gone.
Stale(o) == \E i \in DOMAIN Entries(o) : Entries(o)[i].stale

\* The call of c becomes another one, or goes on; res and pkt are told apart.
Becomes(c, op, step, o, fd, file, own, at) ==
    /\ Others(Pair, c)
    /\ call'[c].op = op
    /\ call'[c].step = step
    /\ call'[c].o = o
    /\ call'[c].fd = fd
    /\ call'[c].file = file
    /\ call'[c].own = own
    /\ call'[c].at = at

\* The call of c makes its next request.
Continues(c, step, at, own) ==
    Becomes(c, call[c].op, step, call[c].o, call[c].fd, call[c].file, own, at)

\* Object o gets that descriptor, open file, mode and list of acceptors.
Edits(o, fd, file, mode, list) ==
    /\ DOMAIN obj' = DOMAIN obj
    /\ \A p \in DOMAIN obj \ {o} : obj'[p] = obj[p]
    /\ obj'[o].kind = obj[o].kind
    /\ obj'[o].live = obj[o].live
    /\ obj'[o].mem = obj[o].mem
    /\ obj'[o].fd = fd
    /\ obj'[o].file = file
    /\ obj'[o].mode = mode
    /\ obj'[o].acceptors = list

\* The same, and an object is added.
EditsGrown(o, fd, file, mode, list, n, kind, nfd, nfile, nmode) ==
    /\ n \notin DOMAIN obj
    /\ DOMAIN obj' = DOMAIN obj \cup {n}
    /\ \A p \in DOMAIN obj \ {o} : obj'[p] = obj[p]
    /\ obj'[o].kind = obj[o].kind
    /\ obj'[o].live = obj[o].live
    /\ obj'[o].mem = obj[o].mem
    /\ obj'[o].fd = fd
    /\ obj'[o].file = file
    /\ obj'[o].mode = mode
    /\ obj'[o].acceptors = list
    /\ obj'[n].kind = kind
    /\ obj'[n].fd = nfd
    /\ obj'[n].file = nfile
    /\ obj'[n].live
    /\ obj'[n].mem
    /\ obj'[n].mode = nmode
    /\ obj'[n].acceptors = <<>>

\* What writing to an object does.
LEMMA EditFacts ==
    ASSUME NEW C, NEW F, Typed(C, F), NEW o \in DOMAIN obj, NEW q \in ObjectRecord(C, F),
           q.kind = obj[o].kind, q.live = obj[o].live, q.mem = obj[o].mem,
           obj' = [obj EXCEPT ![o] = q]
    PROVE  obj' \in Seq(ObjectRecord(C, F)) /\ Edits(o, q.fd, q.file, q.mode, q.acceptors)
<1>1. /\ obj' \in Seq(ObjectRecord(C, F))
      /\ DOMAIN obj' = DOMAIN obj
      /\ \A p \in DOMAIN obj \ {o} : obj'[p] = obj[p]
      /\ obj'[o] = q
  BY PutFacts
<1> QED BY <1>1 DEF Edits

\* What Append does.
LEMMA AppendFacts ==
    ASSUME NEW S, NEW t \in Seq(S), NEW r \in S, NEW u, u = Append(t, r)
    PROVE  /\ u \in Seq(S)
           /\ Len(t) + 1 \notin DOMAIN t
           /\ DOMAIN u = DOMAIN t \cup {Len(t) + 1}
           /\ \A p \in DOMAIN t : u[p] = t[p]
           /\ u[Len(t) + 1] = r
  OBVIOUS

\* What concatenation does.
LEMMA ConcatFacts ==
    ASSUME NEW S, NEW a \in Seq(S), NEW b \in Seq(S), NEW w, w = a \o b
    PROVE  w \in Seq(S) /\ Len(w) = Len(a) + Len(b)
  OBVIOUS

\* What writing to one and adding another does.
LEMMA EditGrowFacts ==
    ASSUME NEW C, NEW F, Typed(C, F), NEW o \in DOMAIN obj, NEW q \in ObjectRecord(C, F),
           q.kind = obj[o].kind, q.live = obj[o].live, q.mem = obj[o].mem,
           NEW kind \in {"none", "file", "socket", "ws", "pipe"}, NEW fd \in F, NEW file \in Nat,
           NEW mode \in {"none", "unknown", "enabled", "disabled", "skip", "always"},
           obj' = Append([obj EXCEPT ![o] = q], TheObject(kind, fd, file, mode))
    PROVE  /\ obj' \in Seq(ObjectRecord(C, F))
           /\ EditsGrown(o, q.fd, q.file, q.mode, q.acceptors, Len(obj) + 1, kind, fd, file, mode)
<1>1. PICK r : r = TheObject(kind, fd, file, mode)
  OBVIOUS
<1>2. /\ r \in ObjectRecord(C, F)
      /\ r.kind = kind /\ r.fd = fd /\ r.file = file /\ r.live = TRUE /\ r.mem = TRUE
      /\ r.mode = mode /\ r.acceptors = <<>>
  BY <1>1 DEF TheObject, ObjectRecord
<1>3. PICK t : t = [obj EXCEPT ![o] = q]
  OBVIOUS
<1>4. obj \in Seq(ObjectRecord(C, F))
  BY DEF Typed
<1>5. /\ t \in Seq(ObjectRecord(C, F))
      /\ DOMAIN t = DOMAIN obj
      /\ Len(t) = Len(obj)
      /\ \A p \in DOMAIN obj \ {o} : t[p] = obj[p]
      /\ t[o] = q
  BY <1>3, <1>4
<1>6. obj' = Append(t, r)
  BY <1>1, <1>3
<1>7. /\ obj' \in Seq(ObjectRecord(C, F))
      /\ Len(t) + 1 \notin DOMAIN t
      /\ DOMAIN obj' = DOMAIN t \cup {Len(t) + 1}
      /\ \A p \in DOMAIN t : obj'[p] = t[p]
      /\ obj'[Len(t) + 1] = r
  <2>1. t \in Seq(ObjectRecord(C, F)) /\ r \in ObjectRecord(C, F)
    BY <1>2, <1>5
  <2>2. PICK u : u = Append(t, r)
    OBVIOUS
  <2>3. /\ u \in Seq(ObjectRecord(C, F))
        /\ Len(t) + 1 \notin DOMAIN t
        /\ DOMAIN u = DOMAIN t \cup {Len(t) + 1}
        /\ \A p \in DOMAIN t : u[p] = t[p]
        /\ u[Len(t) + 1] = r
    BY <2>1, <2>2, AppendFacts
  <2> QED BY <1>6, <2>2, <2>3
<1>8. Len(obj) + 1 \notin DOMAIN obj /\ o # Len(obj) + 1
  BY <1>5, <1>7
<1> QED BY <1>2, <1>5, <1>7, <1>8 DEF EditsGrown

\* An entry is taken out of a list.
Without(q, i) == SubSeq(q, 1, i - 1) \o SubSeq(q, i + 1, Len(q))

\* What is left of a list without entry i: the other entries, each once.
LEMMA WithoutFacts ==
    ASSUME NEW S, NEW q \in Seq(S), NEW i \in DOMAIN q, NEW w, w = Without(q, i)
    PROVE  /\ w \in Seq(S)
           /\ \A j \in DOMAIN w : \E k \in DOMAIN q : k # i /\ w[j] = q[k]
           /\ \A k \in DOMAIN q \ {i} : \E j \in DOMAIN w : w[j] = q[k]
           /\ \A j, k \in DOMAIN w : \E a, b \in DOMAIN q :
                 a # i /\ b # i /\ w[j] = q[a] /\ w[k] = q[b] /\ (a = b => j = k)
<1>1. PICK n : n = Len(q)
  OBVIOUS
<1>2. n \in Nat /\ DOMAIN q = 1 .. n /\ i \in 1 .. n
  BY <1>1
<1>3. PICK a, b : a = SubSeq(q, 1, i - 1) /\ b = SubSeq(q, i + 1, n)
  OBVIOUS
<1>4. a \in Seq(S) /\ Len(a) = i - 1 /\ \A j \in 1 .. i - 1 : a[j] = q[j]
  BY <1>1, <1>2, <1>3
<1>5. b \in Seq(S) /\ Len(b) = n - i /\ \A j \in 1 .. n - i : b[j] = q[i + j]
  BY <1>1, <1>2, <1>3
<1>6. w = a \o b
  BY <1>1, <1>3 DEF Without
<1>7. /\ w \in Seq(S) /\ Len(w) = n - 1 /\ DOMAIN w = 1 .. n - 1
      /\ \A j \in 1 .. i - 1 : w[j] = q[j]
      /\ \A j \in i .. n - 1 : w[j] = q[j + 1]
  <2>1. w \in Seq(S) /\ Len(w) = (i - 1) + (n - i)
    <3>1. w \in Seq(S) /\ Len(w) = Len(a) + Len(b)
      <4>1. a \in Seq(S) /\ b \in Seq(S)
        BY <1>4, <1>5
      <4> QED BY <1>6, <4>1, ConcatFacts
    <3> QED BY <1>4, <1>5, <3>1
  <2>2. Len(w) = n - 1 /\ DOMAIN w = 1 .. n - 1
    BY <1>2, <2>1
  <2>3. \A j \in 1 .. n - 1 : w[j] = IF j <= i - 1 THEN a[j] ELSE b[j - (i - 1)]
    BY <1>2, <1>4, <1>5, <1>6
  <2>4. \A j \in 1 .. i - 1 : w[j] = q[j]
    BY <1>2, <1>4, <2>3
  <2>5. ASSUME NEW j \in i .. n - 1 PROVE w[j] = q[j + 1]
    <3>1. w[j] = b[j - (i - 1)] /\ j - (i - 1) \in 1 .. n - i /\ i + (j - (i - 1)) = j + 1
      BY <1>2, <2>3
    <3>2. b[j - (i - 1)] = q[i + (j - (i - 1))]
      BY <1>5, <3>1
    <3> QED BY <3>1, <3>2
  <2> QED BY <2>1, <2>2, <2>4, <2>5
<1>8. \A j \in DOMAIN w : \E k \in DOMAIN q : k # i /\ w[j] = q[k] /\ k = (IF j < i THEN j ELSE j + 1)
  <2> SUFFICES ASSUME NEW j \in DOMAIN w
               PROVE  \E k \in DOMAIN q : k # i /\ w[j] = q[k] /\ k = (IF j < i THEN j ELSE j + 1)
    OBVIOUS
  <2>1. CASE j < i
    BY <1>2, <1>7, <2>1
  <2>2. CASE ~(j < i)
    <3>1. j + 1 \in DOMAIN q /\ j + 1 # i /\ j \in i .. n - 1
      BY <1>2, <1>7, <2>2
    <3> QED BY <1>7, <2>2, <3>1
  <2> QED BY <2>1, <2>2
<1>9. \A k \in DOMAIN q \ {i} : \E j \in DOMAIN w : w[j] = q[k]
  <2> SUFFICES ASSUME NEW k \in DOMAIN q \ {i} PROVE \E j \in DOMAIN w : w[j] = q[k]
    OBVIOUS
  <2>1. CASE k < i
    BY <1>2, <1>7, <2>1
  <2>2. CASE k > i
    <3>1. k - 1 \in i .. n - 1 /\ k - 1 \in DOMAIN w /\ (k - 1) + 1 = k
      BY <1>2, <1>7, <2>2
    <3> QED BY <1>7, <3>1
  <2> QED BY <1>2, <2>1, <2>2
<1>10. ASSUME NEW j \in DOMAIN w, NEW k \in DOMAIN w
       PROVE  \E x, y \in DOMAIN q : x # i /\ y # i /\ w[j] = q[x] /\ w[k] = q[y] /\ (x = y => j = k)
  <2>1. PICK x \in DOMAIN q : x # i /\ w[j] = q[x] /\ x = (IF j < i THEN j ELSE j + 1)
    BY <1>8
  <2>2. PICK y \in DOMAIN q : y # i /\ w[k] = q[y] /\ y = (IF k < i THEN k ELSE k + 1)
    BY <1>8
  <2>3. x = y => j = k
    BY <1>2, <1>7, <2>1, <2>2
  <2> QED BY <2>1, <2>2, <2>3
<1> QED BY <1>7, <1>8, <1>9, <1>10

\* The records of the Windows port are the ones of the others.
LEMMA WinNames ==
    /\ Windows!Idle = NoCall
    /\ Windows!Freed = FreedObject
    /\ \A op, step, o, at : Windows!Call(op, step, o, at) = TheCall(op, step, o, at)
    /\ \A kind, fd, file, mode : Windows!Object(kind, fd, file, mode) = TheObject(kind, fd, file, mode)
    /\ \A q, i : Windows!Without(q, i) = Without(q, i)
  BY Zenon DEF Windows!Idle, NoCall, Windows!Freed, FreedObject, Windows!Call, TheCall, Windows!Object, TheObject,
               Windows!Without, Without

-----------------------------------------------------------------------------
\* A connection owns its socket, a job of bio_fopen what it opened, one of
\* bio_fclose what it closes, and an accept its client.
WinOwn(r) ==
    \/ r.op = "connect"
    \/ r.op = "fopen" /\ r.at = "ready" /\ r.res = "ok"
    \/ r.op = "fclose" /\ r.at = "pool"
    \/ r.step = "accept" /\ r.at = "wait"

\* Which steps an operation has, and where it may stand in them.
WinShape(r) ==
    /\ r.step # "pipe" => (r.own <=> WinOwn(r))
    /\ r.step = "pipe" => r.op = "accept" /\ (r.own => r.at = "wait")
    /\ r.step = "accept" => r.op = "accept"
    /\ r.step \in {"use", "unlinked"} => r.op = "use"
    /\ r.step = "transfer" => r.op = "transfer"
    /\ r.at \in {"pool", "ready"} => r.step = "job"
    /\ r.step = "job" => r.op \in {"fopen", "fclose", "transfer", "flush"}
    /\ r.op = "connect" => r.step \in {"ioctl", "connect"} /\ r.at = "wait"
    /\ r.op \in {"transfer", "use", "flush", "fclose", "accept", "net_close"} <=> r.o # 0
    /\ r.at = "pool" => r.pkt = "none" /\ r.res = "none"
    /\ r.at = "ready" /\ r.res = "none" => r.pkt = "none"
    /\ r.op = "transfer" => r.res \in {"none", "ok", "pending"}

\* What a call knows of its object.
WinNamed(c) ==
    /\ call[c].o # 0 => call[c].o \in DOMAIN obj
    /\ call[c].step = "job" /\ call[c].o # 0 => obj[call[c].o].kind \in {"file", "none"}
    /\ call[c].step = "job" /\ call[c].op \in {"transfer", "flush"} /\ obj[call[c].o].live => Same(c)
    /\ call[c].op = "fclose" => ~obj[call[c].o].live
    /\ call[c].op = "accept" /\ call[c].step = "ioctl" =>
          obj[call[c].o].kind \in {"ws", "none"} /\ obj[call[c].o].mode # "unknown"

\* The handles of these calls were put in the mode that skips packets, if the system
\* has it.
WinSkips(c) ==
    \/ call[c].step = "job" /\ call[c].op = "transfer"
    \/ call[c].op = "connect"
    \/ call[c].step = "pipe" /\ call[c].own
    => (0 \in skip => call[c].file \in skip)

\* A transfer does not mean the file of an fopen that has not come back yet.
WinLinked ==
    \A c, d \in Pair : call[c].step = "job" /\ call[c].op = "transfer"
                       /\ call[d].op = "fopen" /\ call[d].own => call[c].file # call[d].file

\* No call has a file that was never made.
Filed == \A c \in Pair : call[c].file <= files

\* Packets are as the modes say, but for transfers that went astray and calls on a
\* pipe that was not linked to the completion port.
WinPackets(c) ==
    /\ call[c].at = "ready" /\ call[c].op = "transfer" /\ call[c].res = "ok" =>
          Windows!Astray(c) \/ (0 \in skip <=> call[c].pkt = "none")
    /\ call[c].at = "ready" /\ call[c].op = "transfer" /\ call[c].res = "pending" =>
          Windows!Astray(c) \/ call[c].pkt # "none"
    /\ call[c].at = "wait" => Windows!Astray(c) \/ call[c].step = "unlinked" \/ call[c].pkt # "none"
    /\ call[c].at = "overwritten" => Windows!Astray(c)

\* Only a closed object and a stale acceptor make a call undefined.
WinUndefined(c) ==
    call[c].at = "undefined" =>
        \/ call[c].op \in {"transfer", "use", "accept"} /\ ~obj[call[c].o].live
        \/ call[c].op \in {"accept", "net_close"} /\ Stale(call[c].o)

\* What the library believes of an object is what the kernel was told.
WinMode(o) ==
    /\ obj[o].mode = "skip" => 0 \in skip /\ obj[o].file \in skip
    /\ obj[o].mode = "always" => 0 \notin skip
    /\ obj[o].live => obj[o].mem
    /\ obj[o].mem => obj[o].kind # "none"
    /\ obj[o].kind # "none" => obj[o].mode \in {"unknown", "skip", "always"}
    /\ obj[o].kind = "file" => obj[o].mode # "unknown"
    /\ obj[o].kind # "pipe" => Entries(o) = <<>>

\* The entries of the list of o that are not stale are those of the calls that wait
\* to accept, each once.
WinEntries(o) ==
    /\ \A i \in DOMAIN Entries(o) : ~Entries(o)[i].stale =>
          /\ call[Entries(o)[i].c].o = o
          /\ call[Entries(o)[i].c].step = "pipe"
          /\ call[Entries(o)[i].c].own \/ (Stale(o) /\ call[Entries(o)[i].c].at = "undefined")
    /\ \A i, j \in DOMAIN Entries(o) :
          ~Entries(o)[i].stale /\ ~Entries(o)[j].stale /\ Entries(o)[i].c = Entries(o)[j].c => i = j

\* A call that waits to accept is in the list of its pipe.
WinListed(c) ==
    call[c].step = "pipe" /\ call[c].own =>
        \E i \in DOMAIN Entries(call[c].o) : Entries(call[c].o)[i] = [c |-> c, stale |-> FALSE]

\* The inductive invariant of the port: ownership; that what the library believes
\* of the packets of a handle is what the kernel was told; and that the list of a
\* pipe has the calls that wait for its clients.
WinInv ==
    /\ Typed(Pair, LinuxFd)
    /\ Owned(Pair, LinuxFd)
    /\ \A c \in Pair : WinShape(call[c])
    /\ \A c \in Pair : WinNamed(c) /\ WinSkips(c) /\ WinPackets(c) /\ WinUndefined(c) /\ WinListed(c)
    /\ WinLinked
    /\ Filed
    /\ \A o \in DOMAIN obj : WinMode(o) /\ WinEntries(o)
    /\ strayed \subseteq {"closed"}
    /\ 0 \notin skip => skip = {}

-----------------------------------------------------------------------------
\* The steps of the port, told by what they do.
WKernel == UNCHANGED <<dt, files, strayed, lost, skip>>

\* The mode of o is what it was, or initialised.
TunesTo(o, mode) ==
    /\ mode # "unknown"
    /\ \/ obj[o].live /\ mode = Windows!Mode(o) /\ skip' = Windows!Skips(o)
       \/ mode = obj[o].mode /\ skip' = skip

\* The mode of o is told, and written to the object.
Tunes(o, mode) == TunesTo(o, mode) /\ Edits(o, obj[o].fd, obj[o].file, mode, Entries(o))

\* The system call of a job reaches what its descriptor stands for.
WReaches(c) ==
    strayed' = IF dt[call[c].fd] \in {0, call[c].file} THEN strayed
               ELSE strayed \cup {IF call[c].o = 0 \/ obj[call[c].o].live THEN "open" ELSE "closed"}

\* bio_platform_process_events takes the packet of a call.
WPacket(c) ==
    /\ call[c].pkt = "due"
    /\ Continues(c, call[c].step, call[c].at, call[c].own)
    /\ call'[c].res = call[c].res
    /\ call'[c].pkt = "taken"
    /\ WKernel /\ UNCHANGED obj

\* bio_fopen sends a job to the pool.
WFopen(c) ==
    /\ call[c] = NoCall
    /\ Becomes(c, "fopen", "job", 0, 0, 0, FALSE, "pool")
    /\ call'[c].res = "none" /\ call'[c].pkt = "none"
    /\ WKernel /\ UNCHANGED obj

\* A read, write or flush of a file sends a job to the pool.
WPool(c, op, o) ==
    /\ call[c] = NoCall
    /\ op \in {"transfer", "flush"}
    /\ obj[o].live /\ obj[o].kind = "file"
    /\ Becomes(c, op, "job", o, obj[o].fd, obj[o].file, FALSE, "pool")
    /\ call'[c].res = "none" /\ call'[c].pkt = "none"
    /\ WKernel /\ UNCHANGED obj

\* bio_fclose closes the handle and sends a job, which owns the descriptor.
WFclose(c, o) ==
    /\ call[c] = NoCall
    /\ obj[o].live /\ obj[o].kind = "file"
    /\ Becomes(c, "fclose", "job", o, obj[o].fd, obj[o].file, TRUE, "pool")
    /\ call'[c].res = "none" /\ call'[c].pkt = "none"
    /\ Shuts(o)
    /\ WKernel

\* The job of bio_fopen has opened the file.
WOpened(c, fd) ==
    /\ call[c].at = "pool" /\ call[c].op = "fopen"
    /\ Opened(fd)
    /\ Becomes(c, "fopen", call[c].step, call[c].o, fd, files + 1, TRUE, "ready")
    /\ call'[c].res = "ok" /\ call'[c].pkt = call[c].pkt
    /\ UNCHANGED <<strayed, lost, skip, obj>>

\* The job of bio_fopen has failed.
WNotOpened(c) ==
    /\ call[c].at = "pool" /\ call[c].op = "fopen"
    /\ Continues(c, call[c].step, "ready", call[c].own)
    /\ call'[c].res = call[c].res /\ call'[c].pkt = call[c].pkt
    /\ WKernel /\ UNCHANGED obj

\* A job uses the descriptor read before it was sent, and starts nothing.
WJob(c) ==
    /\ call[c].at = "pool" /\ call[c].op \in {"flush", "transfer"}
    /\ WReaches(c)
    /\ Continues(c, call[c].step, "ready", call[c].own)
    /\ call'[c].res = call[c].res /\ call'[c].pkt = call[c].pkt
    /\ UNCHANGED <<dt, files, lost, skip, obj>>

\* A job starts a read or write: if it reaches the file it was sent for, and that
\* is linked to the completion port, the packet is as the mode of the handle
\* says.
WStarted(c) ==
    /\ call[c].at = "pool" /\ call[c].op = "transfer"
    /\ dt[call[c].fd] # 0
    /\ WReaches(c)
    /\ Continues(c, call[c].step, "ready", call[c].own)
    /\ call'[c].res \in {"ok", "pending"}
    /\ dt[call[c].fd] = call[c].file /\ ~Windows!Unlinked(call[c].file) =>
          /\ call'[c].res = "ok" => (call'[c].pkt = "none" <=> call[c].file \in skip)
          /\ call'[c].res = "pending" => call'[c].pkt # "none"
    /\ UNCHANGED <<dt, files, lost, skip, obj>>

\* The job of bio_fclose closes the descriptor.
WClosed(c) ==
    /\ call[c].at = "pool" /\ call[c].op = "fclose"
    /\ dt' = [dt EXCEPT ![call[c].fd] = 0]
    /\ Continues(c, call[c].step, "ready", FALSE)
    /\ call'[c].res = call[c].res /\ call'[c].pkt = call[c].pkt
    /\ UNCHANGED <<files, strayed, lost, skip, obj>>

\* bio_fdopen: a handle of the program becomes a file.
WFdopen(fd) ==
    /\ Opened(fd)
    /\ Grown(Len(obj) + 1, "file", fd, files + 1, Windows!InitMode)
    /\ skip' = Windows!Skip(files + 1)
    /\ UNCHANGED <<call, strayed, lost>>

\* bio_fopen makes a file of what its job has opened.
WWrapFile(c) ==
    /\ call[c].at = "ready" /\ call[c].op = "fopen" /\ call[c].res = "ok"
    /\ Grown(Len(obj) + 1, "file", call[c].fd, call[c].file, Windows!InitMode)
    /\ skip' = Windows!Skip(call[c].file)
    /\ Returns(Pair, c)
    /\ UNCHANGED <<dt, files, strayed, lost>>

\* bio_fclose frees the file.
WFreed(c) ==
    /\ call[c].at = "ready" /\ call[c].op = "fclose"
    /\ Frees(call[c].o)
    /\ Returns(Pair, c)
    /\ WKernel

\* A call that owns nothing returns.
WReturn(c) ==
    /\ ~call[c].own
    /\ call[c].at \in {"ready", "wait"}
    /\ Returns(Pair, c)
    /\ WKernel /\ UNCHANGED obj

\* A read or write that went astray returns while its packet is still to come,
\* and the packet will be written over its frame.
WOverwrite(c) ==
    /\ call[c].at = "ready" /\ call[c].op = "transfer"
    /\ Windows!Astray(c)
    /\ Continues(c, call[c].step, "overwritten", call[c].own)
    /\ call'[c].res = call[c].res
    /\ WKernel /\ UNCHANGED obj

\* A read or write waits for its packet.
WWait(c) ==
    /\ call[c].at = "ready" /\ call[c].op = "transfer"
    /\ Windows!Astray(c) \/ call[c].pkt # "none"
    /\ Continues(c, "transfer", "wait", call[c].own)
    /\ call'[c].res = call[c].res /\ call'[c].pkt = call[c].pkt
    /\ WKernel /\ UNCHANGED obj

\* A call is resumed on an object that was closed, or meets a stale acceptor.
WUndefined(c) ==
    /\ call[c].at \in {"ready", "wait"}
    /\ \/ call[c].op \in {"transfer", "use", "accept"} /\ ~obj[call[c].o].live /\ call[c].step # "pipe"
       \/ call[c].step = "pipe" /\ Stale(call[c].o)
    /\ Continues(c, call[c].step, "undefined", FALSE)
    /\ call'[c].res = call[c].res
    /\ lost' = IF call[c].own THEN lost \cup {call[c].file} ELSE lost
    /\ UNCHANGED <<dt, files, strayed, skip, obj>>

\* A call on a socket or pipe begins and waits for its packet, which does not come if
\* the pipe is not linked to the completion port.
WUse(c, o, mode) ==
    /\ call[c] = NoCall
    /\ obj[o].live
    /\ \E step \in {"use", "unlinked"} :
          Becomes(c, "use", step, o, obj[o].fd, obj[o].file, FALSE, "wait")
    /\ call'[c].step = "unlinked" \/ call'[c].pkt # "none"
    /\ Tunes(o, mode)
    /\ UNCHANGED <<dt, files, strayed, lost>>

\* A call on a socket or pipe ends at once, and may have told the kernel the mode
\* of the handle.
WTuned(c, o, mode) ==
    /\ ~call[c].own
    /\ call[c].at \in {"none", "wait"} /\ call[c].step # "pipe"
    /\ Returns(Pair, c)
    /\ Tunes(o, mode)
    /\ UNCHANGED <<dt, files, strayed, lost>>

\* The first accept of a listener asks for AcceptEx.
WAsk(c, o, mode) ==
    /\ call[c] = NoCall
    /\ obj[o].live /\ obj[o].kind = "ws"
    /\ Becomes(c, "accept", "ioctl", o, obj[o].fd, obj[o].file, FALSE, "wait")
    /\ call'[c].pkt # "none"
    /\ Tunes(o, mode)
    /\ UNCHANGED <<dt, files, strayed, lost>>

\* AcceptEx waits, with a socket for the client that the call owns.
WAccept(c, o, fd, mode) ==
    /\ ~call[c].own
    /\ call[c].at \in {"none", "wait"} /\ call[c].step # "pipe"
    /\ Opened(fd)
    /\ Becomes(c, "accept", "accept", o, fd, files + 1, TRUE, "wait")
    /\ call'[c].pkt # "none"
    /\ Tunes(o, mode)
    /\ UNCHANGED <<strayed, lost>>

\* AcceptEx has a client at once.
WAccepted(c, o, fd, mode) ==
    /\ ~call[c].own
    /\ call[c].at \in {"none", "wait"} /\ call[c].step # "pipe"
    /\ Opened(fd)
    /\ Returns(Pair, c)
    /\ TunesTo(o, mode)
    /\ EditsGrown(o, obj[o].fd, obj[o].file, mode, Entries(o), Len(obj) + 1, "ws", fd, files + 1, "unknown")
    /\ UNCHANGED <<strayed, lost>>

\* A new socket or pipe becomes an object at once.
WMake(fd, kind) ==
    /\ kind \in {"ws", "pipe"}
    /\ Opened(fd)
    /\ Grown(Len(obj) + 1, kind, fd, files + 1, "unknown")
    /\ UNCHANGED <<call, strayed, skip, lost>>

\* The mode of the handle of a call.
ModeOf(file) == IF file \in skip THEN "skip" ELSE "always"

\* A call hands its handle to a new socket.
WHand(c, mode) ==
    /\ call[c].own /\ call[c].step # "pipe" /\ call[c].at = "wait"
    /\ mode = "unknown" \/ (call[c].op = "connect" /\ mode = ModeOf(call[c].file))
    /\ Grown(Len(obj) + 1, "ws", call[c].fd, call[c].file, mode)
    /\ Returns(Pair, c)
    /\ WKernel

\* A call closes its handle.
WDrop(c) ==
    /\ call[c].own /\ call[c].step # "pipe"
    /\ dt' = [dt EXCEPT ![call[c].fd] = 0]
    /\ Returns(Pair, c)
    /\ UNCHANGED <<files, strayed, lost, skip, obj>>

\* A connection asks for ConnectEx, and owns its socket.
WConnect(c, fd) ==
    /\ call[c] = NoCall
    /\ Opened(fd)
    /\ skip' = Windows!Skip(files + 1)
    /\ Becomes(c, "connect", "ioctl", 0, fd, files + 1, TRUE, "wait")
    /\ call'[c].pkt # "none"
    /\ UNCHANGED <<obj, strayed, lost>>

\* ConnectEx waits.
WConnecting(c) ==
    /\ call[c].op = "connect"
    /\ Continues(c, "connect", "wait", call[c].own)
    /\ call'[c].pkt # "none"
    /\ WKernel /\ UNCHANGED obj

\* A new instance of a pipe takes the place of the old one.
Renews(o, fd) ==
    /\ obj[o].live /\ obj[o].kind = "pipe"
    /\ dt[fd] = 0
    /\ files' = files + 1
    /\ skip' = Windows!Skips(o)
    /\ UNCHANGED strayed

\* No client comes to the old instance, which is closed; the entry of the
\* acceptor may stay behind.
WPipeFails(c, o, fd) ==
    /\ Renews(o, fd)
    /\ dt' = [dt EXCEPT ![fd] = files + 1, ![obj[o].fd] = 0]
    /\ \E list \in {Entries(o), Append(Entries(o), [c |-> c, stale |-> TRUE])} :
          Edits(o, fd, files + 1, "unknown", list)
    /\ UNCHANGED <<call, lost>>

\* An accept meets a stale acceptor in the list.
WPipeUndefined(c, o, fd) ==
    /\ call[c] = NoCall
    /\ Stale(o)
    /\ Renews(o, fd)
    /\ dt' = [dt EXCEPT ![fd] = files + 1]
    /\ Edits(o, fd, files + 1, "unknown", Entries(o))
    /\ Becomes(c, "accept", "pipe", o, obj[o].fd, obj[o].file, FALSE, "undefined")
    /\ lost' = lost \cup {obj[o].file}

\* An accept waits for a client of the old instance, and puts itself in the list.
WPipeWait(c, o, fd) ==
    /\ call[c] = NoCall
    /\ Renews(o, fd)
    /\ dt' = [dt EXCEPT ![fd] = files + 1]
    /\ Edits(o, fd, files + 1, "unknown", Append(Entries(o), [c |-> c, stale |-> FALSE]))
    /\ Becomes(c, "accept", "pipe", o, obj[o].fd, obj[o].file, TRUE, "wait")
    /\ call'[c].pkt # "none"
    /\ UNCHANGED lost

\* An accept has its client at once.
WPipeNow(o, fd) ==
    /\ Renews(o, fd)
    /\ dt' = [dt EXCEPT ![fd] = files + 1]
    /\ EditsGrown(o, fd, files + 1, "unknown", Entries(o), Len(obj) + 1, "pipe", obj[o].fd, obj[o].file,
                  Windows!Mode(o))
    /\ UNCHANGED <<call, lost>>

\* The call of c has entry i of the list of its pipe.
HasEntry(c, i) ==
    /\ call[c].own /\ call[c].step = "pipe"
    /\ i \in DOMAIN Entries(call[c].o)
    /\ Entries(call[c].o)[i] = [c |-> c, stale |-> FALSE]

\* The wait of an accept fails: the instance is closed and the entry stays in the
\* list.
WPipeStale(c, i) ==
    /\ HasEntry(c, i)
    /\ Edits(call[c].o, obj[call[c].o].fd, obj[call[c].o].file, obj[call[c].o].mode,
             [Entries(call[c].o) EXCEPT ![i] = [c |-> c, stale |-> TRUE]])
    /\ dt' = [dt EXCEPT ![call[c].fd] = 0]
    /\ Returns(Pair, c)
    /\ UNCHANGED <<files, strayed, lost, skip>>

\* An accept has its client, and its entry is taken out of the list.
WPipeHand(c, i) ==
    /\ HasEntry(c, i)
    /\ EditsGrown(call[c].o, obj[call[c].o].fd, obj[call[c].o].file, obj[call[c].o].mode,
                  Without(Entries(call[c].o), i), Len(obj) + 1, "pipe", call[c].fd, call[c].file,
                  ModeOf(call[c].file))
    /\ Returns(Pair, c)
    /\ WKernel

\* A socket is closed.
WSocketClosed(o) ==
    /\ obj[o].live /\ obj[o].kind = "ws"
    /\ Frees(o)
    /\ dt' = [dt EXCEPT ![obj[o].fd] = 0]
    /\ UNCHANGED <<files, strayed, skip, call, lost>>

\* Closing a pipe meets a stale acceptor.
WPipeCloseUndefined(c, o) ==
    /\ call[c] = NoCall
    /\ obj[o].live /\ Stale(o)
    /\ Shuts(o)
    /\ Becomes(c, "net_close", "none", o, obj[o].fd, obj[o].file, FALSE, "undefined")
    /\ lost' = lost \cup {obj[o].file}
    /\ UNCHANGED <<dt, files, strayed, skip>>

\* The coroutines in the list of o.
Cancelled(o) == {Entries(o)[i].c : i \in DOMAIN Entries(o)}

\* The call of d stays what it is, but for what it owns.
SameBut(d) ==
    /\ call'[d].op = call[d].op
    /\ call'[d].step = call[d].step
    /\ call'[d].o = call[d].o
    /\ call'[d].fd = call[d].fd
    /\ call'[d].file = call[d].file
    /\ call'[d].at = call[d].at
    /\ call'[d].res = call[d].res
    /\ call'[d].pkt = call[d].pkt

\* A pipe is closed, with the instances of the calls in its list.
WPipeClosed(o) ==
    /\ obj[o].live /\ obj[o].kind = "pipe" /\ ~Stale(o)
    /\ dt' = [fd \in LinuxFd |-> IF fd = obj[o].fd \/ \E d \in Cancelled(o) : call[d].fd = fd
                                 THEN 0 ELSE dt[fd]]
    /\ Frees(o)
    /\ \A d \in Pair \ Cancelled(o) : call'[d] = call[d]
    /\ \A d \in Cancelled(o) :
          /\ SameBut(d)
          /\ call'[d].own = FALSE
    /\ UNCHANGED <<files, strayed, skip, lost>>

\* The steps of a coroutine.
WinStepOf(c) ==
    \/ WPacket(c) \/ WFopen(c) \/ WNotOpened(c) \/ WJob(c) \/ WStarted(c) \/ WClosed(c)
    \/ WWrapFile(c) \/ WFreed(c) \/ WReturn(c) \/ WOverwrite(c) \/ WWait(c) \/ WUndefined(c)
    \/ WDrop(c) \/ WConnecting(c) \/ (\E mode : WHand(c, mode)) \/ (\E i : WPipeStale(c, i) \/ WPipeHand(c, i))
    \/ \E fd \in LinuxFd : WOpened(c, fd) \/ WFdopen(fd) \/ WConnect(c, fd) \/ \E kind : WMake(fd, kind)
    \/ \E o \in DOMAIN obj :
          \/ WFclose(c, o) \/ (\E op : WPool(c, op, o))
          \/ WSocketClosed(o) \/ WPipeCloseUndefined(c, o) \/ WPipeClosed(o)
          \/ \E mode : WUse(c, o, mode) \/ WTuned(c, o, mode) \/ WAsk(c, o, mode)
          \/ \E fd \in LinuxFd : \/ WPipeFails(c, o, fd) \/ WPipeUndefined(c, o, fd) \/ WPipeWait(c, o, fd)
                                 \/ WPipeNow(o, fd)
                                 \/ \E mode : WAccept(c, o, fd, mode) \/ WAccepted(c, o, fd, mode)

\* A step of some coroutine, well typed.
WinStep == Typed(Pair, LinuxFd)' /\ \E c \in Pair : WinStepOf(c)

-----------------------------------------------------------------------------
\* Some entry of a list is stale.
StaleIn(list) == \E i \in DOMAIN list : list[i].stale

\* What never happens to an object, whatever the step.
EvolvesAt(p) ==
    /\ obj'[p].live => obj[p].live
    /\ obj'[p].kind = obj[p].kind \/ obj'[p].kind = "none"
    /\ obj[p].kind = "file" /\ obj'[p].live => obj'[p].fd = obj[p].fd /\ obj'[p].file = obj[p].file
    /\ obj[p].kind \in {"ws", "none"} /\ obj[p].mode # "unknown" => obj'[p].mode # "unknown"
    /\ Stale(p) => StaleIn(obj'[p].acceptors)

\* All objects evolve that way.
Evolves == DOMAIN obj \subseteq DOMAIN obj' /\ \A p \in DOMAIN obj : EvolvesAt(p)

\* Objects that do not change evolve that way.
LEMMA SameEvolves == UNCHANGED obj => Evolves
  BY DEF Evolves, EvolvesAt, Stale, StaleIn, Entries

\* So do they when one is added.
LEMMA GrownEvolves ==
    ASSUME NEW n, NEW kind, NEW fd, NEW file, NEW mode, Grown(n, kind, fd, file, mode)
    PROVE  Evolves
  BY DEF Grown, Evolves, EvolvesAt, Stale, StaleIn, Entries

\* So do they when one is freed that has no stale acceptor.
LEMMA FreesEvolves ==
    ASSUME NEW o \in DOMAIN obj, Frees(o), ~Stale(o)
    PROVE  Evolves
  BY DEF Frees, Evolves, EvolvesAt, Stale, StaleIn, Entries

\* So do they when a handle is closed.
LEMMA ShutsEvolves ==
    ASSUME NEW o \in DOMAIN obj, Shuts(o)
    PROVE  Evolves
  BY DEF Shuts, Evolves, EvolvesAt, Stale, StaleIn, Entries

\* So do they when one is written to, if it keeps what the port never changes.
LEMMA EditsEvolves ==
    ASSUME NEW o \in DOMAIN obj, NEW fd, NEW file, NEW mode, NEW list,
           \/ Edits(o, fd, file, mode, list)
           \/ \E n, kind, nfd, nfile, nmode : EditsGrown(o, fd, file, mode, list, n, kind, nfd, nfile, nmode),
           obj[o].kind = "file" => fd = obj[o].fd /\ file = obj[o].file,
           obj[o].kind \in {"ws", "none"} => mode # "unknown",
           Stale(o) => StaleIn(list)
    PROVE  Evolves
<1>1. \A p \in DOMAIN obj \ {o} : EvolvesAt(p)
  BY DEF Edits, EditsGrown, EvolvesAt, Stale, StaleIn, Entries
<1>2. EvolvesAt(o)
  BY DEF Edits, EditsGrown, EvolvesAt, Stale, StaleIn, Entries
<1> QED BY <1>1, <1>2 DEF Evolves, Edits, EditsGrown

\* In every step of the Windows port objects evolve that way.
LEMMA WinEvolves ==
    ASSUME WinInv, NEW c \in Pair, WinStepOf(c)
    PROVE  Evolves
<1>1. \A o \in DOMAIN obj : obj[o].kind # "pipe" => ~Stale(o)
  BY DEF WinInv, WinMode, Stale
<1>2. Typed(Pair, LinuxFd) /\ \A o \in DOMAIN obj : Entries(o) \in Seq([c : Pair, stale : BOOLEAN])
  <2>1. Typed(Pair, LinuxFd)
    BY DEF WinInv
  <2>2. \A o \in DOMAIN obj : obj[o] \in ObjectRecord(Pair, LinuxFd)
    BY <2>1, ObjectAt
  <2> QED BY <2>1, <2>2 DEF ObjectRecord, Entries
<1>3. \A d \in Pair : call[d].o # 0 => call[d].o \in DOMAIN obj
  BY DEF WinInv, WinNamed
<1>4. \A o \in DOMAIN obj : Stale(o) => StaleIn(Entries(o))
  BY DEF Stale, StaleIn
<1>10. CASE \/ WPacket(c) \/ WFopen(c) \/ WNotOpened(c) \/ WJob(c) \/ WStarted(c) \/ WClosed(c)
            \/ WReturn(c) \/ WOverwrite(c) \/ WWait(c) \/ WUndefined(c) \/ WDrop(c) \/ WConnecting(c)
            \/ (\E fd \in LinuxFd : WOpened(c, fd) \/ WConnect(c, fd))
            \/ (\E o \in DOMAIN obj : \E op : WPool(c, op, o))
  <2>1. UNCHANGED obj
    BY <1>10 DEF WPacket, WFopen, WNotOpened, WJob, WStarted, WClosed, WReturn, WOverwrite, WWait, WUndefined,
                 WDrop, WConnecting, WOpened, WConnect, WPool
  <2> QED BY <2>1, SameEvolves
<1>11. CASE WWrapFile(c) \/ (\E mode : WHand(c, mode)) \/ \E fd \in LinuxFd : WFdopen(fd) \/ \E kind : WMake(fd, kind)
  BY <1>11, GrownEvolves DEF WWrapFile, WHand, WFdopen, WMake
<1>12. CASE WFreed(c)
  <2>1. call[c].o \in DOMAIN obj /\ obj[call[c].o].kind \in {"file", "none"}
    BY <1>12 DEF WFreed, WinInv, WinNamed, WinShape
  <2> QED BY <1>1, <1>12, <2>1, FreesEvolves DEF WFreed
<1>13. ASSUME NEW o \in DOMAIN obj, WSocketClosed(o) \/ WPipeClosed(o) PROVE Evolves
  BY <1>1, <1>13, FreesEvolves DEF WSocketClosed, WPipeClosed
<1>14. ASSUME NEW o \in DOMAIN obj, WFclose(c, o) \/ WPipeCloseUndefined(c, o) PROVE Evolves
  BY <1>14, ShutsEvolves DEF WFclose, WPipeCloseUndefined
<1>15. ASSUME NEW o \in DOMAIN obj, NEW mode, Tunes(o, mode) PROVE Evolves
  <2>1. PICK fd, file, list : fd = obj[o].fd /\ file = obj[o].file /\ list = Entries(o)
    OBVIOUS
  <2>2. Edits(o, fd, file, mode, list) /\ mode # "unknown"
    BY <1>15, <2>1 DEF Tunes, TunesTo
  <2> QED BY <1>4, <2>1, <2>2, EditsEvolves
<1>16. ASSUME NEW o \in DOMAIN obj, NEW mode, WUse(c, o, mode) \/ WTuned(c, o, mode) \/ WAsk(c, o, mode) PROVE Evolves
  BY <1>15, <1>16 DEF WUse, WTuned, WAsk
<1>17. ASSUME NEW o \in DOMAIN obj, NEW fd \in LinuxFd, NEW mode, WAccept(c, o, fd, mode) PROVE Evolves
  BY <1>15, <1>17 DEF WAccept
<1>18. ASSUME NEW o \in DOMAIN obj, NEW nfd \in LinuxFd, NEW mode, WAccepted(c, o, nfd, mode) PROVE Evolves
  <2>1. PICK fd, file, list, n, nfile : /\ fd = obj[o].fd /\ file = obj[o].file /\ list = Entries(o)
                                        /\ n = Len(obj) + 1 /\ nfile = files + 1
    OBVIOUS
  <2>2. EditsGrown(o, fd, file, mode, list, n, "ws", nfd, nfile, "unknown") /\ mode # "unknown"
    BY <1>18, <2>1 DEF WAccepted, TunesTo
  <2> QED BY <1>4, <2>1, <2>2, EditsEvolves
<1>19. ASSUME NEW o \in DOMAIN obj, NEW fd \in LinuxFd,
              WPipeFails(c, o, fd) \/ WPipeUndefined(c, o, fd) \/ WPipeWait(c, o, fd) \/ WPipeNow(o, fd)
       PROVE  Evolves
  <2>1. obj[o].kind = "pipe"
    BY <1>19 DEF WPipeFails, WPipeUndefined, WPipeWait, WPipeNow, Renews
  <2>2. ASSUME NEW stale PROVE Stale(o) => StaleIn(Append(Entries(o), [c |-> c, stale |-> stale]))
    <3>1. Entries(o) \in Seq([c : Pair, stale : BOOLEAN])
      BY <1>2
    <3> QED BY <3>1 DEF Stale, StaleIn
  <2>3. PICK list : /\ \/ Edits(o, fd, files + 1, "unknown", list)
                       \/ EditsGrown(o, fd, files + 1, "unknown", list, Len(obj) + 1, "pipe", obj[o].fd, obj[o].file,
                                     Windows!Mode(o))
                    /\ Stale(o) => StaleIn(list)
    BY <1>4, <1>19, <2>2 DEF WPipeFails, WPipeUndefined, WPipeWait, WPipeNow
  <2>4. PICK file, n, nfd, nfile, nmode : /\ file = files + 1 /\ n = Len(obj) + 1 /\ nfd = obj[o].fd
                                          /\ nfile = obj[o].file /\ nmode = Windows!Mode(o)
    OBVIOUS
  <2>5. \/ Edits(o, fd, file, "unknown", list)
        \/ EditsGrown(o, fd, file, "unknown", list, n, "pipe", nfd, nfile, nmode)
    BY <2>3, <2>4
  <2> QED BY <2>1, <2>3, <2>5, EditsEvolves
<1>20. ASSUME NEW i, WPipeStale(c, i) \/ WPipeHand(c, i) PROVE Evolves
  <2>1. PICK o : o = call[c].o
    OBVIOUS
  <2>2. o \in DOMAIN obj /\ HasEntry(c, i)
    BY <1>3, <1>20, <2>1 DEF WPipeStale, WPipeHand, HasEntry, WinInv, WinShape
  <2>3. /\ Entries(o) \in Seq([c : Pair, stale : BOOLEAN]) /\ i \in DOMAIN Entries(o)
        /\ Entries(o)[i] = [c |-> c, stale |-> FALSE]
        /\ obj[o].kind = "pipe"
    <3>1. /\ Entries(o) \in Seq([c : Pair, stale : BOOLEAN]) /\ i \in DOMAIN Entries(o)
          /\ Entries(o)[i] = [c |-> c, stale |-> FALSE]
      BY <1>2, <2>1, <2>2 DEF HasEntry
    <3>2. Entries(o) # <<>>
      BY <3>1
    <3>3. WinMode(o)
      BY <2>2 DEF WinInv
    <3> QED BY <3>1, <3>2, <3>3 DEF WinMode
  <2>4. Stale(o) => StaleIn([Entries(o) EXCEPT ![i] = [c |-> c, stale |-> TRUE]])
    BY <2>3 DEF Stale, StaleIn
  <2>5. Stale(o) => StaleIn(Without(Entries(o), i))
    <3>1. PICK w : w = Without(Entries(o), i)
      OBVIOUS
    <3>2. \A k \in DOMAIN Entries(o) \ {i} : \E j \in DOMAIN w : w[j] = Entries(o)[k]
      BY <2>3, <3>1, WithoutFacts
    <3>3. ~Entries(o)[i].stale
      BY <2>3
    <3> QED BY <3>1, <3>2, <3>3 DEF Stale, StaleIn
  <2>6. PICK list, fd, file, mode, n, nfd, nfile, nmode :
           /\ \/ Edits(o, fd, file, mode, list)
              \/ EditsGrown(o, fd, file, mode, list, n, "pipe", nfd, nfile, nmode)
           /\ Stale(o) => StaleIn(list)
    BY <1>20, <2>1, <2>4, <2>5 DEF WPipeStale, WPipeHand
  <2> QED BY <2>2, <2>3, <2>6, EditsEvolves
<1> QED
  BY <1>10, <1>11, <1>12, <1>13, <1>14, <1>16, <1>17, <1>18, <1>19, <1>20 DEF WinStepOf

-----------------------------------------------------------------------------
\* What is in the list of a pipe.
LEMMA ElementFacts ==
    ASSUME NEW S, NEW q \in Seq(S)
    PROVE  \A i \in DOMAIN q : q[i] \in S
  OBVIOUS

\* The entries of a list have their types.
LEMMA EntryFacts ==
    ASSUME Typed(Pair, LinuxFd), NEW o \in DOMAIN obj
    PROVE  /\ Entries(o) \in Seq([c : Pair, stale : BOOLEAN])
           /\ \A i \in DOMAIN Entries(o) : /\ Entries(o)[i] \in [c : Pair, stale : BOOLEAN]
                                           /\ Entries(o)[i].c \in Pair
                                           /\ Entries(o)[i].stale \in BOOLEAN
<1>1. obj[o] \in ObjectRecord(Pair, LinuxFd)
  BY ObjectAt
<1>2. Entries(o) \in Seq([c : Pair, stale : BOOLEAN])
  BY <1>1 DEF ObjectRecord, Entries
<1>3. \A i \in DOMAIN Entries(o) : Entries(o)[i] \in [c : Pair, stale : BOOLEAN]
  BY <1>2, ElementFacts
<1> QED BY <1>2, <1>3

\* Every step of the Windows port keeps ownership.
LEMMA WinOwnedStep ==
    ASSUME WinInv, NEW c \in Pair, WinStepOf(c)
    PROVE  Owned(Pair, LinuxFd)'
<1>0. /\ Owned(Pair, LinuxFd) /\ NoCall.own = FALSE
      /\ \A d \in Pair : call[d] \in CallRecord(LinuxFd)
      /\ \A d \in Pair : call[d].own \in BOOLEAN
  <2>1. \A d \in Pair : call[d] \in CallRecord(LinuxFd)
    BY DEF WinInv, Typed
  <2>2. \A d \in Pair : call[d].own \in BOOLEAN
    BY <2>1 DEF CallRecord
  <2> QED BY <2>1, <2>2, NoCallFields, LinuxZero DEF WinInv
<1>1. Returns(Pair, c) => SameCallsBut(Pair, c) /\ ~call'[c].own
  BY <1>0 DEF Returns, Others, SameCallsBut, SameCall
<1>2. Returns(Pair, c) /\ ~call[c].own => SameCalls(Pair)
  BY <1>0 DEF Returns, Others, SameCalls, SameCall
<1>3. UNCHANGED obj => SameObjects
  BY DEF SameObjects, SameObject
<1>4. UNCHANGED call => SameCalls(Pair)
  BY DEF SameCalls, SameCall
<1>5. \A o \in DOMAIN obj : Shuts(o) \/ Frees(o) => SameObjectsBut(o) /\ ~obj'[o].live
  BY DEF Shuts, Frees, SameObjectsBut, SameObject
<1>6. ASSUME NEW o \in DOMAIN obj, NEW mode, Tunes(o, mode) PROVE SameObjects
  BY <1>6 DEF Tunes, Edits, SameObjects, SameObject
<1>10. CASE WPacket(c) \/ WNotOpened(c) \/ WJob(c) \/ WStarted(c) \/ WOverwrite(c) \/ WWait(c) \/ WConnecting(c)
  <2>1. SameCalls(Pair)
    BY <1>10 DEF WPacket, WNotOpened, WJob, WStarted, WOverwrite, WWait, WConnecting, Continues, Becomes, Others,
                 SameCalls, SameCall
  <2>2. UNCHANGED <<dt, files, lost, obj>>
    BY <1>10 DEF WPacket, WNotOpened, WJob, WStarted, WOverwrite, WWait, WConnecting, WKernel
  <2> QED BY <1>0, <1>3, <2>1, <2>2, OwnedKept
<1>11. CASE WFopen(c) \/ \E o \in DOMAIN obj : \E op : WPool(c, op, o)
  <2>1. SameCalls(Pair)
    BY <1>0, <1>11 DEF WFopen, WPool, Becomes, Others, SameCalls, SameCall
  <2>2. UNCHANGED <<dt, files, lost, obj>>
    BY <1>11 DEF WFopen, WPool, WKernel
  <2> QED BY <1>0, <1>3, <2>1, <2>2, OwnedKept
<1>12. ASSUME NEW o \in DOMAIN obj, NEW mode, WUse(c, o, mode) \/ WAsk(c, o, mode) PROVE Owned(Pair, LinuxFd)'
  <2>1. SameCalls(Pair)
    BY <1>0, <1>12 DEF WUse, WAsk, Becomes, Others, SameCalls, SameCall
  <2>2. UNCHANGED <<dt, files, lost>> /\ Tunes(o, mode)
    BY <1>12 DEF WUse, WAsk
  <2> QED BY <1>0, <1>6, <2>1, <2>2, OwnedKept
<1>13. ASSUME NEW o \in DOMAIN obj, NEW mode, WTuned(c, o, mode) PROVE Owned(Pair, LinuxFd)'
  BY <1>0, <1>2, <1>6, <1>13, OwnedKept DEF WTuned
<1>14. CASE WReturn(c)
  BY <1>0, <1>2, <1>3, <1>14, OwnedKept DEF WReturn, WKernel
<1>15. ASSUME NEW o \in DOMAIN obj, WFclose(c, o) PROVE Owned(Pair, LinuxFd)'
  <2>1. ~call[c].own /\ SameCallsBut(Pair, c) /\ call'[c].own /\ call'[c].fd = obj[o].fd /\ call'[c].file = obj[o].file
    BY <1>0, <1>15 DEF WFclose, Becomes, Others, SameCallsBut, SameCall
  <2> QED BY <1>0, <1>5, <1>15, <2>1, OwnedCloseHandle DEF WFclose, WKernel
<1>16. ASSUME NEW fd \in LinuxFd, WOpened(c, fd) \/ WConnect(c, fd) PROVE Owned(Pair, LinuxFd)'
  <2>1. ~call[c].own
    BY <1>0, <1>16 DEF WOpened, WConnect, WinInv, WinShape, WinOwn
  <2>2. SameCallsBut(Pair, c) /\ call'[c].own /\ call'[c].fd = fd /\ call'[c].file = files + 1
    BY <1>16 DEF WOpened, WConnect, Becomes, Others, SameCallsBut, SameCall
  <2> QED BY <1>0, <1>3, <1>16, <2>1, <2>2, OwnedOpenCall DEF WOpened, WConnect
<1>17. ASSUME NEW o \in DOMAIN obj, NEW fd \in LinuxFd, NEW mode, WAccept(c, o, fd, mode) PROVE Owned(Pair, LinuxFd)'
  <2>1. SameCallsBut(Pair, c) /\ call'[c].own /\ call'[c].fd = fd /\ call'[c].file = files + 1
    BY <1>17 DEF WAccept, Becomes, Others, SameCallsBut, SameCall
  <2> QED BY <1>0, <1>6, <1>17, <2>1, OwnedOpenCall DEF WAccept
<1>18. ASSUME NEW o \in DOMAIN obj, NEW fd \in LinuxFd, NEW mode, WAccepted(c, o, fd, mode) PROVE Owned(Pair, LinuxFd)'
  <2>1. PICK n : n = Len(obj) + 1
    OBVIOUS
  <2>2. NewObject(n, fd, files + 1)
    BY <1>18, <2>1 DEF WAccepted, EditsGrown, NewObject, SameObject
  <2> QED BY <1>0, <1>2, <1>18, <2>2, OwnedOpenObject DEF WAccepted
<1>19. ASSUME NEW fd \in LinuxFd, WFdopen(fd) \/ \E kind : WMake(fd, kind) PROVE Owned(Pair, LinuxFd)'
  <2>1. PICK n : n = Len(obj) + 1
    OBVIOUS
  <2>2. NewObject(n, fd, files + 1)
    BY <1>19, <2>1 DEF WFdopen, WMake, Grown, NewObject, SameObject
  <2> QED BY <1>0, <1>4, <1>19, <2>2, OwnedOpenObject DEF WFdopen, WMake
<1>20. CASE WWrapFile(c) \/ \E mode : WHand(c, mode)
  <2>1. call[c].own
    BY <1>20 DEF WWrapFile, WHand, WinInv, WinShape, WinOwn
  <2>2. PICK n : n = Len(obj) + 1
    OBVIOUS
  <2>3. NewObject(n, call[c].fd, call[c].file)
    BY <1>20, <2>2 DEF WWrapFile, WHand, Grown, NewObject, SameObject
  <2> QED BY <1>0, <1>1, <1>20, <2>1, <2>3, OwnedWrap DEF WWrapFile, WHand, WKernel
<1>21. CASE WClosed(c)
  <2>1. call[c].own /\ SameCallsBut(Pair, c) /\ ~call'[c].own
    BY <1>21 DEF WClosed, Continues, Becomes, Others, SameCallsBut, SameCall, WinInv, WinShape, WinOwn
  <2> QED BY <1>0, <1>3, <1>21, <2>1, OwnedCloseCall DEF WClosed
<1>22. CASE WDrop(c)
  BY <1>0, <1>1, <1>3, <1>22, OwnedCloseCall DEF WDrop
<1>23. CASE WFreed(c)
  <2>1. ~call[c].own /\ call[c].o \in DOMAIN obj /\ ~obj[call[c].o].live
    BY <1>23 DEF WFreed, WinInv, WinShape, WinOwn, WinNamed
  <2>2. obj[call[c].o].live \in BOOLEAN /\ DOMAIN obj' = DOMAIN obj
    BY <1>23, <2>1, ObjectAt DEF WinInv, WFreed, Frees
  <2>3. PICK o : o = call[c].o
    OBVIOUS
  <2>4. o \in DOMAIN obj' /\ Typed(Pair, LinuxFd) /\ Frees(o)
    BY <1>23, <2>1, <2>2, <2>3 DEF WinInv, WFreed
  <2>5. SameObjects
    <3>1. ~obj'[o].live /\ ~obj[o].live /\ \A p \in DOMAIN obj \ {o} : obj'[p] = obj[p]
      BY <2>1, <2>3, <2>4 DEF Frees
    <3>2. obj'[o].live = FALSE /\ obj[o].live = FALSE
      BY <1>23, <2>2, <2>3, <3>1 DEF WFreed, Frees
    <3> QED BY <2>2, <3>1, <3>2 DEF SameObjects, SameObject
  <2> QED BY <1>0, <1>2, <1>23, <2>1, <2>5, OwnedKept DEF WFreed, WKernel
<1>24. CASE WUndefined(c)
  <2>1. SameCallsBut(Pair, c) /\ ~call'[c].own /\ call'[c].own = FALSE
    BY <1>24 DEF WUndefined, Continues, Becomes, Others, SameCallsBut, SameCall
  <2>2. CASE call[c].own
    BY <1>0, <1>3, <1>24, <2>1, <2>2, OwnedCallLost DEF WUndefined
  <2>3. CASE ~call[c].own
    <3>1. SameCalls(Pair)
      BY <1>0, <2>1, <2>3 DEF SameCallsBut, SameCalls, SameCall
    <3> QED BY <1>0, <1>3, <1>24, <2>3, <3>1, OwnedKept DEF WUndefined
  <2> QED BY <2>2, <2>3
<1>25. ASSUME NEW o \in DOMAIN obj, NEW fd \in LinuxFd, WPipeFails(c, o, fd) PROVE Owned(Pair, LinuxFd)'
  <2>1. Swapped(o, fd) /\ SameObjectsBut(o)
    BY <1>25 DEF WPipeFails, Renews, Edits, Swapped, SameObjectsBut, SameObject
  <2> QED BY <1>0, <1>4, <1>25, <2>1, OwnedSwapClose DEF WPipeFails
<1>26. ASSUME NEW o \in DOMAIN obj, NEW fd \in LinuxFd, WPipeUndefined(c, o, fd) PROVE Owned(Pair, LinuxFd)'
  <2>1. Swapped(o, fd) /\ SameObjectsBut(o)
    BY <1>26 DEF WPipeUndefined, Renews, Edits, Swapped, SameObjectsBut, SameObject
  <2>2. SameCalls(Pair)
    BY <1>0, <1>26 DEF WPipeUndefined, Becomes, Others, SameCalls, SameCall
  <2> QED BY <1>0, <1>26, <2>1, <2>2, OwnedSwapLost DEF WPipeUndefined
<1>27. ASSUME NEW o \in DOMAIN obj, NEW fd \in LinuxFd, WPipeWait(c, o, fd) PROVE Owned(Pair, LinuxFd)'
  <2>1. Swapped(o, fd) /\ SameObjectsBut(o)
    BY <1>27 DEF WPipeWait, Renews, Edits, Swapped, SameObjectsBut, SameObject
  <2>2. ~call[c].own /\ SameCallsBut(Pair, c) /\ call'[c].own /\ call'[c].fd = obj[o].fd /\ call'[c].file = obj[o].file
    BY <1>0, <1>27 DEF WPipeWait, Becomes, Others, SameCallsBut, SameCall
  <2> QED BY <1>0, <1>27, <2>1, <2>2, OwnedSwapCall DEF WPipeWait
<1>28. ASSUME NEW o \in DOMAIN obj, NEW fd \in LinuxFd, WPipeNow(o, fd) PROVE Owned(Pair, LinuxFd)'
  <2>1. PICK n : n = Len(obj) + 1
    OBVIOUS
  <2>2. /\ Swapped(o, fd) /\ n \notin DOMAIN obj
        /\ DOMAIN obj' = DOMAIN obj \cup {n}
        /\ \A p \in DOMAIN obj \ {o} : SameObject(p)
        /\ obj'[n].live /\ obj'[n].fd = obj[o].fd /\ obj'[n].file = obj[o].file
    BY <1>28, <2>1 DEF WPipeNow, Renews, EditsGrown, Swapped, SameObject
  <2> QED BY <1>0, <1>4, <1>28, <2>2, OwnedSwapObject DEF WPipeNow
<1>29. ASSUME NEW i, WPipeStale(c, i) PROVE Owned(Pair, LinuxFd)'
  <2>1. SameObjects
    BY <1>29 DEF WPipeStale, Edits, SameObjects, SameObject
  <2> QED BY <1>0, <1>1, <1>29, <2>1, OwnedCloseCall DEF WPipeStale, HasEntry
<1>30. ASSUME NEW i, WPipeHand(c, i) PROVE Owned(Pair, LinuxFd)'
  <2>1. PICK n : n = Len(obj) + 1
    OBVIOUS
  <2>2. NewObject(n, call[c].fd, call[c].file)
    BY <1>30, <2>1 DEF WPipeHand, EditsGrown, NewObject, SameObject
  <2> QED BY <1>0, <1>1, <1>30, <2>2, OwnedWrap DEF WPipeHand, HasEntry, WKernel
<1>31. ASSUME NEW o \in DOMAIN obj, WSocketClosed(o) PROVE Owned(Pair, LinuxFd)'
  BY <1>0, <1>4, <1>5, <1>31, OwnedCloseObject DEF WSocketClosed
<1>32. ASSUME NEW o \in DOMAIN obj, WPipeCloseUndefined(c, o) PROVE Owned(Pair, LinuxFd)'
  <2>1. SameCalls(Pair)
    BY <1>0, <1>32 DEF WPipeCloseUndefined, Becomes, Others, SameCalls, SameCall
  <2> QED BY <1>0, <1>5, <1>32, <2>1, OwnedObjectLost DEF WPipeCloseUndefined
<1>33. ASSUME NEW o \in DOMAIN obj, WPipeClosed(o) PROVE Owned(Pair, LinuxFd)'
  <2>1. PICK S : S = Cancelled(o)
    OBVIOUS
  <2>2. S \in SUBSET Pair /\ \A d \in S : call[d].own
    <3>1. \A i \in DOMAIN Entries(o) : Entries(o)[i].c \in Pair
      BY EntryFacts DEF WinInv
    <3>2. \A i \in DOMAIN Entries(o) : Entries(o)[i].c \in Pair /\ ~Entries(o)[i].stale
      BY <1>33, <3>1 DEF WPipeClosed, Stale
    <3>3. \A i \in DOMAIN Entries(o) : call[Entries(o)[i].c].own
      BY <1>33, <3>2 DEF WPipeClosed, WinInv, WinEntries
    <3> QED BY <2>1, <3>2, <3>3 DEF Cancelled
  <2>3. /\ \A d \in S : ~call'[d].own
        /\ \A d \in Pair \ S : SameCall(d)
        /\ dt' = [fd \in LinuxFd |-> IF fd = obj[o].fd \/ \E d \in S : call[d].fd = fd THEN 0 ELSE dt[fd]]
        /\ UNCHANGED <<files, lost>> /\ obj[o].live
    BY <1>33, <2>1 DEF WPipeClosed, SameCall
  <2>4. SameObjectsBut(o) /\ ~obj'[o].live
    BY <1>5, <1>33 DEF WPipeClosed
  <2> QED BY <1>0, <2>2, <2>3, <2>4, OwnedCloseAll
<1> QED
  BY <1>10, <1>11, <1>12, <1>13, <1>14, <1>15, <1>16, <1>17, <1>18, <1>19, <1>20, <1>21, <1>22, <1>23, <1>24,
     <1>25, <1>26, <1>27, <1>28, <1>29, <1>30, <1>31, <1>32, <1>33 DEF WinStepOf

\* The modes that the kernel was told stay, and whether there is such a mode
\* never changes.
LEMMA WinSkipStep ==
    ASSUME WinInv, NEW c \in Pair, WinStepOf(c)
    PROVE  /\ skip \subseteq skip'
           /\ 0 \in skip' <=> 0 \in skip
           /\ 0 \notin skip' => skip' = {}
<1>1. 0 \notin skip => skip = {}
  BY DEF WinInv
<1>2. ASSUME NEW file, skip' = Windows!Skip(file)
      PROVE  skip \subseteq skip' /\ (0 \in skip' <=> 0 \in skip) /\ (0 \notin skip' => skip' = {})
  BY <1>1, <1>2 DEF Windows!Skip
<1>3. ASSUME NEW o, skip' = Windows!Skips(o) \/ skip' = skip
      PROVE  skip \subseteq skip' /\ (0 \in skip' <=> 0 \in skip) /\ (0 \notin skip' => skip' = {})
  BY <1>1, <1>2, <1>3 DEF Windows!Skips
<1>4. CASE WWrapFile(c) \/ \E fd \in LinuxFd : WFdopen(fd) \/ WConnect(c, fd)
  BY <1>2, <1>4 DEF WWrapFile, WFdopen, WConnect
<1>5. CASE \/ \E o \in DOMAIN obj : \E mode : WUse(c, o, mode) \/ WTuned(c, o, mode) \/ WAsk(c, o, mode)
           \/ \E o \in DOMAIN obj : \E fd \in LinuxFd : \E mode : WAccept(c, o, fd, mode) \/ WAccepted(c, o, fd, mode)
  BY <1>3, <1>5 DEF WUse, WTuned, WAsk, WAccept, WAccepted, Tunes, TunesTo
<1>6. CASE \E o \in DOMAIN obj : \E fd \in LinuxFd : \/ WPipeFails(c, o, fd) \/ WPipeUndefined(c, o, fd)
                                                  \/ WPipeWait(c, o, fd) \/ WPipeNow(o, fd)
  BY <1>3, <1>6 DEF WPipeFails, WPipeUndefined, WPipeWait, WPipeNow, Renews
<1>7. CASE UNCHANGED skip
  BY <1>1, <1>7
<1> QED
  BY <1>4, <1>5, <1>6, <1>7
  DEF WinStepOf, WKernel, WPacket, WFopen, WPool, WFclose, WOpened, WNotOpened, WJob, WStarted, WClosed, WFreed,
      WReturn, WOverwrite, WWait, WUndefined, WMake, WHand, WDrop, WConnecting, WPipeStale, WPipeHand,
      WSocketClosed, WPipeCloseUndefined, WPipeClosed

\* Every step keeps the shape of the calls.
LEMMA WinShapeStep ==
    ASSUME WinInv, NEW c \in Pair, WinStepOf(c)
    PROVE  \A d \in Pair : WinShape(call'[d])
<1>0. \A d \in Pair : WinShape(call[d])
  BY DEF WinInv
<1>1. /\ NoCall.own = FALSE /\ NoCall.step = "none" /\ NoCall.op = "none" /\ NoCall.at = "none"
      /\ NoCall.o = 0 /\ NoCall.res = "none" /\ NoCall.pkt = "none"
  BY NoCallFields, LinuxZero
<1>2. \A o \in DOMAIN obj : o # 0
  BY ObjectAt DEF WinInv
<1>3. WinShape(NoCall)
  BY <1>1 DEF WinShape, WinOwn
<1>10. CASE WPacket(c) \/ WNotOpened(c) \/ WJob(c) \/ WStarted(c) \/ WClosed(c)
  BY <1>0, <1>10 DEF WPacket, WNotOpened, WJob, WStarted, WClosed, Continues, Becomes, Others, WinShape, WinOwn
<1>11. CASE WOverwrite(c) \/ WWait(c) \/ WUndefined(c) \/ WConnecting(c)
  BY <1>0, <1>11 DEF WOverwrite, WWait, WUndefined, WConnecting, Continues, Becomes, Others, WinShape, WinOwn
<1>12. CASE WFopen(c) \/ \E fd \in LinuxFd : WOpened(c, fd) \/ WConnect(c, fd)
  BY <1>0, <1>12 DEF WFopen, WOpened, WConnect, Becomes, Others, WinShape, WinOwn
<1>13. ASSUME NEW o \in DOMAIN obj, WFclose(c, o) \/ WPipeCloseUndefined(c, o) \/ \E op : WPool(c, op, o)
       PROVE  \A d \in Pair : WinShape(call'[d])
  <2>1. o # 0
    BY <1>2
  <2>2. CASE WFclose(c, o)
    BY <1>0, <2>1, <2>2 DEF WFclose, Becomes, Others, WinShape, WinOwn
  <2>3. CASE WPipeCloseUndefined(c, o)
    BY <1>0, <2>1, <2>3 DEF WPipeCloseUndefined, Becomes, Others, WinShape, WinOwn
  <2>4. CASE \E op : WPool(c, op, o)
    BY <1>0, <2>1, <2>4 DEF WPool, Becomes, Others, WinShape, WinOwn
  <2> QED BY <1>13, <2>2, <2>3, <2>4
<1>14. ASSUME NEW o \in DOMAIN obj, NEW mode, WUse(c, o, mode) \/ WAsk(c, o, mode)
       PROVE  \A d \in Pair : WinShape(call'[d])
  BY <1>0, <1>2, <1>14 DEF WUse, WAsk, Becomes, Others, WinShape, WinOwn
<1>15. ASSUME NEW o \in DOMAIN obj, NEW fd \in LinuxFd,
              WPipeUndefined(c, o, fd) \/ WPipeWait(c, o, fd) \/ \E mode : WAccept(c, o, fd, mode)
       PROVE  \A d \in Pair : WinShape(call'[d])
  BY <1>0, <1>2, <1>15 DEF WPipeUndefined, WPipeWait, WAccept, Becomes, Others, WinShape, WinOwn
<1>16. CASE Returns(Pair, c)
  BY <1>0, <1>3, <1>16 DEF Returns, Others
<1>17. CASE UNCHANGED call
  BY <1>0, <1>17
<1>18. ASSUME NEW o \in DOMAIN obj, WPipeClosed(o) PROVE \A d \in Pair : WinShape(call'[d])
  <2>1. \A i \in DOMAIN Entries(o) : ~Entries(o)[i].stale
    BY <1>18 DEF WPipeClosed, Stale
  <2>2. \A d \in Cancelled(o) : call[d].step = "pipe"
    BY <2>1 DEF Cancelled, WinInv, WinEntries
  <2>3. \A d \in Pair \ Cancelled(o) : call'[d] = call[d]
    BY <1>18 DEF WPipeClosed
  <2>4. ASSUME NEW d \in Pair, d \in Cancelled(o) PROVE WinShape(call'[d])
    BY <1>0, <1>18, <2>2, <2>4 DEF WPipeClosed, SameBut, WinShape, WinOwn
  <2> QED BY <1>0, <2>3, <2>4
<1> QED
  BY <1>10, <1>11, <1>12, <1>13, <1>14, <1>15, <1>16, <1>17, <1>18
  DEF WinStepOf, WWrapFile, WFreed, WReturn, WDrop, WHand, WPipeStale, WPipeHand, WFdopen, WMake, WSocketClosed,
      WTuned, WPipeFails, WPipeNow, WAccepted

\* What is known of a call.
WinCall(d) == WinNamed(d) /\ WinSkips(d) /\ WinPackets(d) /\ WinUndefined(d)

\* A job reaches another file than its own only after its handle was closed.
LEMMA WinStrayedStep ==
    ASSUME WinInv, NEW c \in Pair, WinStepOf(c)
    PROVE  strayed \subseteq strayed' /\ strayed' \subseteq {"closed"}
<1>1. strayed \subseteq {"closed"}
  BY DEF WinInv
<1>2. CASE WJob(c) \/ WStarted(c)
  <2>1. /\ WReaches(c) /\ call[c].o # 0 /\ call[c].step = "job" /\ call[c].op \in {"transfer", "flush"}
    BY <1>2 DEF WJob, WStarted, WinInv, WinShape
  <2>2. call[c].o \in DOMAIN obj /\ (obj[call[c].o].live => Same(c))
    BY <2>1 DEF WinInv, WinNamed
  <2>3. obj[call[c].o].live => dt[call[c].fd] = call[c].file
    BY <2>2 DEF Same, WinInv, Owned, Holders, ObjectHolds
  <2> QED BY <1>1, <2>1, <2>3 DEF WReaches
<1>3. ASSUME NEW o \in DOMAIN obj, NEW fd \in LinuxFd,
             \/ WPipeFails(c, o, fd) \/ WPipeUndefined(c, o, fd) \/ WPipeWait(c, o, fd) \/ WPipeNow(o, fd)
             \/ \E mode : WAccept(c, o, fd, mode) \/ WAccepted(c, o, fd, mode)
      PROVE  UNCHANGED strayed
  BY <1>3 DEF WPipeFails, WPipeUndefined, WPipeWait, WPipeNow, Renews, WAccept, WAccepted
<1>4. ASSUME NEW o \in DOMAIN obj,
             \/ WFclose(c, o) \/ (\E op : WPool(c, op, o))
             \/ WSocketClosed(o) \/ WPipeCloseUndefined(c, o) \/ WPipeClosed(o)
             \/ \E mode : WUse(c, o, mode) \/ WTuned(c, o, mode) \/ WAsk(c, o, mode)
      PROVE  UNCHANGED strayed
  BY <1>4 DEF WFclose, WPool, WSocketClosed, WPipeCloseUndefined, WPipeClosed, WUse, WTuned, WAsk, WKernel
<1>5. ASSUME NEW fd \in LinuxFd, WOpened(c, fd) \/ WFdopen(fd) \/ WConnect(c, fd) \/ \E kind : WMake(fd, kind)
      PROVE  UNCHANGED strayed
  BY <1>5 DEF WOpened, WFdopen, WConnect, WMake
<1>6. ASSUME \/ WPacket(c) \/ WFopen(c) \/ WNotOpened(c) \/ WClosed(c)
             \/ WWrapFile(c) \/ WFreed(c) \/ WReturn(c) \/ WOverwrite(c) \/ WWait(c) \/ WUndefined(c)
             \/ WDrop(c) \/ WConnecting(c) \/ (\E mode : WHand(c, mode)) \/ (\E i : WPipeStale(c, i) \/ WPipeHand(c, i))
      PROVE  UNCHANGED strayed
  BY <1>6 DEF WPacket, WFopen, WNotOpened, WClosed, WWrapFile, WFreed, WReturn, WOverwrite, WWait, WUndefined, WDrop,
              WConnecting, WHand, WPipeStale, WPipeHand, WKernel
<1> QED BY <1>1, <1>2, <1>3, <1>4, <1>5, <1>6 DEF WinStepOf

\* A call that nothing happens to, but that its handle may be closed for it.
LEMMA WinCallKept ==
    ASSUME WinInv, Evolves, skip \subseteq skip', 0 \in skip' <=> 0 \in skip, strayed \subseteq strayed',
           NEW d \in Pair, SameBut(d), call'[d].own => call[d].own
    PROVE  WinCall(d)'
<1>0. WinCall(d) /\ WinShape(call[d])
  BY DEF WinInv, WinCall
<1>1. call[d].o # 0 => call[d].o \in DOMAIN obj /\ call[d].o \in DOMAIN obj' /\ EvolvesAt(call[d].o)
  BY <1>0 DEF WinCall, WinNamed, Evolves
<1>2. call[d].o # 0 /\ obj[call[d].o].live => obj[call[d].o].kind # "none"
  BY <1>1 DEF WinInv, WinMode
<1>3. WinNamed(d)'
  <2>1. call'[d].step = "job" /\ call'[d].op \in {"transfer", "flush"} /\ obj'[call'[d].o].live => Same(d)'
    BY <1>0, <1>1, <1>2 DEF SameBut, WinCall, WinNamed, EvolvesAt, Same, WinShape
  <2>2. call'[d].op = "fclose" => ~obj'[call'[d].o].live
    BY <1>0, <1>1 DEF SameBut, WinCall, WinNamed, EvolvesAt, WinShape
  <2>3. call'[d].o # 0 => call'[d].o \in DOMAIN obj'
    BY <1>1 DEF SameBut
  <2>4. call'[d].step = "job" /\ call'[d].o # 0 => obj'[call'[d].o].kind \in {"file", "none"}
    BY <1>0, <1>1 DEF SameBut, WinCall, WinNamed, EvolvesAt
  <2>5. call'[d].op = "accept" /\ call'[d].step = "ioctl" =>
           obj'[call'[d].o].kind \in {"ws", "none"} /\ obj'[call'[d].o].mode # "unknown"
    BY <1>0, <1>1 DEF SameBut, WinCall, WinNamed, EvolvesAt, WinShape
  <2> QED BY <2>1, <2>2, <2>3, <2>4, <2>5 DEF WinNamed
<1>4. WinSkips(d)'
  BY <1>0 DEF SameBut, WinCall, WinSkips
<1>5. Windows!Astray(d) => Windows!Astray(d)'
  BY <1>0, <1>1 DEF SameBut, Windows!Astray, EvolvesAt, WinShape
<1>6. WinPackets(d)'
  BY <1>0, <1>5 DEF SameBut, WinCall, WinPackets
<1>7. WinUndefined(d)'
  <2>1. call[d].o # 0 /\ Stale(call[d].o) => StaleIn(obj'[call[d].o].acceptors)
    BY <1>1 DEF EvolvesAt
  <2>2. call'[d].at = "undefined" =>
           \/ call'[d].op \in {"transfer", "use", "accept"} /\ ~obj'[call'[d].o].live
           \/ call'[d].op \in {"accept", "net_close"} /\ StaleIn(obj'[call'[d].o].acceptors)
    BY <1>0, <1>1, <2>1 DEF SameBut, WinCall, WinUndefined, WinShape, EvolvesAt
  <2> QED BY <2>2 DEF WinUndefined, Stale, StaleIn, Entries
<1> QED BY <1>3, <1>4, <1>6, <1>7 DEF WinCall

\* Nothing is known of a call that has returned.
LEMMA WinCallNone ==
    ASSUME NEW d \in Pair, call'[d] = NoCall
    PROVE  WinCall(d)'
<1>1. /\ NoCall.own = FALSE /\ NoCall.step = "none" /\ NoCall.op = "none" /\ NoCall.at = "none" /\ NoCall.o = 0
  BY NoCallFields, LinuxZero
<1> QED BY <1>1 DEF WinCall, WinNamed, WinSkips, WinPackets, WinUndefined

\* The handle of an object whose mode is known, or is being told, skips packets if
\* there is that mode.
LEMMA ModeTells ==
    ASSUME WinInv, NEW o \in DOMAIN obj, obj[o].kind # "none"
    PROVE  /\ obj[o].mode # "unknown" => (0 \in skip => obj[o].file \in skip)
           /\ skip' = Windows!Skips(o) => (0 \in skip' => obj[o].file \in skip')
<1>1. WinMode(o)
  BY DEF WinInv
<1> QED BY <1>1 DEF WinMode, Windows!Skips, Windows!Skip

\* Every step keeps what is known of every call.
LEMMA WinCallStep ==
    ASSUME WinInv, NEW c \in Pair, WinStepOf(c)
    PROVE  \A d \in Pair : WinCall(d)'
<1>0. /\ Evolves /\ skip \subseteq skip' /\ (0 \in skip' <=> 0 \in skip) /\ (0 \notin skip' => skip' = {})
      /\ strayed \subseteq strayed'
  BY WinEvolves, WinSkipStep, WinStrayedStep
<1>1. /\ \A d \in Pair : WinShape(call[d]) /\ WinCall(d)
      /\ \A o \in DOMAIN obj : WinMode(o) /\ o # 0
      /\ NoCall.o = 0 /\ NoCall.own = FALSE
  BY NoCallFields, LinuxZero, ObjectAt DEF WinInv, WinCall
<1>2. ASSUME NEW d \in Pair, call'[d] = call[d] PROVE WinCall(d)'
  <2>1. SameBut(d) /\ (call'[d].own => call[d].own)
    BY <1>2 DEF SameBut
  <2> QED BY <1>0, <2>1, WinCallKept
<1>3. Returns(Pair, c) => \A d \in Pair : WinCall(d)'
  BY <1>2, WinCallNone DEF Returns, Others
<1>4. UNCHANGED call => \A d \in Pair : WinCall(d)'
  BY <1>2
<1>5. Others(Pair, c) /\ WinCall(c)' => \A d \in Pair : WinCall(d)'
  BY <1>2 DEF Others
<1>6. call[c].o # 0 => call[c].o \in DOMAIN obj
  BY <1>1 DEF WinCall, WinNamed
<1>10. CASE WPacket(c)
  <2>1. Others(Pair, c) /\ UNCHANGED <<obj, skip, strayed>>
    BY <1>10 DEF WPacket, Continues, Becomes, WKernel
  <2>2. WinNamed(c)' /\ WinSkips(c)'
    BY <1>1, <1>10, <2>1 DEF WPacket, Continues, Becomes, WinCall, WinNamed, WinSkips, Same
  <2>3. WinPackets(c)' /\ WinUndefined(c)'
    BY <1>1, <1>10, <2>1 DEF WPacket, Continues, Becomes, WinCall, WinPackets, WinUndefined, Windows!Astray, Stale, Entries
  <2> QED BY <1>5, <2>1, <2>2, <2>3 DEF WinCall
<1>11. CASE WNotOpened(c) \/ WClosed(c)
  <2>1. Others(Pair, c) /\ UNCHANGED <<obj, skip>> /\ call[c].op \in {"fopen", "fclose"} /\ call'[c].at = "ready"
    BY <1>11 DEF WNotOpened, WClosed, Continues, Becomes, WKernel
  <2>2. WinNamed(c)' /\ WinSkips(c)'
    BY <1>1, <1>11, <2>1 DEF WNotOpened, WClosed, Continues, Becomes, WinCall, WinNamed, WinSkips, Same
  <2>3. WinPackets(c)' /\ WinUndefined(c)'
    BY <1>11, <2>1 DEF WNotOpened, WClosed, Continues, Becomes, WinPackets, WinUndefined
  <2> QED BY <1>5, <2>1, <2>2, <2>3 DEF WinCall
<1>12. CASE WJob(c)
  <2>1. Others(Pair, c) /\ UNCHANGED <<obj, skip>> /\ call'[c].at = "ready" /\ call'[c].res = "none"
    BY <1>1, <1>12 DEF WJob, Continues, Becomes, WinShape
  <2>2. WinNamed(c)' /\ WinSkips(c)'
    BY <1>1, <1>12, <2>1 DEF WJob, Continues, Becomes, WinCall, WinNamed, WinSkips, Same
  <2>3. WinPackets(c)' /\ WinUndefined(c)'
    BY <2>1 DEF WinPackets, WinUndefined
  <2> QED BY <1>5, <2>1, <2>2, <2>3 DEF WinCall
<1>13. CASE WStarted(c)
  <2>1. /\ Others(Pair, c) /\ UNCHANGED <<obj, skip>> /\ call'[c].at = "ready"
        /\ call[c].step = "job" /\ call[c].op = "transfer" /\ call[c].o \in DOMAIN obj
        /\ call'[c].op = "transfer" /\ call'[c].o = call[c].o
    BY <1>1, <1>6, <1>13 DEF WStarted, Continues, Becomes, WinShape
  <2>2. WinNamed(c)' /\ WinSkips(c)'
    BY <1>1, <1>13, <2>1 DEF WStarted, Continues, Becomes, WinCall, WinNamed, WinSkips, Same
  <2>3. 0 \in skip <=> call[c].file \in skip
    <3>1. WinSkips(c) /\ (0 \notin skip => skip = {})
      BY <1>1 DEF WinInv, WinCall
    <3> QED BY <2>1, <3>1 DEF WinSkips
  <2>4. ~Windows!Unlinked(call[c].file)
    BY <2>1 DEF WinInv, WinLinked, Windows!Unlinked
  <2>5. ASSUME obj[call[c].o].live PROVE WinPackets(c)'
    <3>1. dt[call[c].fd] = call[c].file
      BY <1>1, <2>1, <2>5 DEF WinInv, WinCall, WinNamed, Same, Owned, Holders, ObjectHolds
    <3>2. /\ call'[c].res = "ok" => (call'[c].pkt = "none" <=> call[c].file \in skip)
          /\ call'[c].res = "pending" => call'[c].pkt # "none"
      BY <1>13, <2>4, <3>1 DEF WStarted
    <3> QED BY <2>1, <2>3, <3>2 DEF WinPackets
  <2>6. ASSUME ~obj[call[c].o].live, dt[call[c].fd] = call[c].file PROVE WinPackets(c)'
    <3>2. /\ call'[c].res = "ok" => (call'[c].pkt = "none" <=> call[c].file \in skip)
          /\ call'[c].res = "pending" => call'[c].pkt # "none"
      BY <1>13, <2>4, <2>6 DEF WStarted
    <3> QED BY <2>1, <2>3, <3>2 DEF WinPackets
  <2>7. ASSUME ~obj[call[c].o].live, dt[call[c].fd] # call[c].file PROVE WinPackets(c)'
    <3>1. "closed" \in strayed'
      BY <1>1, <1>13, <2>1, <2>7 DEF WStarted, WReaches, WinShape
    <3>2. Windows!Astray(c)'
      BY <2>1, <2>7, <3>1 DEF Windows!Astray
    <3> QED BY <2>1, <3>2 DEF WinPackets
  <2>8. WinUndefined(c)'
    BY <2>1 DEF WinUndefined
  <2> QED BY <1>5, <2>1, <2>2, <2>5, <2>6, <2>7, <2>8 DEF WinCall
<1>14. CASE WOverwrite(c) \/ WWait(c)
  <2>1. Others(Pair, c) /\ UNCHANGED <<obj, skip, strayed>>
    BY <1>14 DEF WOverwrite, WWait, Continues, Becomes, WKernel
  <2>2. WinNamed(c)' /\ WinSkips(c)'
    BY <1>1, <1>14, <2>1 DEF WOverwrite, WWait, Continues, Becomes, WinCall, WinNamed, WinSkips, Same
  <2>3. WinPackets(c)' /\ WinUndefined(c)'
    BY <1>14, <2>1 DEF WOverwrite, WWait, Continues, Becomes, WinPackets, WinUndefined, Windows!Astray
  <2> QED BY <1>5, <2>1, <2>2, <2>3 DEF WinCall
<1>15. CASE WUndefined(c)
  <2>1. Others(Pair, c) /\ UNCHANGED <<obj, skip, strayed>>
    BY <1>15 DEF WUndefined, Continues, Becomes
  <2>2. WinNamed(c)' /\ WinSkips(c)'
    BY <1>1, <1>15, <2>1 DEF WUndefined, Continues, Becomes, WinCall, WinNamed, WinSkips, Same, WinShape
  <2>3. WinPackets(c)'
    BY <1>15 DEF WUndefined, Continues, Becomes, WinPackets
  <2>4. WinUndefined(c)'
    BY <1>1, <1>15, <2>1 DEF WUndefined, Continues, Becomes, WinUndefined, Stale, Entries, WinShape
  <2> QED BY <1>5, <2>1, <2>2, <2>3, <2>4 DEF WinCall
<1>16. CASE WFopen(c) \/ \E fd \in LinuxFd : WOpened(c, fd) \/ WConnect(c, fd)
  <2>1. Others(Pair, c) /\ call'[c].o = 0 /\ (call'[c].op = "connect" => skip' = Windows!Skip(call'[c].file))
    BY <1>1, <1>16 DEF WFopen, WOpened, WConnect, Becomes, WinShape
  <2>2. WinNamed(c)' /\ WinPackets(c)' /\ WinUndefined(c)'
    BY <1>16, <2>1 DEF WFopen, WOpened, WConnect, Becomes, WinNamed, WinPackets, WinUndefined
  <2>3. WinSkips(c)'
    BY <1>1, <1>16, <2>1 DEF WFopen, WOpened, WConnect, Becomes, WinSkips, Windows!Skip, WinShape
  <2> QED BY <1>5, <2>1, <2>2, <2>3 DEF WinCall
<1>17. CASE WConnecting(c)
  <2>1. Others(Pair, c) /\ UNCHANGED <<obj, skip, strayed>> /\ call'[c].o = 0
    BY <1>1, <1>17 DEF WConnecting, Continues, Becomes, WKernel, WinShape
  <2>2. WinNamed(c)' /\ WinPackets(c)' /\ WinUndefined(c)'
    BY <1>17, <2>1 DEF WConnecting, Continues, Becomes, WinNamed, WinPackets, WinUndefined
  <2>3. WinSkips(c)'
    BY <1>1, <1>17, <2>1 DEF WConnecting, Continues, Becomes, WinCall, WinSkips
  <2> QED BY <1>5, <2>1, <2>2, <2>3 DEF WinCall
<1>18. ASSUME NEW o \in DOMAIN obj, NEW op, WPool(c, op, o) PROVE \A d \in Pair : WinCall(d)'
  <2>1. Others(Pair, c) /\ UNCHANGED <<obj, skip, strayed>> /\ call'[c].at = "pool" /\ call'[c].o = o /\ o # 0
    BY <1>1, <1>18 DEF WPool, Becomes, WKernel
  <2>2. WinNamed(c)'
    BY <1>18, <2>1 DEF WPool, Becomes, WinNamed, Same
  <2>3. WinPackets(c)' /\ WinUndefined(c)'
    BY <2>1 DEF WinPackets, WinUndefined
  <2>4. 0 \in skip => obj[o].file \in skip
    BY <1>1, <1>18, ModeTells DEF WPool, WinMode
  <2>5. WinSkips(c)'
    BY <1>18, <2>1, <2>4 DEF WPool, Becomes, WinSkips
  <2> QED BY <1>5, <2>1, <2>2, <2>3, <2>5 DEF WinCall
<1>19. ASSUME NEW o \in DOMAIN obj, WFclose(c, o) PROVE \A d \in Pair : WinCall(d)'
  <2>1. /\ Others(Pair, c) /\ call'[c].at = "pool" /\ call'[c].o = o /\ o # 0
        /\ ~obj'[o].live /\ obj'[o].kind = "file" /\ DOMAIN obj' = DOMAIN obj
    BY <1>1, <1>19 DEF WFclose, Becomes, Shuts
  <2>2. WinCall(c)'
    BY <1>19, <2>1 DEF WFclose, Becomes, WinCall, WinNamed, WinPackets, WinUndefined, WinSkips
  <2> QED BY <1>5, <2>1, <2>2
<1>20. ASSUME NEW o \in DOMAIN obj, WPipeCloseUndefined(c, o) PROVE \A d \in Pair : WinCall(d)'
  <2>1. /\ Others(Pair, c) /\ call'[c].at = "undefined" /\ call'[c].o = o /\ o # 0
        /\ DOMAIN obj' = DOMAIN obj /\ Stale(o) /\ obj'[o].acceptors = obj[o].acceptors
        /\ call'[c].op = "net_close" /\ call'[c].step = "none"
    BY <1>1, <1>20 DEF WPipeCloseUndefined, Becomes, Shuts
  <2>2. WinNamed(c)' /\ WinPackets(c)' /\ WinSkips(c)'
    BY <2>1 DEF WinNamed, WinPackets, WinSkips
  <2>3. WinUndefined(c)'
    BY <2>1 DEF WinUndefined, Stale, Entries
  <2> QED BY <1>5, <2>1, <2>2, <2>3 DEF WinCall
<1>21. ASSUME NEW o \in DOMAIN obj, NEW mode, WUse(c, o, mode) \/ WAsk(c, o, mode) PROVE \A d \in Pair : WinCall(d)'
  <2>1. /\ Others(Pair, c) /\ call'[c].at = "wait" /\ call'[c].o = o
        /\ call'[c].step = "unlinked" \/ call'[c].pkt # "none"
        /\ DOMAIN obj' = DOMAIN obj /\ mode # "unknown" /\ obj'[o].mode = mode /\ obj'[o].kind = obj[o].kind
    BY <1>21 DEF WUse, WAsk, Becomes, Tunes, TunesTo, Edits
  <2>2. WinPackets(c)' /\ WinUndefined(c)'
    BY <2>1 DEF WinPackets, WinUndefined
  <2>3. WinNamed(c)' /\ WinSkips(c)'
    BY <1>21, <2>1 DEF WUse, WAsk, Becomes, WinNamed, WinSkips
  <2> QED BY <1>5, <2>1, <2>2, <2>3 DEF WinCall
<1>22. ASSUME NEW o \in DOMAIN obj, NEW fd \in LinuxFd, NEW mode, WAccept(c, o, fd, mode) PROVE \A d \in Pair : WinCall(d)'
  <2>1. /\ Others(Pair, c) /\ call'[c].at = "wait" /\ call'[c].pkt # "none" /\ call'[c].o = o
        /\ call'[c].op = "accept" /\ call'[c].step = "accept" /\ DOMAIN obj' = DOMAIN obj
    BY <1>22 DEF WAccept, Becomes, Tunes, Edits
  <2>2. WinCall(c)'
    BY <2>1 DEF WinCall, WinNamed, WinSkips, WinPackets, WinUndefined
  <2> QED BY <1>5, <2>1, <2>2
<1>23. ASSUME NEW o \in DOMAIN obj, NEW fd \in LinuxFd, WPipeUndefined(c, o, fd) PROVE \A d \in Pair : WinCall(d)'
  <2>1. /\ Others(Pair, c) /\ call'[c].at = "undefined" /\ call'[c].o = o /\ call'[c].own = FALSE
        /\ DOMAIN obj' = DOMAIN obj /\ Stale(o) /\ obj'[o].acceptors = obj[o].acceptors
        /\ call'[c].op = "accept" /\ call'[c].step = "pipe"
    BY <1>23 DEF WPipeUndefined, Becomes, Edits, Entries
  <2>2. WinNamed(c)' /\ WinPackets(c)' /\ WinSkips(c)'
    BY <2>1 DEF WinNamed, WinPackets, WinSkips
  <2>3. WinUndefined(c)'
    BY <2>1 DEF WinUndefined, Stale, Entries
  <2> QED BY <1>5, <2>1, <2>2, <2>3 DEF WinCall
<1>24. ASSUME NEW o \in DOMAIN obj, NEW fd \in LinuxFd, WPipeWait(c, o, fd) PROVE \A d \in Pair : WinCall(d)'
  <2>1. /\ Others(Pair, c) /\ call'[c].at = "wait" /\ call'[c].o = o /\ call'[c].pkt # "none"
        /\ DOMAIN obj' = DOMAIN obj /\ call'[c].op = "accept" /\ call'[c].step = "pipe"
        /\ call'[c].file = obj[o].file /\ skip' = Windows!Skips(o) /\ obj[o].kind = "pipe"
    BY <1>24 DEF WPipeWait, Renews, Becomes, Edits
  <2>2. WinNamed(c)' /\ WinPackets(c)' /\ WinUndefined(c)'
    BY <2>1 DEF WinNamed, WinPackets, WinUndefined
  <2>3. 0 \in skip' => obj[o].file \in skip'
    BY <2>1, ModeTells
  <2>4. WinSkips(c)'
    BY <2>1, <2>3 DEF WinSkips
  <2> QED BY <1>5, <2>1, <2>2, <2>4 DEF WinCall
<1>25. ASSUME NEW o \in DOMAIN obj, WPipeClosed(o) PROVE \A d \in Pair : WinCall(d)'
  <2>1. ASSUME NEW d \in Pair, d \in Cancelled(o) PROVE WinCall(d)'
    <3>1. SameBut(d) /\ (call'[d].own => call[d].own)
      BY <1>25, <2>1 DEF WPipeClosed
    <3> QED BY <1>0, <3>1, WinCallKept
  <2>2. \A d \in Pair \ Cancelled(o) : call'[d] = call[d]
    BY <1>25 DEF WPipeClosed
  <2> QED BY <1>2, <2>1, <2>2
<1> QED
  BY <1>3, <1>4, <1>10, <1>11, <1>12, <1>13, <1>14, <1>15, <1>16, <1>17, <1>18, <1>19, <1>20, <1>21, <1>22, <1>23,
     <1>24, <1>25
  DEF WinStepOf, WWrapFile, WFreed, WReturn, WDrop, WHand, WPipeStale, WPipeHand, WFdopen, WMake, WSocketClosed,
      WTuned, WPipeFails, WPipeNow, WAccepted

\* Files are counted before calls have them.
LEMMA WinFiledStep ==
    ASSUME WinInv, NEW c \in Pair, WinStepOf(c)
    PROVE  Filed'
<1>0. /\ files \in Nat /\ \A d \in Pair : call[d].file \in Nat /\ call[d].file <= files
      /\ NoCall.file = 0
  <2>1. \A d \in Pair : call[d] \in CallRecord(LinuxFd)
    BY DEF WinInv, Typed
  <2>2. \A d \in Pair : call[d].file \in Nat
    BY <2>1 DEF CallRecord
  <2> QED BY <2>2, NoCallFields, LinuxZero DEF WinInv, Filed, Owned, Table
<1>1. \A o \in DOMAIN obj : obj[o].live => obj[o].file \in Nat /\ obj[o].file <= files
  BY DEF WinInv, Owned, Table, Holders, ObjectHolds
<1>2. ASSUME files' = files \/ files' = files + 1, Others(Pair, c), call'[c].file \in {0, call[c].file, files'}
      PROVE  Filed'
  BY <1>0, <1>2 DEF Filed, Others
<1>3. ASSUME NEW o \in DOMAIN obj, obj[o].live, files' = files \/ files' = files + 1, Others(Pair, c),
             call'[c].file = obj[o].file
      PROVE  Filed'
  BY <1>0, <1>1, <1>3 DEF Filed, Others
<1>10. CASE WPacket(c) \/ WNotOpened(c) \/ WJob(c) \/ WStarted(c) \/ WClosed(c) \/ WOverwrite(c) \/ WWait(c)
            \/ WUndefined(c) \/ WConnecting(c) \/ WFopen(c)
  <2>1. files' = files /\ Others(Pair, c) /\ call'[c].file \in {0, call[c].file}
    BY <1>10 DEF WPacket, WNotOpened, WJob, WStarted, WClosed, WOverwrite, WWait, WUndefined, WConnecting, WFopen,
                 Continues, Becomes, WKernel
  <2> QED BY <1>2, <2>1
<1>11. ASSUME NEW fd \in LinuxFd, \/ WOpened(c, fd) \/ WConnect(c, fd)
                                  \/ \E o \in DOMAIN obj : \E mode : WAccept(c, o, fd, mode)
       PROVE  Filed'
  <2>1. files' = files + 1 /\ Others(Pair, c) /\ call'[c].file = files'
    BY <1>11 DEF WOpened, WConnect, WAccept, Opened, Becomes
  <2> QED BY <1>2, <2>1
<1>12. ASSUME NEW o \in DOMAIN obj, \/ WFclose(c, o) \/ WPipeCloseUndefined(c, o) \/ \E op : WPool(c, op, o)
       PROVE  Filed'
  <2>1. files' = files /\ Others(Pair, c) /\ call'[c].file = obj[o].file /\ obj[o].live
    BY <1>12 DEF WFclose, WPipeCloseUndefined, WPool, Becomes, WKernel
  <2> QED BY <1>3, <2>1
<1>13. ASSUME NEW o \in DOMAIN obj, NEW mode, WUse(c, o, mode) \/ WAsk(c, o, mode) PROVE Filed'
  <2>1. files' = files /\ Others(Pair, c) /\ call'[c].file = obj[o].file /\ obj[o].live
    BY <1>13 DEF WUse, WAsk, Becomes
  <2> QED BY <1>3, <2>1
<1>14. ASSUME NEW o \in DOMAIN obj, NEW fd \in LinuxFd, WPipeUndefined(c, o, fd) \/ WPipeWait(c, o, fd) PROVE Filed'
  <2>1. files' = files + 1 /\ Others(Pair, c) /\ call'[c].file = obj[o].file /\ obj[o].live
    BY <1>14 DEF WPipeUndefined, WPipeWait, Renews, Becomes
  <2> QED BY <1>3, <2>1
<1>15. ASSUME Returns(Pair, c), files' = files \/ files' = files + 1 PROVE Filed'
  <2>1. Others(Pair, c) /\ call'[c].file = 0
    BY <1>0, <1>15 DEF Returns
  <2> QED BY <1>2, <1>15, <2>1
<1>16. ASSUME UNCHANGED call, files' = files \/ files' = files + 1 PROVE Filed'
  BY <1>0, <1>16 DEF Filed
<1>17. CASE WWrapFile(c) \/ WFreed(c) \/ WReturn(c) \/ WDrop(c) \/ (\E mode : WHand(c, mode))
            \/ (\E i : WPipeStale(c, i) \/ WPipeHand(c, i))
            \/ (\E o \in DOMAIN obj : \E mode : WTuned(c, o, mode))
            \/ (\E o \in DOMAIN obj : \E fd \in LinuxFd : \E mode : WAccepted(c, o, fd, mode))
  BY <1>15, <1>17 DEF WWrapFile, WFreed, WReturn, WDrop, WHand, WPipeStale, WPipeHand, WTuned, WAccepted, Opened, WKernel
<1>18. CASE (\E fd \in LinuxFd : WFdopen(fd) \/ \E kind : WMake(fd, kind)) \/ (\E o \in DOMAIN obj : WSocketClosed(o))
            \/ (\E o \in DOMAIN obj : \E fd \in LinuxFd : WPipeFails(c, o, fd) \/ WPipeNow(o, fd))
  BY <1>16, <1>18 DEF WFdopen, WMake, WSocketClosed, WPipeFails, WPipeNow, Renews, Opened
<1>19. ASSUME NEW o \in DOMAIN obj, WPipeClosed(o) PROVE Filed'
  <2>1. files' = files /\ \A d \in Pair : call'[d].file = call[d].file
    BY <1>19 DEF WPipeClosed, SameBut
  <2> QED BY <1>0, <2>1 DEF Filed
<1> QED
  BY <1>10, <1>11, <1>12, <1>13, <1>14, <1>17, <1>18, <1>19 DEF WinStepOf

\* What a transfer and an fopen mean, they have meant before.
LinkKept(d) ==
    /\ call'[d].step = "job" /\ call'[d].op = "transfer" =>
          call[d].step = "job" /\ call[d].op = "transfer" /\ call'[d].file = call[d].file
    /\ call'[d].op = "fopen" /\ call'[d].own =>
          call[d].op = "fopen" /\ call[d].own /\ call'[d].file = call[d].file

\* A read or write was sent for a file that was linked before.
LEMMA WinLinkedStep ==
    ASSUME WinInv, NEW c \in Pair, WinStepOf(c)
    PROVE  WinLinked'
<1>0. WinLinked /\ NoCall.step = "none" /\ NoCall.op = "none" /\ \A d \in Pair : WinShape(call[d])
  BY NoCallFields, LinuxZero DEF WinInv
<1>1. (\A d \in Pair : LinkKept(d)) => WinLinked'
  BY <1>0 DEF LinkKept, WinLinked
<1>2. Others(Pair, c) /\ LinkKept(c) => WinLinked'
  BY <1>1 DEF LinkKept, Others
<1>3. Returns(Pair, c) => WinLinked'
  BY <1>0, <1>2 DEF Returns, LinkKept
<1>4. UNCHANGED call => WinLinked'
  BY <1>1 DEF LinkKept
<1>10. CASE WPacket(c) \/ WNotOpened(c) \/ WJob(c) \/ WStarted(c) \/ WClosed(c) \/ WOverwrite(c) \/ WWait(c)
            \/ WUndefined(c) \/ WConnecting(c)
  <2>1. Others(Pair, c) /\ LinkKept(c)
    BY <1>0, <1>10 DEF WPacket, WNotOpened, WJob, WStarted, WClosed, WOverwrite, WWait, WUndefined, WConnecting,
                 Continues, Becomes, LinkKept, WinShape, WinOwn
  <2> QED BY <1>2, <2>1
<1>11. CASE WFopen(c) \/ \E fd \in LinuxFd : WConnect(c, fd)
  <2>1. Others(Pair, c) /\ LinkKept(c)
    BY <1>11 DEF WFopen, WConnect, Becomes, LinkKept
  <2> QED BY <1>2, <2>1
<1>12. ASSUME NEW fd \in LinuxFd, WOpened(c, fd) PROVE WinLinked'
  <2>1. /\ Others(Pair, c) /\ call'[c].op = "fopen" /\ call'[c].file = files + 1
    BY <1>12 DEF WOpened, Becomes
  <2>2. \A d \in Pair : call[d].file # files + 1
    <3>1. \A d \in Pair : call[d] \in CallRecord(LinuxFd)
      BY DEF WinInv, Typed
    <3>2. \A d \in Pair : call[d].file \in Nat
      BY <3>1 DEF CallRecord
    <3> QED BY <3>2 DEF WinInv, Filed, Owned, Table
  <2> QED BY <1>0, <2>1, <2>2 DEF WinLinked, Others
<1>13. ASSUME NEW o \in DOMAIN obj, NEW op, WPool(c, op, o) PROVE WinLinked'
  <2>1. /\ Others(Pair, c) /\ call'[c].op # "fopen" /\ call'[c].file = obj[o].file /\ obj[o].live
    BY <1>13 DEF WPool, Becomes
  <2>2. \A d \in Pair : call[d].own => call[d].file # obj[o].file
    <3>1. ObjectHolds(o, LinuxFd)
      BY <2>1 DEF WinInv, Owned, Holders
    <3>2. ASSUME NEW d \in Pair, call[d].own, call[d].file = obj[o].file PROVE FALSE
      <4>1. CallHolds(d, LinuxFd) /\ obj[o].fd # call[d].fd
        BY <2>1, <3>2 DEF WinInv, Owned, Holders
      <4> QED BY <3>1, <3>2, <4>1 DEF WinInv, Owned, Table, ObjectHolds, CallHolds
    <3> QED BY <3>2
  <2> QED BY <1>0, <2>1, <2>2 DEF WinLinked, Others
<1>14. ASSUME NEW o \in DOMAIN obj, \/ WFclose(c, o) \/ WPipeCloseUndefined(c, o)
                                    \/ \E mode : WUse(c, o, mode) \/ WAsk(c, o, mode)
       PROVE  WinLinked'
  <2>1. Others(Pair, c) /\ LinkKept(c)
    BY <1>14 DEF WFclose, WPipeCloseUndefined, WUse, WAsk, Becomes, LinkKept
  <2> QED BY <1>2, <2>1
<1>15. ASSUME NEW o \in DOMAIN obj, NEW fd \in LinuxFd,
              WPipeUndefined(c, o, fd) \/ WPipeWait(c, o, fd) \/ \E mode : WAccept(c, o, fd, mode)
       PROVE  WinLinked'
  <2>1. Others(Pair, c) /\ LinkKept(c)
    BY <1>15 DEF WPipeUndefined, WPipeWait, WAccept, Becomes, LinkKept
  <2> QED BY <1>2, <2>1
<1>16. ASSUME NEW o \in DOMAIN obj, WPipeClosed(o) PROVE WinLinked'
  <2>1. \A d \in Pair : LinkKept(d)
    BY <1>16 DEF WPipeClosed, SameBut, LinkKept
  <2> QED BY <1>1, <2>1
<1> QED
  BY <1>3, <1>4, <1>10, <1>11, <1>12, <1>13, <1>14, <1>15, <1>16
  DEF WinStepOf, WWrapFile, WFreed, WReturn, WDrop, WHand, WPipeStale, WPipeHand, WFdopen, WMake, WSocketClosed,
      WTuned, WPipeFails, WPipeNow, WAccepted

\* A mode that is true of the handle of that file.
TrueMode(file, mode) ==
    /\ mode \in {"unknown", "skip", "always"}
    /\ mode = "skip" => 0 \in skip' /\ file \in skip'
    /\ mode = "always" => 0 \notin skip'

\* The mode that a new file is given is true of it.
LEMMA InitModeIsTrue ==
    ASSUME NEW file, skip' = Windows!Skip(file)
    PROVE  TrueMode(file, Windows!InitMode) /\ Windows!InitMode # "unknown"
  BY DEF TrueMode, Windows!InitMode, Windows!Skip

\* The mode that a call gives the socket it makes is true of it.
LEMMA ModeOfIsTrue ==
    ASSUME 0 \notin skip => skip = {}, NEW file, 0 \in skip => file \in skip, UNCHANGED skip
    PROVE  TrueMode(file, ModeOf(file))
  BY DEF TrueMode, ModeOf

\* The mode that is found out later is true of its object.
LEMMA ModeIsTrue ==
    ASSUME NEW o, WinMode(o), obj[o].kind # "none", skip' = Windows!Skips(o)
    PROVE  TrueMode(obj[o].file, Windows!Mode(o)) /\ Windows!Mode(o) # "unknown"
  BY DEF TrueMode, WinMode, Windows!Mode, Windows!InitMode, Windows!Skips, Windows!Skip

\* An object that does not change keeps a true mode.
LEMMA WinModeKept ==
    ASSUME NEW p, WinMode(p), skip \subseteq skip', 0 \in skip' <=> 0 \in skip, obj'[p] = obj[p]
    PROVE  WinMode(p)'
  BY DEF WinMode, Entries

\* An object whose mode is told anew.
LEMMA WinModeSet ==
    ASSUME NEW p, NEW file, NEW mode, TrueMode(file, mode), obj'[p].mode = mode, obj'[p].file = file,
           obj'[p].mem, obj'[p].kind # "none", obj'[p].kind = "file" => mode # "unknown",
           obj'[p].kind # "pipe" => obj'[p].acceptors = <<>>
    PROVE  WinMode(p)'
  BY DEF WinMode, Entries, TrueMode

\* Every step keeps the modes true.
LEMMA WinModeStep ==
    ASSUME WinInv, NEW c \in Pair, WinStepOf(c)
    PROVE  \A o \in DOMAIN obj' : WinMode(o)'
<1>0. /\ skip \subseteq skip' /\ (0 \in skip' <=> 0 \in skip) /\ (0 \notin skip => skip = {})
      /\ \A o \in DOMAIN obj : WinMode(o)
  BY WinSkipStep DEF WinInv
<1>1. ASSUME NEW p \in DOMAIN obj, obj'[p] = obj[p] PROVE WinMode(p)'
  BY <1>0, <1>1, WinModeKept
<1>2. UNCHANGED obj => \A o \in DOMAIN obj' : WinMode(o)'
  BY <1>1
<1>3. ASSUME NEW n, NEW kind \in {"file", "ws", "pipe"}, NEW fd, NEW file, NEW mode, Grown(n, kind, fd, file, mode),
             TrueMode(file, mode), kind = "file" => mode # "unknown"
      PROVE  \A o \in DOMAIN obj' : WinMode(o)'
  <2>1. /\ obj'[n].mode = mode /\ obj'[n].file = file /\ obj'[n].mem /\ obj'[n].kind = kind
        /\ obj'[n].acceptors = <<>>
    BY <1>3 DEF Grown
  <2>2. WinMode(n)'
    BY <1>3, <2>1, WinModeSet
  <2> QED BY <1>1, <1>3, <2>2 DEF Grown
<1>4. ASSUME NEW o \in DOMAIN obj, Shuts(o) \/ Frees(o) PROVE \A p \in DOMAIN obj' : WinMode(p)'
  <2>1. CASE Frees(o)
    <3>1. WinMode(o)'
      BY <2>1 DEF Frees, WinMode, Entries
    <3> QED BY <1>1, <2>1, <3>1 DEF Frees
  <2>2. CASE Shuts(o)
    <3>1. WinMode(o)'
      BY <1>0, <2>2 DEF Shuts, WinMode, Entries
    <3> QED BY <1>1, <2>2, <3>1 DEF Shuts
  <2> QED BY <1>4, <2>1, <2>2
<1>5. ASSUME NEW o \in DOMAIN obj, NEW mode, obj'[o].kind = obj[o].kind, obj'[o].live = obj[o].live,
             obj'[o].mem = obj[o].mem, obj'[o].file = obj[o].file, obj'[o].mode = mode,
             obj'[o].acceptors = obj[o].acceptors, TunesTo(o, mode)
      PROVE  WinMode(o)'
  <2>1. CASE mode = obj[o].mode
    BY <1>0, <1>5, <2>1 DEF WinMode, Entries
  <2>2. CASE obj[o].live /\ mode = Windows!Mode(o) /\ skip' = Windows!Skips(o)
    <3>1. obj[o].mem /\ obj[o].kind # "none" /\ (obj[o].kind # "pipe" => obj[o].acceptors = <<>>)
      BY <1>0, <2>2 DEF WinMode, Entries
    <3>2. TrueMode(obj[o].file, mode) /\ mode # "unknown"
      BY <1>0, <2>2, <3>1, ModeIsTrue
    <3>3. PICK file : file = obj[o].file
      OBVIOUS
    <3> QED BY <1>5, <3>1, <3>2, <3>3, WinModeSet
  <2> QED BY <1>5, <2>1, <2>2 DEF TunesTo
<1>6. ASSUME NEW o \in DOMAIN obj, NEW mode, Tunes(o, mode) PROVE \A p \in DOMAIN obj' : WinMode(p)'
  <2>1. WinMode(o)'
    BY <1>5, <1>6 DEF Tunes, Edits, Entries
  <2> QED BY <1>1, <1>6, <2>1 DEF Tunes, Edits
<1>10. CASE \/ WPacket(c) \/ WFopen(c) \/ WNotOpened(c) \/ WJob(c) \/ WStarted(c) \/ WClosed(c)
            \/ WReturn(c) \/ WOverwrite(c) \/ WWait(c) \/ WUndefined(c) \/ WDrop(c) \/ WConnecting(c)
            \/ (\E fd \in LinuxFd : WOpened(c, fd) \/ WConnect(c, fd))
            \/ (\E o \in DOMAIN obj : \E op : WPool(c, op, o))
  <2>1. UNCHANGED obj
    BY <1>10 DEF WPacket, WFopen, WNotOpened, WJob, WStarted, WClosed, WReturn, WOverwrite, WWait, WUndefined,
                 WDrop, WConnecting, WOpened, WConnect, WPool
  <2> QED BY <1>2, <2>1
<1>11. ASSUME NEW fd \in LinuxFd, WFdopen(fd) PROVE \A o \in DOMAIN obj' : WinMode(o)'
  <2>1. PICK n, file, mode : n = Len(obj) + 1 /\ file = files + 1 /\ mode = Windows!InitMode
    OBVIOUS
  <2>2. Grown(n, "file", fd, file, mode) /\ TrueMode(file, mode) /\ mode # "unknown"
    BY <1>11, <2>1, InitModeIsTrue DEF WFdopen
  <2> QED BY <1>3, <2>2
<1>12. CASE WWrapFile(c)
  <2>1. PICK n, fd, file, mode : n = Len(obj) + 1 /\ fd = call[c].fd /\ file = call[c].file /\ mode = Windows!InitMode
    OBVIOUS
  <2>2. Grown(n, "file", fd, file, mode) /\ TrueMode(file, mode) /\ mode # "unknown"
    BY <1>12, <2>1, InitModeIsTrue DEF WWrapFile
  <2> QED BY <1>3, <2>2
<1>13. ASSUME NEW fd \in LinuxFd, NEW kind, WMake(fd, kind) PROVE \A o \in DOMAIN obj' : WinMode(o)'
  <2>1. PICK n, file : n = Len(obj) + 1 /\ file = files + 1
    OBVIOUS
  <2>2. Grown(n, kind, fd, file, "unknown") /\ TrueMode(file, "unknown") /\ kind \in {"ws", "pipe"}
    BY <1>13, <2>1 DEF WMake, TrueMode
  <2> QED BY <1>3, <2>2
<1>14. ASSUME NEW mode, WHand(c, mode) PROVE \A o \in DOMAIN obj' : WinMode(o)'
  <2>1. PICK n, fd, file : n = Len(obj) + 1 /\ fd = call[c].fd /\ file = call[c].file
    OBVIOUS
  <2>2. Grown(n, "ws", fd, file, mode) /\ UNCHANGED skip
    BY <1>14, <2>1 DEF WHand, WKernel
  <2>3. TrueMode(file, mode)
    <3>1. CASE mode = "unknown"
      BY <3>1 DEF TrueMode
    <3>2. CASE call[c].op = "connect" /\ mode = ModeOf(file)
      <4>1. 0 \in skip => file \in skip
        BY <2>1, <3>2 DEF WinInv, WinSkips
      <4> QED BY <1>0, <2>2, <3>2, <4>1, ModeOfIsTrue
    <3> QED BY <1>14, <2>1, <3>1, <3>2 DEF WHand
  <2> QED BY <1>3, <2>2, <2>3
<1>15. CASE WFreed(c)
  <2>1. call[c].o \in DOMAIN obj
    BY <1>15 DEF WFreed, WinInv, WinNamed, WinShape
  <2> QED BY <1>4, <1>15, <2>1 DEF WFreed
<1>16. ASSUME NEW o \in DOMAIN obj, WFclose(c, o) \/ WPipeCloseUndefined(c, o) \/ WSocketClosed(o) \/ WPipeClosed(o)
       PROVE  \A p \in DOMAIN obj' : WinMode(p)'
  BY <1>4, <1>16 DEF WFclose, WPipeCloseUndefined, WSocketClosed, WPipeClosed
<1>17. ASSUME NEW o \in DOMAIN obj, NEW mode, \/ WUse(c, o, mode) \/ WTuned(c, o, mode) \/ WAsk(c, o, mode)
                                             \/ \E fd \in LinuxFd : WAccept(c, o, fd, mode)
       PROVE  \A p \in DOMAIN obj' : WinMode(p)'
  BY <1>6, <1>17 DEF WUse, WTuned, WAsk, WAccept
<1>18. ASSUME NEW o \in DOMAIN obj, NEW fd \in LinuxFd, NEW mode, WAccepted(c, o, fd, mode)
       PROVE  \A p \in DOMAIN obj' : WinMode(p)'
  <2>1. PICK n, file : n = Len(obj) + 1 /\ file = files + 1
    OBVIOUS
  <2>2. TunesTo(o, mode) /\ EditsGrown(o, obj[o].fd, obj[o].file, mode, Entries(o), n, "ws", fd, file, "unknown")
    BY <1>18, <2>1 DEF WAccepted
  <2>3. WinMode(o)'
    BY <1>5, <2>2 DEF EditsGrown, Entries
  <2>4. TrueMode(file, "unknown")
    BY DEF TrueMode
  <2>5. WinMode(n)'
    BY <2>2, <2>4, WinModeSet DEF EditsGrown
  <2> QED BY <1>1, <2>2, <2>3, <2>5 DEF EditsGrown
<1>19. ASSUME NEW o \in DOMAIN obj, NEW fd \in LinuxFd,
              WPipeFails(c, o, fd) \/ WPipeUndefined(c, o, fd) \/ WPipeWait(c, o, fd)
       PROVE  \A p \in DOMAIN obj' : WinMode(p)'
  <2>1. PICK list : Edits(o, fd, files + 1, "unknown", list) /\ obj[o].live /\ obj[o].kind = "pipe"
    BY <1>19 DEF WPipeFails, WPipeUndefined, WPipeWait, Renews
  <2>2. WinMode(o)'
    BY <1>0, <2>1 DEF Edits, WinMode
  <2> QED BY <1>1, <2>1, <2>2 DEF Edits
<1>20. ASSUME NEW o \in DOMAIN obj, NEW fd \in LinuxFd, WPipeNow(o, fd) PROVE \A p \in DOMAIN obj' : WinMode(p)'
  <2>1. PICK n, file, mode : n = Len(obj) + 1 /\ file = obj[o].file /\ mode = Windows!Mode(o)
    OBVIOUS
  <2>2. /\ EditsGrown(o, fd, files + 1, "unknown", Entries(o), n, "pipe", obj[o].fd, file, mode)
        /\ obj[o].live /\ obj[o].kind = "pipe" /\ skip' = Windows!Skips(o)
    BY <1>20, <2>1 DEF WPipeNow, Renews
  <2>3. WinMode(o)'
    BY <1>0, <2>2 DEF EditsGrown, WinMode
  <2>4. TrueMode(file, mode)
    BY <1>0, <2>1, <2>2, ModeIsTrue
  <2>5. WinMode(n)'
    BY <2>2, <2>4, WinModeSet DEF EditsGrown
  <2> QED BY <1>1, <2>2, <2>3, <2>5 DEF EditsGrown
<1>21. ASSUME NEW i, WPipeStale(c, i) \/ WPipeHand(c, i) PROVE \A p \in DOMAIN obj' : WinMode(p)'
  <2>1. PICK o, n, file, mode : o = call[c].o /\ n = Len(obj) + 1 /\ file = call[c].file /\ mode = ModeOf(file)
    OBVIOUS
  <2>2. o \in DOMAIN obj /\ HasEntry(c, i) /\ UNCHANGED skip
    BY <1>21, <2>1 DEF WPipeStale, WPipeHand, HasEntry, WinInv, WinShape, WinNamed, WKernel
  <2>3. obj[o].kind = "pipe" /\ WinMode(o)
    <3>1. Entries(o) \in Seq([c : Pair, stale : BOOLEAN]) /\ i \in DOMAIN Entries(o)
      BY <2>1, <2>2, EntryFacts DEF HasEntry, WinInv
    <3>2. Entries(o) # <<>>
      BY <3>1
    <3> QED BY <1>0, <2>2, <3>2 DEF WinMode
  <2>4. TrueMode(file, mode)
    <3>1. 0 \in skip => file \in skip
      BY <2>1, <2>2 DEF HasEntry, WinInv, WinSkips
    <3> QED BY <1>0, <2>1, <2>2, <3>1, ModeOfIsTrue
  <2>5. CASE WPipeStale(c, i)
    <3>1. PICK list : Edits(o, obj[o].fd, obj[o].file, obj[o].mode, list)
      BY <2>1, <2>5 DEF WPipeStale
    <3>2. WinMode(o)'
      BY <2>2, <2>3, <3>1 DEF Edits, WinMode
    <3> QED BY <1>1, <3>1, <3>2 DEF Edits
  <2>6. CASE WPipeHand(c, i)
    <3>1. PICK list : EditsGrown(o, obj[o].fd, obj[o].file, obj[o].mode, list, n, "pipe", call[c].fd, file, mode)
      BY <2>1, <2>6 DEF WPipeHand
    <3>2. WinMode(o)'
      BY <2>2, <2>3, <3>1 DEF EditsGrown, WinMode
    <3>3. WinMode(n)'
      BY <2>4, <3>1, WinModeSet DEF EditsGrown
    <3> QED BY <1>1, <3>1, <3>2, <3>3 DEF EditsGrown
  <2> QED BY <1>21, <2>5, <2>6
<1> QED
  BY <1>10, <1>11, <1>12, <1>13, <1>14, <1>15, <1>16, <1>17, <1>18, <1>19, <1>20, <1>21 DEF WinStepOf

\* A call whose entry stays valid.
Follows(d) ==
    /\ call'[d].step = call[d].step
    /\ call'[d].o = call[d].o
    /\ call[d].own => call'[d].own \/ (Stale(call[d].o) /\ call'[d].at = "undefined")
    /\ call[d].at = "undefined" => call'[d].at = "undefined"

\* A call that waits in a list was there before.
Waited(d) ==
    call'[d].step = "pipe" /\ call'[d].own => call[d].step = "pipe" /\ call[d].own /\ call'[d].o = call[d].o

\* Only stale entries name d.
NoEntry(d) == \A p \in DOMAIN obj : \A i \in DOMAIN Entries(p) : ~Entries(p)[i].stale => Entries(p)[i].c # d

\* The lists and the calls in them agree.
WinLists == (\A o \in DOMAIN obj : WinEntries(o)) /\ (\A d \in Pair : WinListed(d))

\* The lists stay, and new objects have empty ones.
ListsSame ==
    /\ DOMAIN obj \subseteq DOMAIN obj'
    /\ \A p \in DOMAIN obj : obj'[p].acceptors = obj[p].acceptors
    /\ \A p \in DOMAIN obj' \ DOMAIN obj : obj'[p].acceptors = <<>>

\* A call that does not wait in a list has no entry but stale ones.
LEMMA WithoutEntry ==
    ASSUME WinInv, NEW d \in Pair, call[d].step # "pipe" \/ (~call[d].own /\ call[d].at # "undefined")
    PROVE  NoEntry(d)
  BY DEF WinInv, WinEntries, NoEntry

\* The list of one object stays, and its entries valid.
LEMMA EntriesKept ==
    ASSUME NEW p, WinEntries(p), obj'[p].acceptors = obj[p].acceptors,
           \A i \in DOMAIN Entries(p) : ~Entries(p)[i].stale => Follows(Entries(p)[i].c)
    PROVE  WinEntries(p)'
<1>1. \A i \in DOMAIN Entries(p) : ~Entries(p)[i].stale =>
          /\ call'[Entries(p)[i].c].o = p
          /\ call'[Entries(p)[i].c].step = "pipe"
          /\ call'[Entries(p)[i].c].own \/ (Stale(p) /\ call'[Entries(p)[i].c].at = "undefined")
  BY DEF WinEntries, Follows
<1> QED BY <1>1 DEF WinEntries, Entries, Stale

\* There is nothing to say of an empty list.
LEMMA EmptyEntries ==
    ASSUME NEW p, obj'[p].acceptors = <<>>
    PROVE  WinEntries(p)'
  BY DEF WinEntries, Entries

\* The list of the object of d still has the entry of d.
LEMMA ListedKept ==
    ASSUME NEW d \in Pair, WinListed(d), Waited(d),
           \A i \in DOMAIN Entries(call[d].o) : Entries(call[d].o)[i] = [c |-> d, stale |-> FALSE]
              /\ call'[d].step = "pipe" /\ call'[d].own =>
              \E j \in DOMAIN obj'[call[d].o].acceptors : obj'[call[d].o].acceptors[j] = [c |-> d, stale |-> FALSE]
    PROVE  WinListed(d)'
  BY DEF WinListed, Waited, Entries

\* Lists that stay agree with calls whose entries stay valid.
LEMMA ListsKept ==
    ASSUME WinInv, ListsSame, \A d \in Pair : Waited(d) /\ (Follows(d) \/ NoEntry(d))
    PROVE  WinLists'
<1>1. ASSUME NEW p \in DOMAIN obj PROVE WinEntries(p)'
  <2>1. WinEntries(p) /\ obj'[p].acceptors = obj[p].acceptors
    BY DEF WinInv, ListsSame
  <2>2. \A i \in DOMAIN Entries(p) : Entries(p)[i].c \in Pair
    BY EntryFacts DEF WinInv
  <2>3. \A i \in DOMAIN Entries(p) : ~Entries(p)[i].stale => Follows(Entries(p)[i].c)
    BY <2>2 DEF NoEntry
  <2> QED BY <2>1, <2>3, EntriesKept
<1>2. ASSUME NEW p \in DOMAIN obj' PROVE WinEntries(p)'
  BY <1>1, EmptyEntries DEF ListsSame
<1>3. ASSUME NEW d \in Pair PROVE WinListed(d)'
  <2>1. WinListed(d) /\ (call[d].o # 0 => call[d].o \in DOMAIN obj) /\ (call[d].step = "pipe" => call[d].o # 0)
    BY DEF WinInv, WinNamed, WinShape
  <2>2. call[d].step = "pipe" => obj'[call[d].o].acceptors = Entries(call[d].o)
    BY <2>1 DEF ListsSame, Entries
  <2>3. \A i \in DOMAIN Entries(call[d].o) : Entries(call[d].o)[i] = [c |-> d, stale |-> FALSE]
              /\ call'[d].step = "pipe" /\ call'[d].own =>
              \E j \in DOMAIN obj'[call[d].o].acceptors : obj'[call[d].o].acceptors[j] = [c |-> d, stale |-> FALSE]
    BY <2>2 DEF Waited
  <2> QED BY <2>1, <2>3, ListedKept
<1> QED BY <1>2, <1>3 DEF WinLists

\* These changes to objects leave the lists alone.
LEMMA ListsSameFacts ==
    /\ UNCHANGED obj => ListsSame
    /\ \A n, kind, fd, file, mode : Grown(n, kind, fd, file, mode) => ListsSame
    /\ \A o \in DOMAIN obj : Shuts(o) => ListsSame
    /\ \A o \in DOMAIN obj : Frees(o) /\ Entries(o) = <<>> => ListsSame
    /\ \A o \in DOMAIN obj : \A fd, file, mode : Edits(o, fd, file, mode, Entries(o)) => ListsSame
    /\ \A o \in DOMAIN obj : \A fd, file, mode, n, kind, nfd, nfile, nmode :
          EditsGrown(o, fd, file, mode, Entries(o), n, kind, nfd, nfile, nmode) => ListsSame
<1>1. \A n, kind, fd, file, mode : Grown(n, kind, fd, file, mode) => ListsSame
  BY DEF Grown, ListsSame
<1>2. \A o \in DOMAIN obj : (Shuts(o) => ListsSame) /\ (Frees(o) /\ Entries(o) = <<>> => ListsSame)
  BY DEF Shuts, Frees, ListsSame, Entries
<1>3. \A o \in DOMAIN obj : \A fd, file, mode : Edits(o, fd, file, mode, Entries(o)) => ListsSame
  BY DEF Edits, ListsSame, Entries
<1>4. \A o \in DOMAIN obj : \A fd, file, mode, n, kind, nfd, nfile, nmode :
          EditsGrown(o, fd, file, mode, Entries(o), n, kind, nfd, nfile, nmode) => ListsSame
  BY DEF EditsGrown, ListsSame, Entries
<1> QED BY <1>1, <1>2, <1>3, <1>4 DEF ListsSame

\* An entry is put at the end of a list.
LEMMA ListAppend ==
    ASSUME WinInv, NEW o \in DOMAIN obj, NEW e \in [c : Pair, stale : BOOLEAN], DOMAIN obj' = DOMAIN obj,
           \A p \in DOMAIN obj \ {o} : obj'[p] = obj[p], obj'[o].acceptors = Append(Entries(o), e),
           \A d \in Pair : Follows(d) \/ NoEntry(d),
           \A d \in Pair : (d = e.c /\ ~e.stale) \/ Waited(d),
           ~e.stale => NoEntry(e.c) /\ call'[e.c].o = o /\ call'[e.c].step = "pipe" /\ call'[e.c].own
    PROVE  WinLists'
<1>0. /\ Entries(o) \in Seq([c : Pair, stale : BOOLEAN])
      /\ \A p \in DOMAIN obj : \A i \in DOMAIN Entries(p) : Entries(p)[i].c \in Pair
      /\ \A p \in DOMAIN obj : WinEntries(p)
  BY EntryFacts DEF WinInv
<1>1. PICK q, u, n : q = Entries(o) /\ u = obj'[o].acceptors /\ n = Len(q) + 1
  OBVIOUS
<1>2. n \notin DOMAIN q /\ DOMAIN u = DOMAIN q \cup {n} /\ (\A i \in DOMAIN q : u[i] = q[i]) /\ u[n] = e
  <2>1. q \in Seq([c : Pair, stale : BOOLEAN]) /\ u = Append(q, e)
    BY <1>0, <1>1
  <2> QED BY <1>1, <2>1, AppendFacts
<1>3. \A p \in DOMAIN obj : \A i \in DOMAIN Entries(p) : ~Entries(p)[i].stale => Follows(Entries(p)[i].c)
  BY <1>0 DEF NoEntry
<1>4. ASSUME NEW p \in DOMAIN obj \ {o} PROVE WinEntries(p)'
  <2>1. obj'[p].acceptors = obj[p].acceptors
    OBVIOUS
  <2> QED BY <1>0, <1>3, <2>1, EntriesKept
<1>5. Stale(o) => StaleIn(u)
  BY <1>1, <1>2 DEF Stale, StaleIn
<1>6. \A i \in DOMAIN q : ~q[i].stale =>
          /\ call'[q[i].c].o = o
          /\ call'[q[i].c].step = "pipe"
          /\ call'[q[i].c].own \/ (StaleIn(u) /\ call'[q[i].c].at = "undefined")
  BY <1>0, <1>1, <1>3, <1>5 DEF WinEntries, Follows
<1>7. \A i \in DOMAIN u : ~u[i].stale =>
          /\ call'[u[i].c].o = o
          /\ call'[u[i].c].step = "pipe"
          /\ call'[u[i].c].own \/ (StaleIn(u) /\ call'[u[i].c].at = "undefined")
  BY <1>2, <1>6
<1>8. \A i, j \in DOMAIN u : ~u[i].stale /\ ~u[j].stale /\ u[i].c = u[j].c => i = j
  <2>1. \A i, j \in DOMAIN q : ~q[i].stale /\ ~q[j].stale /\ q[i].c = q[j].c => i = j
    BY <1>0, <1>1 DEF WinEntries
  <2>2. ~e.stale => \A i \in DOMAIN q : ~q[i].stale => q[i].c # e.c
    BY <1>1 DEF NoEntry
  <2> QED BY <1>2, <2>1, <2>2
<1>9. WinEntries(o)'
  BY <1>1, <1>7, <1>8 DEF WinEntries, Entries, Stale, StaleIn
<1>10. ASSUME NEW d \in Pair PROVE WinListed(d)'
  <2>1. CASE d = e.c /\ ~e.stale
    <3>1. e = [c |-> d, stale |-> FALSE]
      BY <2>1
    <3> QED BY <1>1, <1>2, <2>1, <3>1 DEF WinListed, Entries
  <2>2. CASE Waited(d)
    <3>1. WinListed(d) /\ (call[d].o # 0 => call[d].o \in DOMAIN obj) /\ (call[d].step = "pipe" => call[d].o # 0)
      BY DEF WinInv, WinNamed, WinShape
    <3>2. ASSUME NEW i \in DOMAIN Entries(call[d].o), Entries(call[d].o)[i] = [c |-> d, stale |-> FALSE],
                 call'[d].step = "pipe", call'[d].own
          PROVE  \E j \in DOMAIN obj'[call[d].o].acceptors : obj'[call[d].o].acceptors[j] = [c |-> d, stale |-> FALSE]
      <4>1. call[d].o \in DOMAIN obj
        BY <2>2, <3>1, <3>2 DEF Waited
      <4>2. CASE call[d].o = o
        <5>1. i \in DOMAIN q /\ q[i] = [c |-> d, stale |-> FALSE] /\ obj'[call[d].o].acceptors = u
          BY <1>1, <3>2, <4>2
        <5>2. i \in DOMAIN u /\ u[i] = [c |-> d, stale |-> FALSE]
          BY <1>2, <5>1
        <5> QED BY <5>1, <5>2
      <4>3. CASE call[d].o # o
        BY <3>2, <4>1, <4>3 DEF Entries
      <4> QED BY <4>2, <4>3
    <3> QED BY <2>2, <3>1, <3>2, ListedKept
  <2> QED BY <2>1, <2>2
<1> QED BY <1>4, <1>9, <1>10 DEF WinLists

\* The entry of c is taken out of its list, or is left there stale.
LEMMA ListRemove ==
    ASSUME WinInv, NEW c \in Pair, NEW i, HasEntry(c, i), Returns(Pair, c), NEW o, o = call[c].o,
           DOMAIN obj \subseteq DOMAIN obj', \A p \in DOMAIN obj \ {o} : obj'[p] = obj[p],
           \A p \in DOMAIN obj' \ DOMAIN obj : obj'[p].acceptors = <<>>,
           \/ obj'[o].acceptors = [Entries(o) EXCEPT ![i] = [c |-> c, stale |-> TRUE]]
           \/ obj'[o].acceptors = Without(Entries(o), i)
    PROVE  WinLists'
<1>0. /\ o \in DOMAIN obj /\ i \in DOMAIN Entries(o) /\ Entries(o)[i] = [c |-> c, stale |-> FALSE]
      /\ Entries(o) \in Seq([c : Pair, stale : BOOLEAN])
      /\ \A p \in DOMAIN obj : \A j \in DOMAIN Entries(p) : Entries(p)[j].c \in Pair
      /\ \A p \in DOMAIN obj : WinEntries(p)
      /\ call'[c].step = "none" /\ \A d \in Pair \ {c} : call'[d] = call[d]
  <2>1. o \in DOMAIN obj
    BY DEF WinInv, WinNamed, WinShape, HasEntry
  <2> QED BY <2>1, EntryFacts, NoCallFields, LinuxZero DEF WinInv, HasEntry, Returns, Others
<1>1. PICK q, u : q = Entries(o) /\ u = obj'[o].acceptors
  OBVIOUS
<1>2. /\ \A j \in DOMAIN u : u[j].stale \/ \E k \in DOMAIN q : k # i /\ u[j] = q[k]
      /\ \A k \in DOMAIN q \ {i} : \E j \in DOMAIN u : u[j] = q[k]
      /\ \A j, k \in DOMAIN u : u[j].stale \/ u[k].stale \/ \E a, b \in DOMAIN q :
            a # i /\ b # i /\ u[j] = q[a] /\ u[k] = q[b] /\ (a = b => j = k)
  <2>1. CASE u = [q EXCEPT ![i] = [c |-> c, stale |-> TRUE]]
    <3>1. DOMAIN u = DOMAIN q /\ u[i].stale /\ \A j \in DOMAIN q \ {i} : u[j] = q[j]
      BY <1>0, <1>1, <2>1
    <3> QED BY <3>1
  <2>2. CASE u = Without(q, i)
    <3>1. q \in Seq([c : Pair, stale : BOOLEAN]) /\ i \in DOMAIN q
      BY <1>0, <1>1
    <3>2. /\ \A j \in DOMAIN u : \E k \in DOMAIN q : k # i /\ u[j] = q[k]
          /\ \A k \in DOMAIN q \ {i} : \E j \in DOMAIN u : u[j] = q[k]
          /\ \A j, k \in DOMAIN u : \E a, b \in DOMAIN q :
                a # i /\ b # i /\ u[j] = q[a] /\ u[k] = q[b] /\ (a = b => j = k)
      BY <2>2, <3>1, WithoutFacts
    <3> QED BY <3>2
  <2> QED BY <1>1, <2>1, <2>2
<1>3. \A k \in DOMAIN q : ~q[k].stale /\ k # i => q[k].c \in Pair \ {c}
  BY <1>0, <1>1 DEF WinEntries
<1>4. ASSUME NEW p \in DOMAIN obj \ {o} PROVE WinEntries(p)'
  <2>1. obj'[p].acceptors = obj[p].acceptors
    OBVIOUS
  <2>2. \A j \in DOMAIN Entries(p) : ~Entries(p)[j].stale => Entries(p)[j].c \in Pair \ {c}
    BY <1>0 DEF WinEntries
  <2>3. \A j \in DOMAIN Entries(p) : ~Entries(p)[j].stale => Follows(Entries(p)[j].c)
    BY <1>0, <2>2 DEF Follows
  <2> QED BY <1>0, <2>1, <2>3, EntriesKept
<1>5. Stale(o) => StaleIn(u)
  <2>1. ~q[i].stale
    BY <1>0, <1>1
  <2>2. ASSUME NEW k \in DOMAIN q, q[k].stale PROVE \E j \in DOMAIN u : u[j].stale
    <3>1. k \in DOMAIN q \ {i}
      BY <2>1, <2>2
    <3>2. PICK j \in DOMAIN u : u[j] = q[k]
      BY <1>2, <3>1
    <3> QED BY <2>2, <3>2
  <2> QED BY <1>1, <2>2 DEF Stale, StaleIn
<1>6. \A k \in DOMAIN q \ {i} : ~q[k].stale =>
          /\ call'[q[k].c].o = o
          /\ call'[q[k].c].step = "pipe"
          /\ call'[q[k].c].own \/ (StaleIn(u) /\ call'[q[k].c].at = "undefined")
  BY <1>0, <1>1, <1>3, <1>5 DEF WinEntries
<1>7. \A j \in DOMAIN u : ~u[j].stale =>
          /\ call'[u[j].c].o = o
          /\ call'[u[j].c].step = "pipe"
          /\ call'[u[j].c].own \/ (StaleIn(u) /\ call'[u[j].c].at = "undefined")
  <2> SUFFICES ASSUME NEW j \in DOMAIN u, ~u[j].stale
               PROVE  /\ call'[u[j].c].o = o
                      /\ call'[u[j].c].step = "pipe"
                      /\ call'[u[j].c].own \/ (StaleIn(u) /\ call'[u[j].c].at = "undefined")
    OBVIOUS
  <2>1. PICK k \in DOMAIN q : k # i /\ u[j] = q[k]
    BY <1>2
  <2> QED BY <1>6, <2>1
<1>8. \A j, k \in DOMAIN u : ~u[j].stale /\ ~u[k].stale /\ u[j].c = u[k].c => j = k
  <2>1. \A a, b \in DOMAIN q : ~q[a].stale /\ ~q[b].stale /\ q[a].c = q[b].c => a = b
    BY <1>0, <1>1 DEF WinEntries
  <2> SUFFICES ASSUME NEW j \in DOMAIN u, NEW k \in DOMAIN u, ~u[j].stale, ~u[k].stale, u[j].c = u[k].c PROVE j = k
    OBVIOUS
  <2>2. PICK a, b \in DOMAIN q : a # i /\ b # i /\ u[j] = q[a] /\ u[k] = q[b] /\ (a = b => j = k)
    BY <1>2
  <2> QED BY <2>1, <2>2
<1>9. WinEntries(o)'
  BY <1>1, <1>7, <1>8, ZenonT(30) DEF WinEntries, Entries, Stale, StaleIn
<1>10. ASSUME NEW p \in DOMAIN obj' PROVE WinEntries(p)'
  BY <1>4, <1>9, EmptyEntries
<1>11. ASSUME NEW d \in Pair PROVE WinListed(d)'
  <2>1. CASE d = c
    BY <1>0, <2>1 DEF WinListed
  <2>2. CASE d # c
    <3>1. WinListed(d) /\ (call[d].o # 0 => call[d].o \in DOMAIN obj) /\ (call[d].step = "pipe" => call[d].o # 0)
      BY DEF WinInv, WinNamed, WinShape
    <3>2. call'[d] = call[d] /\ Waited(d)
      BY <1>0, <2>2 DEF Waited
    <3>3. ASSUME NEW k \in DOMAIN Entries(call[d].o), Entries(call[d].o)[k] = [c |-> d, stale |-> FALSE],
                 call'[d].step = "pipe", call'[d].own
          PROVE  \E j \in DOMAIN obj'[call[d].o].acceptors : obj'[call[d].o].acceptors[j] = [c |-> d, stale |-> FALSE]
      <4>1. call[d].o \in DOMAIN obj
        BY <3>1, <3>2, <3>3
      <4>2. CASE call[d].o = o
        <5>1. k \in DOMAIN q /\ q[k] = [c |-> d, stale |-> FALSE] /\ q[i] = [c |-> c, stale |-> FALSE]
          BY <1>0, <1>1, <3>3, <4>2
        <5>2. k # i
          <6>1. q[k].c = d /\ q[i].c = c
            BY <5>1
          <6> QED BY <2>2, <6>1
        <5> QED BY <1>1, <1>2, <4>2, <5>1, <5>2, SMTT(30)
      <4>3. CASE call[d].o # o
        BY <3>3, <4>1, <4>3 DEF Entries
      <4> QED BY <4>2, <4>3
    <3> QED BY <3>1, <3>2, <3>3, ListedKept
  <2> QED BY <2>1, <2>2
<1> QED BY <1>10, <1>11 DEF WinLists

\* The list of a pipe that is closed is gone, and so are the calls in it.
LEMMA ListClose ==
    ASSUME WinInv, NEW o \in DOMAIN obj, WPipeClosed(o)
    PROVE  WinLists'
<1>0. /\ \A p \in DOMAIN obj : WinEntries(p)
      /\ \A p \in DOMAIN obj : \A j \in DOMAIN Entries(p) : Entries(p)[j].c \in Pair
      /\ \A i \in DOMAIN Entries(o) : ~Entries(o)[i].stale
      /\ \A d \in Pair \ Cancelled(o) : call'[d] = call[d]
      /\ \A d \in Cancelled(o) : call'[d].own = FALSE /\ call[d].o = o
      /\ DOMAIN obj' = DOMAIN obj /\ obj'[o].acceptors = <<>>
      /\ \A p \in DOMAIN obj \ {o} : obj'[p] = obj[p]
  <2>1. \A i \in DOMAIN Entries(o) : ~Entries(o)[i].stale
    BY DEF WPipeClosed, Stale
  <2>2. \A d \in Cancelled(o) : call[d].o = o
    BY <2>1 DEF Cancelled, WinInv, WinEntries
  <2> QED BY <2>1, <2>2, EntryFacts DEF WPipeClosed, Frees, WinInv
<1>1. ASSUME NEW p \in DOMAIN obj \ {o} PROVE WinEntries(p)'
  <2>1. obj'[p].acceptors = obj[p].acceptors
    BY <1>0
  <2>2. \A j \in DOMAIN Entries(p) : ~Entries(p)[j].stale => Entries(p)[j].c \in Pair \ Cancelled(o)
    BY <1>0 DEF WinEntries
  <2>3. \A j \in DOMAIN Entries(p) : ~Entries(p)[j].stale => Follows(Entries(p)[j].c)
    BY <1>0, <2>2 DEF Follows
  <2> QED BY <1>0, <2>1, <2>3, EntriesKept
<1>2. WinEntries(o)'
  BY <1>0, EmptyEntries
<1>3. ASSUME NEW d \in Pair PROVE WinListed(d)'
  <2>1. CASE d \in Cancelled(o)
    BY <1>0, <2>1 DEF WinListed
  <2>2. CASE d \notin Cancelled(o)
    <3>1. WinListed(d) /\ (call[d].o # 0 => call[d].o \in DOMAIN obj) /\ (call[d].step = "pipe" => call[d].o # 0)
      BY DEF WinInv, WinNamed, WinShape
    <3>2. call'[d] = call[d] /\ Waited(d)
      BY <1>0, <2>2 DEF Waited
    <3>3. ASSUME NEW k \in DOMAIN Entries(call[d].o), Entries(call[d].o)[k] = [c |-> d, stale |-> FALSE],
                 call'[d].step = "pipe", call'[d].own
          PROVE  \E j \in DOMAIN obj'[call[d].o].acceptors : obj'[call[d].o].acceptors[j] = [c |-> d, stale |-> FALSE]
      <4>1. call[d].o \in DOMAIN obj
        BY <3>1, <3>2, <3>3
      <4>2. Entries(call[d].o)[k].c = d
        BY <3>3
      <4>3. call[d].o # o
        BY <2>2, <3>3, <4>2 DEF Cancelled
      <4>4. obj'[call[d].o].acceptors = Entries(call[d].o)
        BY <1>0, <4>1, <4>3 DEF Entries
      <4> QED BY <3>3, <4>4
    <3> QED BY <3>1, <3>2, <3>3, ListedKept
  <2> QED BY <2>1, <2>2
<1> QED BY <1>0, <1>1, <1>2, <1>3 DEF WinLists

\* Every step keeps the lists and the calls in agreement.
LEMMA WinListsStep ==
    ASSUME WinInv, NEW c \in Pair, WinStepOf(c)
    PROVE  WinLists'
<1>0. /\ NoCall.own = FALSE /\ NoCall.step = "none"
      /\ \A d \in Pair : WinShape(call[d])
      /\ \A o \in DOMAIN obj : WinMode(o)
  BY NoCallFields, LinuxZero DEF WinInv
<1>1. \A d \in Pair : call'[d] = call[d] => Waited(d) /\ Follows(d)
  BY DEF Waited, Follows
<1>2. ASSUME ListsSame, Others(Pair, c), Waited(c), Follows(c) \/ NoEntry(c) PROVE WinLists'
  BY <1>1, <1>2, ListsKept DEF Others
<1>3. ASSUME ListsSame, UNCHANGED call PROVE WinLists'
  BY <1>1, <1>3, ListsKept
<1>4. ASSUME ListsSame, Returns(Pair, c), call[c].step # "pipe" \/ (~call[c].own /\ call[c].at # "undefined")
      PROVE  WinLists'
  <2>1. NoEntry(c)
    BY <1>4, WithoutEntry
  <2>2. Waited(c) /\ Others(Pair, c)
    BY <1>0, <1>4 DEF Returns, Waited
  <2> QED BY <1>2, <1>4, <2>1, <2>2
<1>5. ASSUME ListsSame, Others(Pair, c), call[c].step # "pipe", call'[c].step # "pipe" \/ ~call'[c].own
      PROVE  WinLists'
  <2>1. NoEntry(c)
    BY <1>5, WithoutEntry
  <2>2. Waited(c)
    BY <1>5 DEF Waited
  <2> QED BY <1>2, <1>5, <2>1, <2>2
<1>6. call[c] = NoCall => call[c].step # "pipe"
  BY <1>0
<1>10. CASE WNotOpened(c) \/ WJob(c) \/ WStarted(c) \/ WClosed(c) \/ WOverwrite(c) \/ WWait(c) \/ WConnecting(c)
  <2>1. UNCHANGED obj /\ Others(Pair, c) /\ call[c].step # "pipe" /\ call'[c].step # "pipe"
    BY <1>0, <1>10 DEF WNotOpened, WJob, WStarted, WClosed, WOverwrite, WWait, WConnecting, Continues, Becomes, WinShape
  <2> QED BY <1>5, <2>1, ListsSameFacts
<1>11. CASE WPacket(c)
  <2>1. UNCHANGED obj /\ Others(Pair, c) /\ Waited(c) /\ Follows(c)
    BY <1>11 DEF WPacket, Continues, Becomes, Waited, Follows
  <2> QED BY <1>2, <2>1, ListsSameFacts
<1>12. CASE WUndefined(c)
  <2>1. UNCHANGED obj /\ Others(Pair, c) /\ Waited(c)
    BY <1>12 DEF WUndefined, Continues, Becomes, Waited
  <2>2. CASE call[c].step = "pipe"
    <3>1. Follows(c)
      BY <1>12, <2>2 DEF WUndefined, Continues, Becomes, Follows
    <3> QED BY <1>2, <2>1, <3>1, ListsSameFacts
  <2>3. CASE call[c].step # "pipe"
    <3>1. NoEntry(c)
      BY <2>3, WithoutEntry
    <3> QED BY <1>2, <2>1, <3>1, ListsSameFacts
  <2> QED BY <2>2, <2>3
<1>13. CASE WFopen(c) \/ (\E fd \in LinuxFd : WOpened(c, fd) \/ WConnect(c, fd))
            \/ \E o \in DOMAIN obj : \E op : WPool(c, op, o)
  <2>1. UNCHANGED obj /\ Others(Pair, c) /\ call[c].step # "pipe" /\ call'[c].step # "pipe"
    BY <1>0, <1>6, <1>13 DEF WFopen, WOpened, WConnect, WPool, Becomes, WinShape
  <2> QED BY <1>5, <2>1, ListsSameFacts
<1>14. ASSUME NEW o \in DOMAIN obj, WFclose(c, o) \/ WPipeCloseUndefined(c, o) PROVE WinLists'
  <2>1. Shuts(o) /\ Others(Pair, c) /\ call[c].step # "pipe" /\ call'[c].step # "pipe"
    BY <1>6, <1>14 DEF WFclose, WPipeCloseUndefined, Becomes
  <2> QED BY <1>5, <2>1, ListsSameFacts
<1>15. ASSUME NEW o \in DOMAIN obj, NEW mode, Tunes(o, mode) PROVE ListsSame
  BY <1>15, ListsSameFacts DEF Tunes
<1>16. ASSUME NEW o \in DOMAIN obj, NEW mode, \/ WUse(c, o, mode) \/ WAsk(c, o, mode)
                                             \/ \E fd \in LinuxFd : WAccept(c, o, fd, mode)
       PROVE  WinLists'
  <2>1. Tunes(o, mode) /\ Others(Pair, c) /\ call[c].step # "pipe" /\ call'[c].step # "pipe"
    BY <1>6, <1>16 DEF WUse, WAsk, WAccept, Becomes
  <2> QED BY <1>5, <1>15, <2>1
<1>17. ASSUME NEW o \in DOMAIN obj, NEW mode, WTuned(c, o, mode) PROVE WinLists'
  BY <1>4, <1>15, <1>17 DEF WTuned
<1>18. ASSUME NEW o \in DOMAIN obj, NEW fd \in LinuxFd, NEW mode, WAccepted(c, o, fd, mode) PROVE WinLists'
  <2>1. ListsSame
    BY <1>18, ListsSameFacts DEF WAccepted
  <2> QED BY <1>4, <1>18, <2>1 DEF WAccepted
<1>19. CASE WReturn(c)
  BY <1>4, <1>19, ListsSameFacts DEF WReturn
<1>20. CASE WWrapFile(c) \/ \E mode : WHand(c, mode)
  <2>1. ListsSame
    BY <1>20, ListsSameFacts DEF WWrapFile, WHand
  <2>2. Returns(Pair, c) /\ call[c].step # "pipe"
    BY <1>0, <1>20 DEF WWrapFile, WHand, WinShape
  <2> QED BY <1>4, <2>1, <2>2
<1>21. CASE WDrop(c)
  BY <1>4, <1>21, ListsSameFacts DEF WDrop
<1>22. CASE WFreed(c)
  <2>1. call[c].o \in DOMAIN obj /\ obj[call[c].o].kind \in {"file", "none"} /\ call[c].step # "pipe"
    BY <1>22 DEF WFreed, WinInv, WinNamed, WinShape
  <2>2. Entries(call[c].o) = <<>>
    BY <1>0, <2>1 DEF WinMode
  <2>3. PICK o : o = call[c].o
    OBVIOUS
  <2>4. ListsSame
    BY <1>22, <2>1, <2>2, <2>3, ListsSameFacts DEF WFreed
  <2> QED BY <1>4, <1>22, <2>1, <2>4 DEF WFreed
<1>23. ASSUME NEW o \in DOMAIN obj, WSocketClosed(o) PROVE WinLists'
  <2>1. Entries(o) = <<>>
    BY <1>0, <1>23 DEF WSocketClosed, WinMode
  <2> QED BY <1>3, <1>23, <2>1, ListsSameFacts DEF WSocketClosed
<1>24. ASSUME NEW fd \in LinuxFd, WFdopen(fd) \/ \E kind : WMake(fd, kind) PROVE WinLists'
  <2>1. ListsSame
    BY <1>24, ListsSameFacts DEF WFdopen, WMake
  <2> QED BY <1>3, <1>24, <2>1 DEF WFdopen, WMake
<1>25. ASSUME NEW o \in DOMAIN obj, NEW fd \in LinuxFd, WPipeUndefined(c, o, fd) PROVE WinLists'
  <2>1. ListsSame
    BY <1>25, ListsSameFacts DEF WPipeUndefined
  <2>2. Others(Pair, c) /\ call[c].step # "pipe" /\ ~call'[c].own
    BY <1>6, <1>25 DEF WPipeUndefined, Becomes
  <2> QED BY <1>5, <2>1, <2>2
<1>26. ASSUME NEW o \in DOMAIN obj, NEW fd \in LinuxFd, WPipeNow(o, fd) PROVE WinLists'
  <2>1. ListsSame
    BY <1>26, ListsSameFacts DEF WPipeNow
  <2> QED BY <1>3, <1>26, <2>1 DEF WPipeNow
<1>27. ASSUME NEW o \in DOMAIN obj, NEW fd \in LinuxFd, WPipeFails(c, o, fd) PROVE WinLists'
  <2>1. UNCHANGED call
    BY <1>27 DEF WPipeFails
  <2>2. CASE Edits(o, fd, files + 1, "unknown", Entries(o))
    BY <1>3, <2>1, <2>2, ListsSameFacts
  <2>3. CASE Edits(o, fd, files + 1, "unknown", Append(Entries(o), [c |-> c, stale |-> TRUE]))
    <3>1. PICK e : e = [c |-> c, stale |-> TRUE]
      OBVIOUS
    <3>2. e \in [c : Pair, stale : BOOLEAN] /\ e.stale
      BY <3>1
    <3>3. /\ DOMAIN obj' = DOMAIN obj /\ \A p \in DOMAIN obj \ {o} : obj'[p] = obj[p]
          /\ obj'[o].acceptors = Append(Entries(o), e)
      BY <2>3, <3>1 DEF Edits
    <3>4. \A d \in Pair : Follows(d) /\ Waited(d)
      BY <1>1, <2>1
    <3> QED BY <3>2, <3>3, <3>4, ListAppend
  <2> QED BY <1>27, <2>2, <2>3 DEF WPipeFails
<1>28. ASSUME NEW o \in DOMAIN obj, NEW fd \in LinuxFd, WPipeWait(c, o, fd) PROVE WinLists'
  <2>1. PICK e : e = [c |-> c, stale |-> FALSE]
    OBVIOUS
  <2>2. e \in [c : Pair, stale : BOOLEAN] /\ e.c = c /\ ~e.stale
    BY <2>1
  <2>3. /\ DOMAIN obj' = DOMAIN obj /\ \A p \in DOMAIN obj \ {o} : obj'[p] = obj[p]
        /\ obj'[o].acceptors = Append(Entries(o), e)
        /\ call'[c].o = o /\ call'[c].step = "pipe" /\ call'[c].own
        /\ \A d \in Pair \ {c} : call'[d] = call[d]
    BY <1>28, <2>1 DEF WPipeWait, Edits, Becomes, Others
  <2>4. NoEntry(c)
    BY <1>6, <1>28, WithoutEntry DEF WPipeWait
  <2>5. \A d \in Pair : (Follows(d) \/ NoEntry(d)) /\ (d = c \/ Waited(d))
    BY <1>1, <2>3, <2>4
  <2> QED BY <2>2, <2>3, <2>4, <2>5, ListAppend
<1>29. ASSUME NEW i, WPipeStale(c, i) \/ WPipeHand(c, i) PROVE WinLists'
  <2>1. PICK o : o = call[c].o
    OBVIOUS
  <2>2. /\ HasEntry(c, i) /\ Returns(Pair, c) /\ DOMAIN obj \subseteq DOMAIN obj'
        /\ \A p \in DOMAIN obj \ {o} : obj'[p] = obj[p]
        /\ \A p \in DOMAIN obj' \ DOMAIN obj : obj'[p].acceptors = <<>>
        /\ \/ obj'[o].acceptors = [Entries(o) EXCEPT ![i] = [c |-> c, stale |-> TRUE]]
           \/ obj'[o].acceptors = Without(Entries(o), i)
    <3>1. CASE WPipeStale(c, i)
      BY <2>1, <3>1 DEF WPipeStale, Edits
    <3>2. CASE WPipeHand(c, i)
      BY <2>1, <3>2 DEF WPipeHand, EditsGrown
    <3> QED BY <1>29, <3>1, <3>2
  <2> QED BY <2>1, <2>2, ListRemove
<1>30. ASSUME NEW o \in DOMAIN obj, WPipeClosed(o) PROVE WinLists'
  BY <1>30, ListClose
<1> QED
  BY <1>10, <1>11, <1>12, <1>13, <1>14, <1>16, <1>17, <1>18, <1>19, <1>20, <1>21, <1>22, <1>23, <1>24, <1>25, <1>26,
     <1>27, <1>28, <1>29, <1>30 DEF WinStepOf

\* The steps keep the invariant.
LEMMA WinInvKept ==
    ASSUME WinInv, WinStep
    PROVE  WinInv'
<1>1. PICK c \in Pair : WinStepOf(c)
  BY DEF WinStep
<1>2. Typed(Pair, LinuxFd)'
  BY DEF WinStep
<1>3. Owned(Pair, LinuxFd)'
  BY <1>1, WinOwnedStep
<1>4. \A d \in Pair : WinShape(call'[d])
  BY <1>1, WinShapeStep
<1>5. \A d \in Pair : WinCall(d)'
  BY <1>1, WinCallStep
<1>6. WinLinked' /\ Filed'
  BY <1>1, WinLinkedStep, WinFiledStep
<1>7. \A o \in DOMAIN obj' : WinMode(o)'
  BY <1>1, WinModeStep
<1>8. WinLists'
  BY <1>1, WinListsStep
<1>9. strayed' \subseteq {"closed"} /\ (0 \notin skip' => skip' = {})
  BY <1>1, WinStrayedStep, WinSkipStep
<1> QED BY <1>2, <1>3, <1>4, <1>5, <1>6, <1>7, <1>8, <1>9 DEF WinInv, WinCall, WinLists

-----------------------------------------------------------------------------
\* What the descriptions of the steps rest on.
LEMMA WinKnown ==
    ASSUME WinInv
    PROVE  /\ Typed(Pair, LinuxFd) /\ dt \in [LinuxFd -> Nat] /\ files \in Nat /\ 0 \in LinuxFd
           /\ \A c \in Pair : call[c] \in CallRecord(LinuxFd) /\ WinShape(call[c]) /\ WinNamed(c)
           /\ \A o \in DOMAIN obj : obj[o] \in ObjectRecord(Pair, LinuxFd) /\ WinMode(o) /\ o # 0
           /\ 0 \notin skip => skip = {}
<1>1. \A c \in Pair : call[c] \in CallRecord(LinuxFd)
  BY DEF WinInv, Typed
<1>2. \A o \in DOMAIN obj : obj[o] \in ObjectRecord(Pair, LinuxFd) /\ o # 0
  BY ObjectAt DEF WinInv
<1> QED BY <1>1, <1>2, LinuxZero DEF WinInv, Owned, Table

\* The system has a free handle for a new open file.
LEMMA WinNewFd ==
    ASSUME WinInv, Windows!CanOpen
    PROVE  Windows!NewFd \in LinuxFd /\ dt[Windows!NewFd] = 0 /\ Windows!NewFile = files + 1
<1>1. PICK fd : fd = Windows!NewFd
  OBVIOUS
<1>2. MaxFd \in Nat /\ dt \in [0 .. MaxFd -> Nat] /\ \E f \in 0 .. MaxFd : dt[f] = 0
  BY BoundAssumption, WinKnown DEF LinuxFd, Windows!Fd, Windows!CanOpen
<1>3. fd = CHOOSE f \in 0 .. MaxFd : dt[f] = 0 /\ \A g \in 0 .. MaxFd : dt[g] = 0 => f <= g
  BY <1>1 DEF Windows!NewFd, Windows!Fd
<1>4. fd \in 0 .. MaxFd /\ dt[fd] = 0
  BY <1>2, <1>3, FreeDescriptor
<1> QED BY <1>1, <1>4 DEF Windows!NewFile, LinuxFd

\* The system opens a file at a free handle.
LEMMA WinOpens ==
    ASSUME WinInv, Windows!OpenFile
    PROVE  Windows!NewFd \in LinuxFd /\ Opened(Windows!NewFd) /\ Windows!NewFile = files + 1
<1>1. Windows!NewFd \in LinuxFd /\ dt[Windows!NewFd] = 0 /\ Windows!NewFile = files + 1
  BY WinNewFd DEF Windows!OpenFile
<1> QED BY <1>1 DEF Opened, Windows!OpenFile

\* The call of c is set.
LEMMA WinUpdates ==
    ASSUME WinInv, NEW c \in Pair, NEW q \in CallRecord(LinuxFd), Windows!Update(c, q)
    PROVE  call' \in [Pair -> CallRecord(LinuxFd)] /\ Others(Pair, c) /\ call'[c] = q
  BY WinKnown, UpdateFacts DEF Windows!Update

\* The return of a call sets it to no call.
LEMMA WinIdles ==
    ASSUME WinInv, NEW c \in Pair, Windows!Update(c, Windows!Idle)
    PROVE  call' \in [Pair -> CallRecord(LinuxFd)] /\ Returns(Pair, c)
  BY WinKnown, WinNames, ReturnFacts DEF Windows!Update

\* A call that returns with no packet to come.
LEMMA WinReturns ==
    ASSUME WinInv, NEW c \in Pair, Windows!Return(c), call[c].pkt # "due"
    PROVE  Typed(Pair, LinuxFd)' /\ Returns(Pair, c) /\ WKernel /\ UNCHANGED obj
<1>1. Windows!Update(c, Windows!Idle) /\ WKernel /\ UNCHANGED obj
  BY DEF Windows!Return, Windows!Returned, Windows!kernelVars, WKernel
<1> QED BY <1>1, WinIdles, WinKnown DEF Typed

\* A call whose behaviour becomes undefined takes one of the steps.
LEMMA WinUndefines ==
    ASSUME WinInv, NEW c \in Pair, Windows!Undefined(c), call[c].at \in {"ready", "wait"},
           \/ call[c].op \in {"transfer", "use", "accept"} /\ ~obj[call[c].o].live /\ call[c].step # "pipe"
           \/ call[c].step = "pipe" /\ Stale(call[c].o)
    PROVE  WinStep
<1>1. PICK q : q = [call[c] EXCEPT !.at = "undefined", !.own = FALSE]
  OBVIOUS
<1>2. /\ q \in CallRecord(LinuxFd) /\ q.op = call[c].op /\ q.o = call[c].o /\ q.fd = call[c].fd
      /\ q.file = call[c].file /\ q.own = FALSE /\ q.step = call[c].step /\ q.at = "undefined" /\ q.res = call[c].res
  BY <1>1, WinKnown DEF CallRecord, At
<1>3. call' \in [Pair -> CallRecord(LinuxFd)] /\ Others(Pair, c) /\ call'[c] = q
  BY <1>1, <1>2, WinUpdates DEF Windows!Undefined
<1>4. WUndefined(c)
  BY <1>2, <1>3 DEF WUndefined, Continues, Becomes, Windows!Undefined, Windows!kernelVars
<1>5. Typed(Pair, LinuxFd)'
  BY <1>3, WinKnown DEF Typed, Windows!Undefined
<1> QED BY <1>4, <1>5 DEF WinStep, WinStepOf

\* bio_platform_process_events is one of the steps.
LEMMA WinProcess ==
    ASSUME WinInv, NEW c \in Pair, Windows!bio_platform_process_events(c)
    PROVE  WinStep
<1>1. PICK q : q = [call[c] EXCEPT !.pkt = "taken"]
  OBVIOUS
<1>2. /\ q \in CallRecord(LinuxFd) /\ q.op = call[c].op /\ q.o = call[c].o /\ q.fd = call[c].fd
      /\ q.file = call[c].file /\ q.own = call[c].own /\ q.step = call[c].step /\ q.at = call[c].at
      /\ q.res = call[c].res /\ q.pkt = "taken"
  BY <1>1, WinKnown DEF CallRecord
<1>3. call' \in [Pair -> CallRecord(LinuxFd)] /\ Others(Pair, c) /\ call'[c] = q
  BY <1>1, <1>2, WinUpdates DEF Windows!bio_platform_process_events
<1>4. WPacket(c)
  BY <1>2, <1>3 DEF WPacket, Continues, Becomes, Windows!bio_platform_process_events, Windows!kernelVars, WKernel
<1>5. Typed(Pair, LinuxFd)'
  BY <1>3, <1>4, WinKnown DEF Typed, WPacket
<1> QED BY <1>4, <1>5 DEF WinStep, WinStepOf

\* bio_fopen is one of the steps.
LEMMA WinFopens ==
    ASSUME WinInv, NEW c \in Pair, Windows!bio_fopen(c)
    PROVE  WinStep
<1>1. PICK r : r = TheCall("fopen", "job", 0, "pool")
  OBVIOUS
<1>2. "pool" \in At /\ "job" \in Step /\ "fopen" \in Op
  BY DEF At, Step, Op
<1>3. Fresh(r, LinuxFd, "fopen", "job", 0, 0, 0, "pool")
  BY <1>1, <1>2, LinuxZero, FreeCallFields
<1>4. PICK q : q = [r EXCEPT !.own = "fopen" = "fclose"]
  OBVIOUS
<1>5. /\ q \in CallRecord(LinuxFd)
      /\ q.op = "fopen" /\ q.step = "job" /\ q.o = 0 /\ q.fd = 0 /\ q.file = 0
      /\ q.own = FALSE /\ q.at = "pool" /\ q.res = "none" /\ q.pkt = "none"
  BY <1>3, <1>4 DEF CallRecord, Fresh
<1>6. Windows!Update(c, q) /\ call[c] = NoCall /\ WKernel /\ UNCHANGED obj
  BY <1>1, <1>4, WinNames DEF Windows!bio_fopen, Windows!RunInPool, Windows!kernelVars, WKernel
<1>7. call' \in [Pair -> CallRecord(LinuxFd)] /\ Others(Pair, c) /\ call'[c] = q
  BY <1>5, <1>6, WinUpdates
<1>8. WFopen(c)
  BY <1>5, <1>6, <1>7 DEF WFopen, Becomes
<1>9. Typed(Pair, LinuxFd)'
  BY <1>6, <1>7, WinKnown DEF Typed
<1> QED BY <1>8, <1>9 DEF WinStep, WinStepOf

\* What a job of the pool begins with.
LEMMA WinPools ==
    ASSUME WinInv, NEW c \in Pair, NEW o \in DOMAIN obj, NEW op \in {"transfer", "flush", "fclose"},
           Windows!RunInPool(c, op, o)
    PROVE  /\ call' \in [Pair -> CallRecord(LinuxFd)] /\ call[c] = NoCall /\ WKernel
           /\ Becomes(c, op, "job", o, obj[o].fd, obj[o].file, op = "fclose", "pool")
           /\ call'[c].res = "none" /\ call'[c].pkt = "none"
<1>1. PICK r : r = TheCall(op, "job", o, "pool")
  OBVIOUS
<1>2. "pool" \in At /\ "job" \in Step /\ op \in Op
  BY DEF At, Step, Op
<1>3. Fresh(r, LinuxFd, op, "job", o, obj[o].fd, obj[o].file, "pool")
  BY <1>1, <1>2, WinKnown, CallFields
<1>4. PICK q : q = [r EXCEPT !.own = op = "fclose"]
  OBVIOUS
<1>5. /\ q \in CallRecord(LinuxFd)
      /\ q.op = op /\ q.step = "job" /\ q.o = o /\ q.fd = obj[o].fd /\ q.file = obj[o].file
      /\ q.own = (op = "fclose") /\ q.at = "pool" /\ q.res = "none" /\ q.pkt = "none"
  BY <1>3, <1>4 DEF CallRecord, Fresh
<1>6. Windows!Update(c, q) /\ call[c] = NoCall /\ WKernel
  BY <1>1, <1>4, WinNames DEF Windows!RunInPool, Windows!kernelVars, WKernel
<1>7. call' \in [Pair -> CallRecord(LinuxFd)] /\ Others(Pair, c) /\ call'[c] = q
  BY <1>5, <1>6, WinUpdates
<1> QED BY <1>5, <1>6, <1>7 DEF Becomes

\* Reads, writes and flushes of a file and bio_fstat are among the steps.
LEMMA WinFileCalls ==
    ASSUME WinInv, NEW c \in Pair, NEW o \in DOMAIN obj,
           \/ Windows!bio_fread(c, o) \/ Windows!bio_fwrite(c, o) \/ Windows!bio_fflush(c, o) \/ Windows!bio_fstat(c, o)
    PROVE  WinStep
<1>1. ASSUME NEW op \in {"transfer", "flush"}, Windows!RunInPool(c, op, o), UNCHANGED obj, Windows!Open(o, "file")
      PROVE  WinStep
  <2>1. /\ call' \in [Pair -> CallRecord(LinuxFd)] /\ call[c] = NoCall /\ WKernel
        /\ Becomes(c, op, "job", o, obj[o].fd, obj[o].file, op = "fclose", "pool")
        /\ call'[c].res = "none" /\ call'[c].pkt = "none"
    BY <1>1, WinPools
  <2>2. (op = "fclose") = FALSE
    OBVIOUS
  <2>3. WPool(c, op, o)
    BY <1>1, <2>1, <2>2 DEF WPool, Windows!Open
  <2>4. Typed(Pair, LinuxFd)'
    BY <1>1, <2>1, WinKnown DEF Typed
  <2> QED BY <2>3, <2>4 DEF WinStep, WinStepOf
<1> QED BY <1>1 DEF Windows!bio_fread, Windows!bio_fwrite, Windows!bio_fflush, Windows!bio_fstat

\* bio_fclose is one of the steps.
LEMMA WinFcloses ==
    ASSUME WinInv, NEW c \in Pair, NEW o \in DOMAIN obj, Windows!bio_fclose(c, o)
    PROVE  WinStep
<1>1. /\ Windows!RunInPool(c, "fclose", o) /\ obj[o].live /\ obj[o].kind = "file"
      /\ obj' = [obj EXCEPT ![o] = [obj[o] EXCEPT !.live = FALSE]]
  BY DEF Windows!bio_fclose, Windows!Open, Windows!Closed
<1>2. /\ call' \in [Pair -> CallRecord(LinuxFd)] /\ call[c] = NoCall /\ WKernel
      /\ Becomes(c, "fclose", "job", o, obj[o].fd, obj[o].file, "fclose" = "fclose", "pool")
      /\ call'[c].res = "none" /\ call'[c].pkt = "none"
  BY <1>1, WinPools
<1>3. ("fclose" = "fclose") = TRUE
  OBVIOUS
<1>4. obj' \in Seq(ObjectRecord(Pair, LinuxFd)) /\ Shuts(o)
  BY <1>1, WinKnown, ShutFacts
<1>5. WFclose(c, o)
  BY <1>1, <1>2, <1>3, <1>4 DEF WFclose
<1> QED BY <1>2, <1>4, <1>5 DEF WinStep, WinStepOf, Typed

\* How an operation on that open file begins.
OutcomeIs(e, file, s) ==
    /\ e.res \in {"ok", "pending"}
    /\ e.pkt \in {"none", "due"}
    /\ e.res = "ok" => (e.pkt = "none" <=> file \in s)
    /\ e.res = "pending" => e.pkt = "due"

\* The outcomes of an operation that is started are those.
LEMMA OutcomeFacts ==
    ASSUME NEW file, NEW s, NEW e \in Windows!Outcomes(file, s)
    PROVE  OutcomeIs(e, file, s)
  BY DEF Windows!Outcomes, OutcomeIs

\* Those of an operation on a file that is not linked to the completion port.
LEMMA UnlinkedFacts ==
    ASSUME NEW e \in Windows!UnlinkedOutcomes
    PROVE  e.res \in {"ok", "pending"} /\ e.pkt \in {"none", "due"} /\ (e.res = "ok" => e.pkt = "none")
  BY DEF Windows!UnlinkedOutcomes

\* A call whose operation has begun, with the outcome of it.
BeginsAs(q, r, res, pkt) ==
    /\ q \in CallRecord(LinuxFd)
    /\ q.op = r.op /\ q.step = r.step /\ q.o = r.o /\ q.fd = r.fd /\ q.file = r.file /\ q.own = r.own /\ q.at = r.at
    /\ q.res = res /\ q.pkt = pkt

\* The fields of a call whose operation was started.
LEMMA StartedFields ==
    ASSUME NEW r \in CallRecord(LinuxFd), NEW e, e.res \in {"ok", "pending", "connected"}, e.pkt \in {"none", "due"},
           NEW q, q = Windows!Started(r, e)
    PROVE  BeginsAs(q, r, e.res, e.pkt)
  BY DEF Windows!Started, CallRecord, BeginsAs

\* A call that holds a new open file.
HoldsNew(q, r, fd, file) ==
    /\ q \in CallRecord(LinuxFd)
    /\ q.op = r.op /\ q.step = r.step /\ q.o = r.o /\ q.fd = fd /\ q.file = file /\ q.own = TRUE /\ q.at = r.at
    /\ q.res = r.res /\ q.pkt = r.pkt

\* The fields of a call that got a new open file.
LEMMA HoldingFields ==
    ASSUME NEW r \in CallRecord(LinuxFd), NEW fd \in LinuxFd, NEW file \in Nat,
           NEW q, q = [r EXCEPT !.fd = fd, !.file = file, !.own = TRUE]
    PROVE  HoldsNew(q, r, fd, file)
  BY DEF CallRecord, HoldsNew

\* The jobs of the pool are among the steps.
LEMMA WinJobs ==
    ASSUME WinInv, NEW c \in Pair, Windows!Job(c)
    PROVE  WinStep
<1>1. PICK r : r = [call[c] EXCEPT !.at = "ready"]
  OBVIOUS
<1>2. "ready" \in At
  BY DEF At
<1>3. /\ r \in CallRecord(LinuxFd) /\ r.op = call[c].op /\ r.o = call[c].o /\ r.fd = call[c].fd
      /\ r.file = call[c].file /\ r.own = call[c].own /\ r.step = call[c].step /\ r.at = "ready"
      /\ r.res = call[c].res /\ r.pkt = call[c].pkt
  BY <1>1, <1>2, WinKnown DEF CallRecord
<1>4. call[c].at = "pool" /\ UNCHANGED <<obj, lost, skip>>
  BY DEF Windows!Job
<1>5. obj' \in Seq(ObjectRecord(Pair, LinuxFd))
  BY <1>4, WinKnown DEF Typed
<1>6. ASSUME Windows!Update(c, r)
      PROVE  /\ call' \in [Pair -> CallRecord(LinuxFd)]
             /\ Continues(c, call[c].step, "ready", call[c].own)
             /\ call'[c].res = call[c].res /\ call'[c].pkt = call[c].pkt
  <2>1. call' \in [Pair -> CallRecord(LinuxFd)] /\ Others(Pair, c) /\ call'[c] = r
    BY <1>3, <1>6, WinUpdates
  <2> QED BY <1>3, <2>1 DEF Continues, Becomes
<1>7. CASE /\ r.op = "fopen" /\ Windows!OpenFile
           /\ Windows!Update(c, [Windows!Holding(r) EXCEPT !.res = "ok"]) /\ UNCHANGED strayed
  <2>1. PICK fd : fd = Windows!NewFd
    OBVIOUS
  <2>2. fd \in LinuxFd /\ Opened(fd) /\ Windows!NewFile = files + 1
    BY <1>7, <2>1, WinOpens
  <2>3. PICK q, t : t = Windows!Holding(r) /\ q = [t EXCEPT !.res = "ok"]
    OBVIOUS
  <2>4. HoldsNew(t, r, fd, files + 1)
    <3>1. PICK file : file = files + 1
      OBVIOUS
    <3>2. file \in Nat
      BY <3>1, WinKnown
    <3>3. t = [r EXCEPT !.fd = fd, !.file = file, !.own = TRUE]
      BY <2>1, <2>2, <2>3, <3>1 DEF Windows!Holding
    <3> QED BY <1>3, <2>2, <3>1, <3>2, <3>3, HoldingFields
  <2>5. r.op = "fopen"
    BY <1>7
  <2>6. /\ q \in CallRecord(LinuxFd) /\ q.op = "fopen" /\ q.o = call[c].o /\ q.fd = fd
        /\ q.file = files + 1 /\ q.own = TRUE /\ q.step = call[c].step /\ q.at = "ready"
        /\ q.res = "ok" /\ q.pkt = call[c].pkt
    BY <1>3, <2>3, <2>4, <2>5 DEF CallRecord, HoldsNew
  <2>7. call' \in [Pair -> CallRecord(LinuxFd)] /\ Others(Pair, c) /\ call'[c] = q
    BY <1>7, <2>3, <2>6, WinUpdates
  <2>8. WOpened(c, fd)
    BY <1>3, <1>4, <1>7, <2>2, <2>6, <2>7 DEF WOpened, Becomes
  <2> QED BY <1>5, <2>2, <2>7, <2>8 DEF WinStep, WinStepOf, Typed
<1>8. CASE r.op = "fopen" /\ Windows!Update(c, r) /\ UNCHANGED <<dt, files, strayed>>
  <2>1. WNotOpened(c)
    BY <1>3, <1>4, <1>6, <1>8 DEF WNotOpened, WKernel
  <2> QED BY <1>5, <1>6, <1>8, <2>1 DEF WinStep, WinStepOf, Typed
<1>9. CASE /\ r.op = "fclose" /\ dt' = [dt EXCEPT ![r.fd] = 0] /\ Windows!Update(c, [r EXCEPT !.own = FALSE])
           /\ UNCHANGED <<files, strayed>>
  <2>1. PICK q : q = [r EXCEPT !.own = FALSE]
    OBVIOUS
  <2>2. /\ q \in CallRecord(LinuxFd) /\ q.op = call[c].op /\ q.o = call[c].o /\ q.fd = call[c].fd
        /\ q.file = call[c].file /\ q.own = FALSE /\ q.step = call[c].step /\ q.at = "ready"
        /\ q.res = call[c].res /\ q.pkt = call[c].pkt
    BY <1>3, <2>1 DEF CallRecord
  <2>3. call' \in [Pair -> CallRecord(LinuxFd)] /\ Others(Pair, c) /\ call'[c] = q
    BY <1>9, <2>1, <2>2, WinUpdates
  <2>4. WClosed(c)
    BY <1>3, <1>4, <1>9, <2>2, <2>3 DEF WClosed, Continues, Becomes
  <2> QED BY <1>5, <2>3, <2>4 DEF WinStep, WinStepOf, Typed
<1>10. ASSUME Windows!Reach(r) PROVE WReaches(c)
  BY <1>3, <1>10 DEF Windows!Reach, WReaches
<1>11. CASE /\ r.op \in {"flush", "transfer"} /\ Windows!Reach(r) /\ Windows!Update(c, r) /\ UNCHANGED <<dt, files>>
  <2>1. WJob(c)
    BY <1>3, <1>4, <1>6, <1>10, <1>11 DEF WJob
  <2> QED BY <1>5, <1>6, <1>11, <2>1 DEF WinStep, WinStepOf, Typed
<1>12. CASE /\ r.op = "transfer" /\ dt[r.fd] # 0
            /\ Windows!Reach(r)
            /\ \E e \in Windows!JobOutcomes(dt[r.fd]) : Windows!Update(c, Windows!Started(r, e))
            /\ UNCHANGED <<dt, files>>
  <2>1. PICK e \in Windows!JobOutcomes(dt[r.fd]) : Windows!Update(c, Windows!Started(r, e))
    BY <1>12
  <2>2. /\ e.res \in {"ok", "pending"} /\ e.pkt \in {"none", "due"}
        /\ ~Windows!Unlinked(dt[r.fd]) => OutcomeIs(e, dt[r.fd], skip)
    <3>1. CASE Windows!Unlinked(dt[r.fd])
      BY <2>1, <3>1, UnlinkedFacts DEF Windows!JobOutcomes
    <3>2. CASE ~Windows!Unlinked(dt[r.fd])
      <4>1. PICK file : file = dt[r.fd]
        OBVIOUS
      <4>2. e \in Windows!Outcomes(file, skip)
        BY <2>1, <3>2, <4>1 DEF Windows!JobOutcomes
      <4>3. PICK s : s = skip
        OBVIOUS
      <4>4. OutcomeIs(e, file, s)
        BY <4>2, <4>3, OutcomeFacts
      <4> QED BY <4>1, <4>3, <4>4 DEF OutcomeIs
    <3> QED BY <3>1, <3>2
  <2>3. PICK q : q = Windows!Started(r, e)
    OBVIOUS
  <2>4. BeginsAs(q, r, e.res, e.pkt)
    BY <1>3, <2>2, <2>3, StartedFields
  <2>5. call' \in [Pair -> CallRecord(LinuxFd)] /\ Others(Pair, c) /\ call'[c] = q
    BY <2>1, <2>3, <2>4, WinUpdates DEF BeginsAs
  <2>6. WStarted(c)
    <3>1. Continues(c, call[c].step, "ready", call[c].own) /\ call'[c].res = e.res /\ call'[c].pkt = e.pkt
      BY <1>3, <2>4, <2>5 DEF Continues, Becomes, BeginsAs
    <3>2. dt[call[c].fd] = call[c].file /\ ~Windows!Unlinked(call[c].file) => OutcomeIs(e, call[c].file, skip)
      BY <1>3, <2>2
    <3> QED BY <1>3, <1>4, <1>10, <1>12, <2>2, <3>1, <3>2 DEF WStarted, OutcomeIs
  <2> QED BY <1>5, <2>5, <2>6 DEF WinStep, WinStepOf, Typed
<1> QED BY <1>1, <1>7, <1>8, <1>9, <1>11, <1>12 DEF Windows!Job

\* bio_fdopen is one of the steps.
LEMMA WinFdopens ==
    ASSUME WinInv, NEW c \in Pair, Windows!FdopenCall(c)
    PROVE  WinStep
<1>1. PICK fd : fd = Windows!NewFd
  OBVIOUS
<1>2. fd \in LinuxFd /\ Opened(fd) /\ Windows!NewFile = files + 1
  BY <1>1, WinOpens DEF Windows!FdopenCall
<1>3. PICK mode, file : mode = Windows!InitMode /\ file = files + 1
  OBVIOUS
<1>4. mode \in {"skip", "always"} /\ file \in Nat
  BY <1>3, WinKnown DEF Windows!InitMode
<1>5. obj' = Append(obj, TheObject("file", fd, file, mode)) /\ skip' = Windows!Skip(files + 1)
      /\ UNCHANGED <<call, strayed, lost>>
  BY <1>1, <1>2, <1>3, WinNames DEF Windows!FdopenCall, Windows!bio_fdopen
<1>6. obj' \in Seq(ObjectRecord(Pair, LinuxFd)) /\ Grown(Len(obj) + 1, "file", fd, file, mode)
  BY <1>2, <1>4, <1>5, WinKnown, GrowFacts
<1>7. WFdopen(fd)
  BY <1>2, <1>3, <1>5, <1>6 DEF WFdopen
<1>8. Typed(Pair, LinuxFd)'
  BY <1>5, <1>6, WinKnown DEF Typed
<1> QED BY <1>2, <1>7, <1>8 DEF WinStep, WinStepOf

\* What bio_fopen and bio_fclose do when their jobs have ended is one of the
\* steps.
LEMMA WinOpenOrCloseEnds ==
    ASSUME WinInv, NEW c \in Pair, Windows!OpenOrCloseEnds(c)
    PROVE  WinStep
<1>1. /\ call[c].at = "ready" /\ Windows!Update(c, Windows!Idle) /\ UNCHANGED <<dt, files, strayed, lost>>
  BY DEF Windows!OpenOrCloseEnds
<1>2. call' \in [Pair -> CallRecord(LinuxFd)] /\ Returns(Pair, c)
  BY <1>1, WinIdles
<1>3. CASE call[c].op = "fopen" /\ call[c].res = "ok" /\ Windows!bio_fdopen(call[c].fd, call[c].file)
  <2>1. PICK mode, file, fd : mode = Windows!InitMode /\ file = call[c].file /\ fd = call[c].fd
    OBVIOUS
  <2>2. mode \in {"skip", "always"} /\ file \in Nat /\ fd \in LinuxFd
    BY <2>1, WinKnown DEF Windows!InitMode, CallRecord
  <2>3. obj' = Append(obj, TheObject("file", fd, file, mode)) /\ skip' = Windows!Skip(call[c].file)
    BY <1>3, <2>1, WinNames DEF Windows!bio_fdopen
  <2>4. obj' \in Seq(ObjectRecord(Pair, LinuxFd)) /\ Grown(Len(obj) + 1, "file", fd, file, mode)
    BY <2>2, <2>3, WinKnown, GrowFacts
  <2>5. WWrapFile(c)
    BY <1>1, <1>2, <1>3, <2>1, <2>3, <2>4 DEF WWrapFile
  <2> QED BY <1>2, <2>4, <2>5 DEF WinStep, WinStepOf, Typed
<1>4. CASE call[c].op = "fclose" /\ obj' = [obj EXCEPT ![call[c].o] = Windows!Freed] /\ UNCHANGED skip
  <2>1. PICK o : o = call[c].o
    OBVIOUS
  <2>2. o \in DOMAIN obj
    BY <1>4, <2>1, WinKnown DEF WinShape, WinNamed
  <2>3. obj' = [obj EXCEPT ![o] = FreedObject]
    BY <1>4, <2>1, WinNames
  <2>4. obj' \in Seq(ObjectRecord(Pair, LinuxFd)) /\ Frees(o)
    BY <2>2, <2>3, WinKnown, FreeFacts
  <2>5. WFreed(c)
    BY <1>1, <1>2, <1>4, <2>1, <2>4 DEF WFreed, WKernel
  <2> QED BY <1>2, <2>4, <2>5 DEF WinStep, WinStepOf, Typed
<1> QED BY <1>3, <1>4 DEF Windows!OpenOrCloseEnds

\* A call that owns nothing returns, with no packet to come.
LEMMA WinReturnStep ==
    ASSUME WinInv, NEW c \in Pair, Windows!Return(c), call[c].pkt # "due", ~call[c].own,
           call[c].at \in {"ready", "wait"}
    PROVE  WinStep
<1>1. Typed(Pair, LinuxFd)' /\ Returns(Pair, c) /\ WKernel /\ UNCHANGED obj
  BY WinReturns
<1> QED BY <1>1 DEF WinStep, WinStepOf, WReturn

\* What the other calls do when their jobs have ended is one of the steps: a read
\* or write waits, returns, or leaves its packet behind if it went astray.
LEMMA WinJobEnds ==
    ASSUME WinInv, NEW c \in Pair, Windows!JobEnds(c)
    PROVE  WinStep
<1>1. /\ call[c].at = "ready" /\ call[c].op # "fclose" /\ WinShape(call[c])
  BY WinKnown DEF Windows!JobEnds
<1>2. call[c].step = "job"
  BY <1>1 DEF WinShape
<1>3. CASE call[c].res = "none" /\ Windows!Return(c)
  <2>1. call[c].pkt = "none" /\ ~call[c].own
    BY <1>1, <1>2, <1>3 DEF WinShape, WinOwn
  <2> QED BY <1>1, <1>3, <2>1, WinReturnStep
<1>4. CASE call[c].op = "transfer" /\ call[c].res # "none"
  <2>1. PICK o : o = call[c].o
    OBVIOUS
  <2>2. o \in DOMAIN obj /\ obj[o].kind \in {"file", "none"} /\ WinMode(o)
    BY <1>1, <1>2, <1>4, <2>1, WinKnown DEF WinShape, WinNamed
  <2>3. ~call[c].own /\ call[c].res \in {"ok", "pending"}
    BY <1>1, <1>2, <1>4 DEF WinShape, WinOwn
  <2>4. /\ call[c].res = "ok" => Windows!Astray(c) \/ (0 \in skip <=> call[c].pkt = "none")
        /\ call[c].res = "pending" => Windows!Astray(c) \/ call[c].pkt # "none"
    BY <1>1, <1>4 DEF WinInv, WinPackets
  <2>5. \/ Windows!Undefined(c) /\ ~obj[o].mem
        \/ /\ Windows!MustWait(call[c].res, obj[o].mode) /\ (call[c].res = "ok" => obj[o].mem)
           /\ Windows!Update(c, [call[c] EXCEPT !.step = "transfer", !.at = "wait"])
           /\ WKernel /\ UNCHANGED obj
        \/ ~Windows!MustWait(call[c].res, obj[o].mode) /\ Windows!Return(c)
    BY <1>4, <2>1 DEF Windows!JobEnds, Windows!kernelVars, WKernel
  <2>6. CASE Windows!Undefined(c) /\ ~obj[o].mem
    <3>1. ~obj[call[c].o].live /\ call[c].step # "pipe"
      BY <1>2, <2>1, <2>2, <2>6 DEF WinMode
    <3> QED BY <1>1, <1>4, <2>6, <3>1, WinUndefines
  <2>7. CASE /\ Windows!MustWait(call[c].res, obj[o].mode) /\ (call[c].res = "ok" => obj[o].mem)
             /\ Windows!Update(c, [call[c] EXCEPT !.step = "transfer", !.at = "wait"])
             /\ WKernel /\ UNCHANGED obj
    <3>1. Windows!Astray(c) \/ call[c].pkt # "none"
      BY <2>2, <2>3, <2>4, <2>7 DEF Windows!MustWait, Windows!bio_maybe_wait_after_success, WinMode
    <3>2. PICK q : q = [call[c] EXCEPT !.step = "transfer", !.at = "wait"]
      OBVIOUS
    <3>3. "transfer" \in Step /\ "wait" \in At
      BY DEF Step, At
    <3>4. /\ q \in CallRecord(LinuxFd) /\ q.op = call[c].op /\ q.o = call[c].o /\ q.fd = call[c].fd
          /\ q.file = call[c].file /\ q.own = call[c].own /\ q.step = "transfer" /\ q.at = "wait"
          /\ q.res = call[c].res /\ q.pkt = call[c].pkt
      BY <3>2, <3>3, WinKnown DEF CallRecord
    <3>5. call' \in [Pair -> CallRecord(LinuxFd)] /\ Others(Pair, c) /\ call'[c] = q
      BY <2>7, <3>2, <3>4, WinUpdates
    <3>6. WWait(c)
      BY <1>1, <1>4, <2>7, <3>1, <3>4, <3>5 DEF WWait, Continues, Becomes
    <3>7. Typed(Pair, LinuxFd)'
      BY <2>7, <3>5, WinKnown DEF Typed
    <3> QED BY <3>6, <3>7 DEF WinStep, WinStepOf
  <2>8. CASE ~Windows!MustWait(call[c].res, obj[o].mode) /\ Windows!Return(c)
    <3>1. CASE call[c].pkt # "due"
      BY <1>1, <2>3, <2>8, <3>1, WinReturnStep
    <3>2. CASE call[c].pkt = "due"
      <4>1. Windows!Astray(c)
        BY <2>2, <2>3, <2>4, <2>8, <3>2 DEF Windows!MustWait, Windows!bio_maybe_wait_after_success, WinMode
      <4>2. PICK q : q = [call[c] EXCEPT !.at = "overwritten"]
        OBVIOUS
      <4>3. "overwritten" \in At
        BY DEF At
      <4>4. /\ q \in CallRecord(LinuxFd) /\ q.op = call[c].op /\ q.o = call[c].o /\ q.fd = call[c].fd
            /\ q.file = call[c].file /\ q.own = call[c].own /\ q.step = call[c].step /\ q.at = "overwritten"
            /\ q.res = call[c].res
        BY <4>2, <4>3, WinKnown DEF CallRecord
      <4>5. Windows!Update(c, q) /\ WKernel /\ UNCHANGED obj
        BY <2>8, <3>2, <4>2 DEF Windows!Return, Windows!Returned, Windows!kernelVars, WKernel
      <4>6. call' \in [Pair -> CallRecord(LinuxFd)] /\ Others(Pair, c) /\ call'[c] = q
        BY <4>4, <4>5, WinUpdates
      <4>7. WOverwrite(c)
        BY <1>1, <1>4, <4>1, <4>4, <4>5, <4>6 DEF WOverwrite, Continues, Becomes
      <4>8. Typed(Pair, LinuxFd)'
        BY <4>5, <4>6, WinKnown DEF Typed
      <4> QED BY <4>7, <4>8 DEF WinStep, WinStepOf
    <3> QED BY <3>1, <3>2
  <2> QED BY <2>5, <2>6, <2>7, <2>8
<1> QED BY <1>3, <1>4 DEF Windows!JobEnds

\* What reads and writes do after the wait is one of the steps, on files, sockets
\* and pipes.
LEMMA WinTransferEnds ==
    ASSUME WinInv, NEW c \in Pair, Windows!TransferEnds(c) \/ Windows!SocketTransferEnds(c)
    PROVE  WinStep
<1>1. PICK o : o = call[c].o
  OBVIOUS
<1>2. /\ call[c].at = "wait" /\ call[c].pkt = "taken"
      /\ \/ call[c].step = "transfer" /\ call[c].op = "transfer"
         \/ call[c].step \in {"use", "unlinked"} /\ call[c].op = "use"
      /\ \/ Windows!Return(c)
         \/ Windows!Undefined(c) /\ ~obj[o].mem
  BY <1>1, WinKnown DEF Windows!TransferEnds, Windows!SocketTransferEnds, Windows!Awake, WinShape
<1>3. o \in DOMAIN obj /\ WinMode(o) /\ ~call[c].own
  BY <1>1, <1>2, WinKnown DEF WinShape, WinOwn, WinNamed
<1>4. CASE Windows!Return(c)
  BY <1>2, <1>3, <1>4, WinReturnStep
<1>5. CASE Windows!Undefined(c) /\ ~obj[o].mem
  <2>1. ~obj[call[c].o].live /\ call[c].step # "pipe"
    BY <1>1, <1>2, <1>3, <1>5 DEF WinMode
  <2> QED BY <1>2, <1>5, <2>1, WinUndefines
<1> QED BY <1>2, <1>4, <1>5

\* What the library believes tells whether a packet comes.
LEMMA WaitTells ==
    ASSUME NEW e, NEW file, NEW mode, NEW s, OutcomeIs(e, file, s), mode \in {"skip", "always"},
           mode = "skip" => file \in s, mode = "always" => s = {}
    PROVE  IF Windows!MustWait(e.res, mode) THEN e.pkt # "none" ELSE e.pkt = "none" /\ e.res = "ok"
  BY DEF OutcomeIs, Windows!MustWait, Windows!bio_maybe_wait_after_success

\* That mode is true of the handle of the file, if the kernel was told s.
ModeFits(mode, file, s) ==
    mode \in {"skip", "always"} /\ (mode = "skip" => file \in s) /\ (mode = "always" => s = {})

\* The mode that the library finds out is true.
LEMMA ModeAgrees ==
    ASSUME WinInv, NEW o \in DOMAIN obj, obj[o].mem
    PROVE  ModeFits(Windows!Mode(o), obj[o].file, Windows!Skips(o))
<1>1. WinMode(o) /\ (0 \notin skip => skip = {})
  BY WinKnown
<1>2. /\ obj[o].mode \in {"unknown", "skip", "always"}
      /\ obj[o].mode = "skip" => obj[o].file \in skip
      /\ obj[o].mode = "always" => skip = {}
  BY <1>1 DEF WinMode
<1>3. CASE obj[o].mode = "unknown"
  BY <1>1, <1>3 DEF ModeFits, Windows!Mode, Windows!InitMode, Windows!Skips, Windows!Skip
<1>4. CASE obj[o].mode # "unknown"
  BY <1>2, <1>4 DEF ModeFits, Windows!Mode, Windows!Skips
<1> QED BY <1>3, <1>4

\* The mode of an object is set.
LEMMA TuneFacts ==
    ASSUME WinInv, NEW o \in DOMAIN obj, NEW mode, mode \in {"skip", "always"}, TunesTo(o, mode),
           \/ obj' = [obj EXCEPT ![o].mode = mode]
           \/ obj' = [obj EXCEPT ![o].mode = mode, ![o].listen = TRUE]
    PROVE  obj' \in Seq(ObjectRecord(Pair, LinuxFd)) /\ Tunes(o, mode)
<1>1. obj[o] \in ObjectRecord(Pair, LinuxFd) /\ Typed(Pair, LinuxFd)
  BY WinKnown
<1>2. PICK q : /\ q = [obj[o] EXCEPT !.mode = mode] \/ q = [obj[o] EXCEPT !.mode = mode, !.listen = TRUE]
               /\ obj' = [obj EXCEPT ![o] = q]
  OBVIOUS
<1>3. /\ q \in ObjectRecord(Pair, LinuxFd) /\ q.kind = obj[o].kind /\ q.live = obj[o].live /\ q.mem = obj[o].mem
      /\ q.fd = obj[o].fd /\ q.file = obj[o].file /\ q.mode = mode /\ q.acceptors = obj[o].acceptors
  BY <1>1, <1>2 DEF ObjectRecord
<1>4. obj' \in Seq(ObjectRecord(Pair, LinuxFd)) /\ Edits(o, q.fd, q.file, q.mode, q.acceptors)
  BY <1>1, <1>2, <1>3, EditFacts
<1> QED BY <1>3, <1>4 DEF Tunes, Entries

\* Sending and receiving are among the steps.
LEMMA WinTransfers ==
    ASSUME WinInv, NEW c \in Pair, NEW o \in DOMAIN obj, NEW kind, Windows!Transfer(c, o, kind)
    PROVE  WinStep
<1>1. PICK mode, s, file : mode = Windows!Mode(o) /\ s = Windows!Skips(o) /\ file = obj[o].file
  OBVIOUS
<1>2. /\ call[c] = NoCall /\ obj[o].live /\ skip' = s /\ obj' = [obj EXCEPT ![o].mode = mode]
      /\ UNCHANGED <<dt, files, strayed, lost>>
  BY <1>1, WinNames DEF Windows!Transfer, Windows!Open
<1>3. PICK step : step = IF Windows!Listening(o) THEN "unlinked" ELSE "use"
  OBVIOUS
<1>4. PICK e \in Windows!SocketOutcomes(o, s) :
          Windows!Update(c, IF Windows!MustWait(e.res, mode)
                            THEN Windows!Started(Windows!Call("use", step, o, "wait"), e)
                            ELSE Windows!Returned(Windows!Started(Windows!Call("use", step, o, "wait"), e)))
  BY <1>1, <1>3 DEF Windows!Transfer
<1>5. mode \in {"skip", "always"} /\ (mode = "skip" => file \in s) /\ (mode = "always" => s = {})
  <2>1. obj[o].mem
    BY <1>2, WinKnown DEF WinMode
  <2> QED BY <1>1, <2>1, ModeAgrees DEF ModeFits
<1>6. /\ step \in {"use", "unlinked"} /\ e.res \in {"ok", "pending"} /\ e.pkt \in {"none", "due"}
      /\ IF Windows!MustWait(e.res, mode) THEN step = "unlinked" \/ e.pkt # "none" ELSE e.pkt = "none"
  <2>1. CASE Windows!Listening(o)
    <3>1. e \in Windows!UnlinkedOutcomes
      BY <1>4, <2>1 DEF Windows!SocketOutcomes
    <3>2. e.res \in {"ok", "pending"} /\ e.pkt \in {"none", "due"} /\ (e.res = "ok" => e.pkt = "none")
      BY <3>1, UnlinkedFacts
    <3> QED BY <1>3, <2>1, <3>2 DEF Windows!MustWait
  <2>2. CASE ~Windows!Listening(o)
    <3>1. e \in Windows!Outcomes(file, s)
      BY <1>1, <1>4, <2>2 DEF Windows!SocketOutcomes
    <3>2. OutcomeIs(e, file, s)
      BY <3>1, OutcomeFacts
    <3>3. IF Windows!MustWait(e.res, mode) THEN e.pkt # "none" ELSE e.pkt = "none" /\ e.res = "ok"
      BY <1>5, <3>2, WaitTells
    <3> QED BY <1>3, <2>2, <3>2, <3>3 DEF OutcomeIs
  <2> QED BY <2>1, <2>2
<1>7. TunesTo(o, mode)
  BY <1>1, <1>2, <1>5 DEF TunesTo
<1>8. obj' \in Seq(ObjectRecord(Pair, LinuxFd)) /\ Tunes(o, mode)
  BY <1>2, <1>5, <1>7, TuneFacts
<1>9. PICK t : t = TheCall("use", step, o, "wait")
  OBVIOUS
<1>10. "use" \in Op /\ step \in Step /\ "wait" \in At
  BY <1>6 DEF Op, Step, At
<1>11. Fresh(t, LinuxFd, "use", step, o, obj[o].fd, obj[o].file, "wait")
  BY <1>9, <1>10, WinKnown, CallFields
<1>12. PICK q : q = Windows!Started(t, e)
  OBVIOUS
<1>13. BeginsAs(q, t, e.res, e.pkt)
  BY <1>6, <1>11, <1>12, StartedFields DEF Fresh
<1>14. Windows!Update(c, IF Windows!MustWait(e.res, mode) THEN q ELSE Windows!Returned(q))
  BY <1>4, <1>9, <1>12, WinNames
<1>15. CASE Windows!MustWait(e.res, mode)
  <2>1. call' \in [Pair -> CallRecord(LinuxFd)] /\ Others(Pair, c) /\ call'[c] = q
    BY <1>13, <1>14, <1>15, WinUpdates DEF BeginsAs
  <2>2. WUse(c, o, mode)
    BY <1>2, <1>6, <1>8, <1>11, <1>13, <1>15, <2>1 DEF WUse, Becomes, BeginsAs, Fresh
  <2> QED BY <1>8, <2>1, <2>2 DEF WinStep, WinStepOf, Typed
<1>16. CASE ~Windows!MustWait(e.res, mode)
  <2>1. Windows!Update(c, Windows!Idle)
    BY <1>6, <1>13, <1>14, <1>16 DEF BeginsAs, Windows!Returned
  <2>2. call' \in [Pair -> CallRecord(LinuxFd)] /\ Returns(Pair, c)
    BY <2>1, WinIdles
  <2>3. WTuned(c, o, mode)
    BY <1>2, <1>8, <2>2 DEF WTuned, NoCall
  <2> QED BY <1>8, <2>2, <2>3 DEF WinStep, WinStepOf, Typed
<1> QED BY <1>15, <1>16

\* The calls that make a socket or pipe at once are among the steps.
LEMMA WinMakes ==
    ASSUME WinInv, NEW c \in Pair, NEW kind \in {"ws", "pipe"}, NEW listen \in BOOLEAN,
           Windows!Make(c, kind, listen)
    PROVE  WinStep
<1>1. PICK fd, file : fd = Windows!NewFd /\ file = files + 1
  OBVIOUS
<1>2. fd \in LinuxFd /\ Opened(fd) /\ Windows!NewFile = file
  BY <1>1, WinOpens DEF Windows!Make
<1>3. PICK r : r = [TheObject(kind, fd, file, "unknown") EXCEPT !.listen = listen]
  OBVIOUS
<1>4. obj' = Append(obj, r) /\ UNCHANGED <<call, strayed, skip, lost>>
  BY <1>1, <1>2, <1>3, WinNames DEF Windows!Make
<1>5. obj' \in Seq(ObjectRecord(Pair, LinuxFd)) /\ Grown(Len(obj) + 1, kind, fd, file, "unknown")
  <2>1. file \in Nat /\ obj \in Seq(ObjectRecord(Pair, LinuxFd))
    BY <1>1, WinKnown DEF Typed
  <2>2. /\ r \in ObjectRecord(Pair, LinuxFd)
        /\ r.kind = kind /\ r.fd = fd /\ r.file = file /\ r.live = TRUE /\ r.mem = TRUE
        /\ r.mode = "unknown" /\ r.acceptors = <<>>
    <3>1. PICK t : t = TheObject(kind, fd, file, "unknown")
      OBVIOUS
    <3>2. /\ t \in ObjectRecord(Pair, LinuxFd)
          /\ t.kind = kind /\ t.fd = fd /\ t.file = file /\ t.live = TRUE /\ t.mem = TRUE
          /\ t.mode = "unknown" /\ t.acceptors = <<>>
      BY <1>2, <2>1, <3>1 DEF TheObject, ObjectRecord
    <3>3. CASE listen = TRUE
      <4>1. r = [t EXCEPT !.listen = TRUE]
        BY <1>3, <3>1, <3>3
      <4> QED BY <3>2, <4>1 DEF ObjectRecord
    <3>4. CASE listen = FALSE
      <4>1. r = [t EXCEPT !.listen = FALSE]
        BY <1>3, <3>1, <3>4
      <4> QED BY <3>2, <4>1 DEF ObjectRecord
    <3> QED BY <3>3, <3>4
  <2>3. PICK u : u = Append(obj, r)
    OBVIOUS
  <2>4. /\ u \in Seq(ObjectRecord(Pair, LinuxFd))
        /\ Len(obj) + 1 \notin DOMAIN obj
        /\ DOMAIN u = DOMAIN obj \cup {Len(obj) + 1}
        /\ \A p \in DOMAIN obj : u[p] = obj[p]
        /\ u[Len(obj) + 1] = r
    BY <2>1, <2>2, <2>3, AppendFacts
  <2> QED BY <1>4, <2>2, <2>3, <2>4 DEF Grown
<1>6. WMake(fd, kind)
  BY <1>1, <1>2, <1>4, <1>5 DEF WMake
<1>7. Typed(Pair, LinuxFd)'
  BY <1>4, <1>5, WinKnown DEF Typed
<1> QED BY <1>2, <1>6, <1>7 DEF WinStep, WinStepOf

\* The beginning of a connection is one of the steps.
LEMMA WinConnects ==
    ASSUME WinInv, NEW c \in Pair, Windows!bio_net_ws_connect(c)
    PROVE  WinStep
<1>1. PICK fd, file, mode, s : /\ fd = Windows!NewFd /\ file = files + 1
                               /\ mode = Windows!InitMode /\ s = Windows!Skip(files + 1)
  OBVIOUS
<1>2. fd \in LinuxFd /\ Opened(fd) /\ Windows!NewFile = file
  BY <1>1, WinOpens DEF Windows!bio_net_ws_connect
<1>3. file \in Nat
  BY <1>1, WinKnown
<1>4. /\ call[c] = NoCall /\ skip' = s /\ UNCHANGED <<obj, strayed, lost>>
  BY <1>1, <1>2, WinNames DEF Windows!bio_net_ws_connect
<1>5. PICK e \in Windows!Outcomes(file, s) :
          Windows!Update(c, [Windows!Started(Windows!Holding(Windows!Call("connect", "ioctl", 0, "wait")), e) EXCEPT
                                 !.pkt = IF Windows!MustWait(e.res, mode) THEN @ ELSE "taken"])
  BY <1>1, <1>2 DEF Windows!bio_net_ws_connect
<1>6. OutcomeIs(e, file, s)
  BY <1>5, OutcomeFacts
<1>7. mode \in {"skip", "always"} /\ (mode = "skip" => file \in s) /\ (mode = "always" => s = {})
  BY <1>1, WinKnown DEF Windows!InitMode, Windows!Skip
<1>8. IF Windows!MustWait(e.res, mode) THEN e.pkt # "none" ELSE e.pkt = "none" /\ e.res = "ok"
  BY <1>6, <1>7, WaitTells
<1>9. PICK t : t = TheCall("connect", "ioctl", 0, "wait")
  OBVIOUS
<1>10. "connect" \in Op /\ "ioctl" \in Step /\ "wait" \in At
  BY DEF Op, Step, At
<1>11. Fresh(t, LinuxFd, "connect", "ioctl", 0, 0, 0, "wait")
  BY <1>9, <1>10, LinuxZero, FreeCallFields
<1>12. PICK h : h = Windows!Holding(t)
  OBVIOUS
<1>13. h = [t EXCEPT !.fd = fd, !.file = file, !.own = TRUE]
  BY <1>1, <1>2, <1>12 DEF Windows!Holding
<1>14. HoldsNew(h, t, fd, file)
  BY <1>2, <1>3, <1>11, <1>13, HoldingFields DEF Fresh
<1>15. PICK q : q = Windows!Started(h, e)
  OBVIOUS
<1>16. BeginsAs(q, h, e.res, e.pkt)
  BY <1>6, <1>14, <1>15, StartedFields DEF HoldsNew, OutcomeIs
<1>17. PICK p : p = [q EXCEPT !.pkt = IF Windows!MustWait(e.res, mode) THEN @ ELSE "taken"]
  OBVIOUS
<1>18. /\ p \in CallRecord(LinuxFd) /\ p.op = q.op /\ p.step = q.step /\ p.o = q.o /\ p.fd = q.fd
       /\ p.file = q.file /\ p.own = q.own /\ p.at = q.at /\ p.pkt # "none"
  BY <1>8, <1>16, <1>17 DEF BeginsAs, CallRecord
<1>19. Windows!Update(c, p)
  BY <1>5, <1>9, <1>12, <1>15, <1>17, WinNames
<1>20. call' \in [Pair -> CallRecord(LinuxFd)] /\ Others(Pair, c) /\ call'[c] = p
  BY <1>18, <1>19, WinUpdates
<1>21. WConnect(c, fd)
  BY <1>1, <1>2, <1>4, <1>11, <1>14, <1>16, <1>18, <1>20 DEF WConnect, Becomes, BeginsAs, HoldsNew, Fresh
<1>22. Typed(Pair, LinuxFd)'
  BY <1>4, <1>20, WinKnown DEF Typed
<1> QED BY <1>2, <1>21, <1>22 DEF WinStep, WinStepOf

\* The call of c hands its handle to a new socket.
LEMMA WinHands ==
    ASSUME WinInv, NEW c \in Pair, NEW mode \in {"unknown", "skip", "always"}, Windows!Hand(c, "ws", mode),
           call[c].own, call[c].step # "pipe", call[c].at = "wait",
           mode = "unknown" \/ (call[c].op = "connect" /\ mode = ModeOf(call[c].file))
    PROVE  WinStep
<1>1. PICK fd, file : fd = call[c].fd /\ file = call[c].file
  OBVIOUS
<1>2. fd \in LinuxFd /\ file \in Nat
  BY <1>1, WinKnown DEF CallRecord
<1>3. obj' = Append(obj, TheObject("ws", fd, file, mode)) /\ Windows!Update(c, Windows!Idle) /\ WKernel
  BY <1>1, WinNames DEF Windows!Hand, Windows!kernelVars, WKernel
<1>4. obj' \in Seq(ObjectRecord(Pair, LinuxFd)) /\ Grown(Len(obj) + 1, "ws", fd, file, mode)
  BY <1>2, <1>3, WinKnown, GrowFacts
<1>5. call' \in [Pair -> CallRecord(LinuxFd)] /\ Returns(Pair, c)
  BY <1>3, WinIdles
<1>6. WHand(c, mode)
  BY <1>1, <1>3, <1>4, <1>5 DEF WHand
<1> QED BY <1>4, <1>5, <1>6 DEF WinStep, WinStepOf, Typed

\* A call that gives up its handle takes one of the steps.
LEMMA WinDrops ==
    ASSUME WinInv, NEW c \in Pair, Windows!Drop(c), call[c].own, call[c].step # "pipe"
    PROVE  WinStep
<1>1. /\ dt' = [dt EXCEPT ![call[c].fd] = 0] /\ Windows!Update(c, Windows!Idle)
      /\ UNCHANGED <<files, strayed, skip, obj, lost>>
  BY DEF Windows!Drop
<1>2. call' \in [Pair -> CallRecord(LinuxFd)] /\ Returns(Pair, c)
  BY <1>1, WinIdles
<1>3. WDrop(c)
  BY <1>1, <1>2 DEF WDrop
<1>4. Typed(Pair, LinuxFd)'
  BY <1>1, <1>2, WinKnown DEF Typed
<1> QED BY <1>3, <1>4 DEF WinStep, WinStepOf

\* A connection that ends or goes on takes one of the steps.
LEMMA WinConnectEnds ==
    ASSUME WinInv, NEW c \in Pair, Windows!ConnectEnds(c)
    PROVE  WinStep
<1>1. PICK file, mode, s : file = call[c].file /\ mode = ModeOf(call[c].file) /\ s = skip
  OBVIOUS
<1>2. /\ call[c].op = "connect" /\ call[c].at = "wait" /\ call[c].step \in {"ioctl", "connect"} /\ call[c].own
  BY WinKnown DEF Windows!ConnectEnds, WinShape, WinOwn
<1>3. mode \in {"skip", "always"} /\ (mode = "skip" => file \in s) /\ (mode = "always" => s = {})
  <2>1. 0 \in skip => call[c].file \in skip
    BY <1>2 DEF WinInv, WinSkips
  <2> QED BY <1>1, <2>1, WinKnown DEF ModeOf
<1>4. CASE /\ \E e \in Windows!Outcomes(file, s) :
                Windows!Update(c, [Windows!Started(call[c], e) EXCEPT
                                       !.step = "connect",
                                       !.pkt = IF Windows!MustWait(e.res, mode) THEN @ ELSE "taken"])
           /\ WKernel /\ UNCHANGED obj
  <2>1. PICK e \in Windows!Outcomes(file, s) :
            Windows!Update(c, [Windows!Started(call[c], e) EXCEPT
                                   !.step = "connect",
                                   !.pkt = IF Windows!MustWait(e.res, mode) THEN @ ELSE "taken"])
    BY <1>4
  <2>2. OutcomeIs(e, file, s)
    BY <2>1, OutcomeFacts
  <2>3. IF Windows!MustWait(e.res, mode) THEN e.pkt # "none" ELSE e.pkt = "none" /\ e.res = "ok"
    BY <1>3, <2>2, WaitTells
  <2>4. PICK h : h = call[c]
    OBVIOUS
  <2>5. h \in CallRecord(LinuxFd)
    BY <2>4, WinKnown
  <2>6. PICK q : q = Windows!Started(h, e)
    OBVIOUS
  <2>7. BeginsAs(q, h, e.res, e.pkt)
    BY <2>2, <2>5, <2>6, StartedFields DEF OutcomeIs
  <2>8. PICK p : p = [q EXCEPT !.step = "connect", !.pkt = IF Windows!MustWait(e.res, mode) THEN @ ELSE "taken"]
    OBVIOUS
  <2>9. "connect" \in Step
    BY DEF Step
  <2>10. /\ p \in CallRecord(LinuxFd) /\ p.op = q.op /\ p.step = "connect" /\ p.o = q.o /\ p.fd = q.fd
         /\ p.file = q.file /\ p.own = q.own /\ p.at = q.at /\ p.pkt # "none"
    BY <2>3, <2>7, <2>8, <2>9 DEF BeginsAs, CallRecord
  <2>11. Windows!Update(c, p)
    BY <2>1, <2>4, <2>6, <2>8
  <2>12. call' \in [Pair -> CallRecord(LinuxFd)] /\ Others(Pair, c) /\ call'[c] = p
    BY <2>10, <2>11, WinUpdates
  <2>13. WConnecting(c)
    BY <1>2, <1>4, <2>4, <2>7, <2>10, <2>12 DEF WConnecting, Continues, Becomes, BeginsAs
  <2>14. Typed(Pair, LinuxFd)'
    BY <1>4, <2>12, WinKnown DEF Typed
  <2> QED BY <2>13, <2>14 DEF WinStep, WinStepOf
<1>5. CASE Windows!Hand(c, "ws", mode)
  BY <1>1, <1>2, <1>3, <1>5, WinHands
<1>6. CASE Windows!Drop(c)
  BY <1>2, <1>6, WinDrops
<1> QED BY <1>1, <1>4, <1>5, <1>6 DEF Windows!ConnectEnds, ModeOf, Windows!kernelVars, WKernel

\* A call that has returned at once, or whose operation has begun.
LEMMA ReturnedFacts ==
    ASSUME NEW e, e.pkt = "none", e.res \in {"ok", "connected"}
    PROVE  Windows!Returned(Windows!Started(Windows!Idle, e)) = Windows!Idle
<1>1. PICK r, q : r = Windows!Idle /\ q = Windows!Started(r, e)
  OBVIOUS
<1>2. r \in CallRecord(LinuxFd)
  BY <1>1, WinNames, LinuxZero, NoCallFields
<1>3. BeginsAs(q, r, e.res, e.pkt)
  BY <1>1, <1>2, StartedFields
<1> QED BY <1>1, <1>3 DEF BeginsAs, Windows!Returned

\* AcceptEx of a listener whose mode is told.
LEMMA WinAccepts ==
    ASSUME WinInv, NEW c \in Pair, NEW o \in DOMAIN obj, NEW mode, NEW s, ModeFits(mode, obj[o].file, s),
           Windows!AcceptEx(c, o, mode, s), TunesTo(o, mode), UNCHANGED <<strayed, lost>>,
           ~call[c].own, call[c].at \in {"none", "wait"}, call[c].step # "pipe"
    PROVE  WinStep
<1>1. PICK file, new, fd : file = obj[o].file /\ new = files + 1 /\ fd = Windows!NewFd
  OBVIOUS
<1>2. mode \in {"skip", "always"} /\ (mode = "skip" => file \in s) /\ (mode = "always" => s = {})
  BY <1>1 DEF ModeFits
<1>3. new \in Nat
  BY <1>1, WinKnown
<1>4. ASSUME obj' = [obj EXCEPT ![o].mode = mode, ![o].listen = TRUE]
      PROVE  obj' \in Seq(ObjectRecord(Pair, LinuxFd)) /\ Tunes(o, mode)
  BY <1>2, <1>4, TuneFacts
<1>5. CASE /\ Windows!Update(c, Windows!Idle)
           /\ obj' = [obj EXCEPT ![o].mode = mode, ![o].listen = TRUE]
           /\ UNCHANGED <<dt, files>>
  <2>1. call' \in [Pair -> CallRecord(LinuxFd)] /\ Returns(Pair, c)
    BY <1>5, WinIdles
  <2>2. WTuned(c, o, mode)
    BY <1>4, <1>5, <2>1 DEF WTuned
  <2> QED BY <1>4, <1>5, <2>1, <2>2 DEF WinStep, WinStepOf, Typed
<1>6. ASSUME Windows!OpenFile, NEW e \in Windows!Outcomes(file, s),
             IF Windows!MustWait(e.res, mode)
             THEN /\ Windows!Update(c, Windows!Started(Windows!Holding(Windows!Call("accept", "accept", o, "wait")), e))
                  /\ obj' = [obj EXCEPT ![o].mode = mode, ![o].listen = TRUE]
             ELSE /\ Windows!Update(c, Windows!Returned(Windows!Started(Windows!Idle, e)))
                  /\ obj' = Append([obj EXCEPT ![o].mode = mode, ![o].listen = TRUE],
                                   Windows!Object("ws", Windows!NewFd, Windows!NewFile, "unknown"))
      PROVE  WinStep
  <2>1. fd \in LinuxFd /\ Opened(fd) /\ Windows!NewFile = new
    BY <1>1, <1>6, WinOpens
  <2>2. OutcomeIs(e, file, s)
    BY <1>6, OutcomeFacts
  <2>3. IF Windows!MustWait(e.res, mode) THEN e.pkt # "none" ELSE e.pkt = "none" /\ e.res = "ok"
    BY <1>2, <2>2, WaitTells
  <2>4. CASE Windows!MustWait(e.res, mode)
    <3>1. PICK t : t = TheCall("accept", "accept", o, "wait")
      OBVIOUS
    <3>2. "accept" \in Op /\ "accept" \in Step /\ "wait" \in At
      BY DEF Op, Step, At
    <3>3. Fresh(t, LinuxFd, "accept", "accept", o, obj[o].fd, obj[o].file, "wait")
      BY <3>1, <3>2, WinKnown, CallFields
    <3>4. PICK h : h = Windows!Holding(t)
      OBVIOUS
    <3>5. h = [t EXCEPT !.fd = fd, !.file = new, !.own = TRUE]
      BY <1>1, <2>1, <3>4 DEF Windows!Holding
    <3>6. HoldsNew(h, t, fd, new)
      BY <1>3, <2>1, <3>3, <3>5, HoldingFields DEF Fresh
    <3>7. PICK q : q = Windows!Started(h, e)
      OBVIOUS
    <3>8. BeginsAs(q, h, e.res, e.pkt)
      BY <2>2, <3>6, <3>7, StartedFields DEF HoldsNew, OutcomeIs
    <3>9. Windows!Update(c, q) /\ obj' = [obj EXCEPT ![o].mode = mode, ![o].listen = TRUE]
      BY <1>6, <2>4, <3>1, <3>4, <3>7, WinNames
    <3>10. call' \in [Pair -> CallRecord(LinuxFd)] /\ Others(Pair, c) /\ call'[c] = q
      BY <3>8, <3>9, WinUpdates DEF BeginsAs
    <3>11. Becomes(c, "accept", "accept", o, fd, files + 1, TRUE, "wait") /\ call'[c].pkt # "none"
      BY <1>1, <2>3, <2>4, <3>3, <3>6, <3>8, <3>10 DEF Becomes, BeginsAs, HoldsNew, Fresh
    <3>12. WAccept(c, o, fd, mode)
      BY <1>4, <2>1, <3>9, <3>11 DEF WAccept
    <3> QED BY <1>4, <2>1, <3>9, <3>10, <3>12 DEF WinStep, WinStepOf, Typed
  <2>5. CASE ~Windows!MustWait(e.res, mode)
    <3>1. Windows!Update(c, Windows!Idle)
      BY <1>6, <2>3, <2>5, ReturnedFacts
    <3>2. call' \in [Pair -> CallRecord(LinuxFd)] /\ Returns(Pair, c)
      BY <3>1, WinIdles
    <3>3. obj[o] \in ObjectRecord(Pair, LinuxFd) /\ Typed(Pair, LinuxFd)
      BY WinKnown
    <3>4. PICK q : q = [obj[o] EXCEPT !.mode = mode, !.listen = TRUE]
      OBVIOUS
    <3>5. /\ q \in ObjectRecord(Pair, LinuxFd) /\ q.kind = obj[o].kind /\ q.live = obj[o].live /\ q.mem = obj[o].mem
          /\ q.fd = obj[o].fd /\ q.file = obj[o].file /\ q.mode = mode /\ q.acceptors = obj[o].acceptors
      BY <1>2, <3>3, <3>4 DEF ObjectRecord
    <3>6. obj' = Append([obj EXCEPT ![o] = q], TheObject("ws", fd, new, "unknown"))
      <4>1. obj' = Append([obj EXCEPT ![o].mode = mode, ![o].listen = TRUE], TheObject("ws", fd, new, "unknown"))
        BY <1>1, <1>6, <2>1, <2>5, WinNames
      <4>2. [obj EXCEPT ![o].mode = mode, ![o].listen = TRUE] = [obj EXCEPT ![o] = q]
        BY <3>4
      <4> QED BY <4>1, <4>2
    <3>7. /\ obj' \in Seq(ObjectRecord(Pair, LinuxFd))
          /\ EditsGrown(o, q.fd, q.file, q.mode, q.acceptors, Len(obj) + 1, "ws", fd, new, "unknown")
      BY <1>3, <2>1, <3>3, <3>5, <3>6, EditGrowFacts
    <3>8. WAccepted(c, o, fd, mode)
      BY <1>1, <2>1, <3>2, <3>5, <3>7 DEF WAccepted, Entries
    <3> QED BY <2>1, <3>2, <3>7, <3>8 DEF WinStep, WinStepOf, Typed
  <2> QED BY <2>4, <2>5
<1> QED BY <1>1, <1>5, <1>6 DEF Windows!AcceptEx

\* bio_net_ws_accept is one of the steps, whether or not it knows AcceptEx.
LEMMA WinSocketAccepts ==
    ASSUME WinInv, NEW c \in Pair, NEW o \in DOMAIN obj, Windows!bio_net_ws_accept(c, o)
    PROVE  WinStep
<1>1. PICK mode, s, file : mode = Windows!Mode(o) /\ s = Windows!Skips(o) /\ file = obj[o].file
  OBVIOUS
<1>2. /\ call[c] = NoCall /\ obj[o].live /\ obj[o].kind = "ws" /\ skip' = s /\ UNCHANGED <<strayed, lost>>
  BY <1>1, WinNames DEF Windows!bio_net_ws_accept, Windows!Open
<1>3. ModeFits(mode, file, s)
  <2>1. obj[o].mem
    BY <1>2, WinKnown DEF WinMode
  <2> QED BY <1>1, <2>1, ModeAgrees
<1>4. TunesTo(o, mode)
  BY <1>1, <1>2, <1>3 DEF TunesTo, ModeFits
<1>5. ~call[c].own /\ call[c].at = "none" /\ call[c].step # "pipe"
  BY <1>2, NoCallFields, LinuxZero
<1>6. CASE Windows!AcceptEx(c, o, mode, s)
  BY <1>1, <1>2, <1>3, <1>4, <1>5, <1>6, WinAccepts
<1>7. CASE /\ \E e \in Windows!Outcomes(file, s) :
                /\ Windows!MustWait(e.res, mode)
                /\ Windows!Update(c, Windows!Started(Windows!Call("accept", "ioctl", o, "wait"), e))
           /\ obj' = [obj EXCEPT ![o].mode = mode]
           /\ UNCHANGED <<dt, files>>
  <2>1. PICK e \in Windows!Outcomes(file, s) :
            /\ Windows!MustWait(e.res, mode)
            /\ Windows!Update(c, Windows!Started(Windows!Call("accept", "ioctl", o, "wait"), e))
    BY <1>7
  <2>2. OutcomeIs(e, file, s)
    BY <2>1, OutcomeFacts
  <2>3. e.pkt # "none"
    BY <1>3, <2>1, <2>2, WaitTells DEF ModeFits
  <2>4. obj' \in Seq(ObjectRecord(Pair, LinuxFd)) /\ Tunes(o, mode)
    BY <1>3, <1>4, <1>7, TuneFacts DEF ModeFits
  <2>5. PICK t : t = TheCall("accept", "ioctl", o, "wait")
    OBVIOUS
  <2>6. "accept" \in Op /\ "ioctl" \in Step /\ "wait" \in At
    BY DEF Op, Step, At
  <2>7. Fresh(t, LinuxFd, "accept", "ioctl", o, obj[o].fd, obj[o].file, "wait")
    BY <2>5, <2>6, WinKnown, CallFields
  <2>8. PICK q : q = Windows!Started(t, e)
    OBVIOUS
  <2>9. BeginsAs(q, t, e.res, e.pkt)
    BY <2>2, <2>7, <2>8, StartedFields DEF Fresh, OutcomeIs
  <2>10. Windows!Update(c, q)
    BY <2>1, <2>5, <2>8, WinNames
  <2>11. call' \in [Pair -> CallRecord(LinuxFd)] /\ Others(Pair, c) /\ call'[c] = q
    BY <2>9, <2>10, WinUpdates DEF BeginsAs
  <2>12. WAsk(c, o, mode)
    BY <1>2, <1>7, <2>3, <2>4, <2>7, <2>9, <2>11 DEF WAsk, Becomes, BeginsAs, Fresh
  <2> QED BY <2>4, <2>11, <2>12 DEF WinStep, WinStepOf, Typed
<1> QED BY <1>1, <1>6, <1>7 DEF Windows!bio_net_ws_accept

\* What bio_net_ws_accept does after its waits is one of the steps.
LEMMA WinAcceptEnds ==
    ASSUME WinInv, NEW c \in Pair, Windows!AcceptExEnds(c)
    PROVE  WinStep
<1>1. PICK o : o = call[c].o
  OBVIOUS
<1>2. /\ call[c].op = "accept" /\ call[c].at = "wait" /\ call[c].pkt = "taken"
      /\ call[c].step \in {"ioctl", "accept"} /\ call[c].step # "pipe"
  BY DEF Windows!AcceptExEnds, Windows!Awake
<1>3. /\ o \in DOMAIN obj /\ WinMode(o)
      /\ call[c].step = "ioctl" => ~call[c].own /\ obj[o].mode # "unknown"
      /\ call[c].step = "accept" => call[c].own
  BY <1>1, <1>2, WinKnown DEF WinShape, WinOwn, WinNamed
<1>4. CASE /\ call[c].step = "ioctl" /\ obj[o].mem
           /\ Windows!AcceptEx(c, o, obj[o].mode, skip)
           /\ UNCHANGED <<strayed, skip, lost>>
  <2>1. PICK mode, s : mode = obj[o].mode /\ s = skip
    OBVIOUS
  <2>2. ModeFits(mode, obj[o].file, s)
    <3>1. ModeFits(Windows!Mode(o), obj[o].file, Windows!Skips(o))
      BY <1>3, <1>4, ModeAgrees
    <3> QED BY <1>3, <1>4, <2>1, <3>1 DEF Windows!Mode, Windows!Skips
  <2>3. TunesTo(o, mode)
    BY <1>3, <1>4, <2>1 DEF TunesTo
  <2>4. Windows!AcceptEx(c, o, mode, s)
    BY <1>4, <2>1
  <2> QED BY <1>2, <1>3, <1>4, <2>2, <2>3, <2>4, WinAccepts
<1>5. CASE call[c].step = "ioctl" /\ Windows!Return(c)
  BY <1>2, <1>3, <1>5, WinReturnStep
<1>6. CASE call[c].step = "accept" /\ Windows!Hand(c, "ws", "unknown")
  BY <1>2, <1>3, <1>6, WinHands
<1>7. CASE call[c].step = "accept" /\ Windows!Drop(c)
  BY <1>2, <1>3, <1>7, WinDrops
<1>8. CASE ~obj[o].mem /\ Windows!Undefined(c)
  <2>1. ~obj[call[c].o].live
    BY <1>1, <1>3, <1>8 DEF WinMode
  <2> QED BY <1>2, <1>8, <2>1, WinUndefines
<1> QED BY <1>1, <1>4, <1>5, <1>6, <1>7, <1>8 DEF Windows!AcceptExEnds, Windows!Awake

\* Object o with another instance behind it, and with that list of acceptors.
Renewed(q, o, fd, file, list) ==
    /\ q \in ObjectRecord(Pair, LinuxFd)
    /\ q.kind = obj[o].kind /\ q.live = obj[o].live /\ q.mem = obj[o].mem
    /\ q.fd = fd /\ q.file = file /\ q.mode = "unknown" /\ q.acceptors = list

\* The fields of a pipe that gets a new instance.
LEMMA RenewedFields ==
    ASSUME NEW o, obj[o] \in ObjectRecord(Pair, LinuxFd), NEW fd \in LinuxFd, NEW file \in Nat, NEW q,
           q = [obj[o] EXCEPT !.fd = fd, !.file = file, !.mode = "unknown", !.listen = TRUE]
    PROVE  Renewed(q, o, fd, file, Entries(o))
  BY DEF ObjectRecord, Renewed, Entries

\* The fields of a pipe whose list gets a new entry.
LEMMA ListedFields ==
    ASSUME NEW o, NEW fd, NEW file, NEW list, list \in Seq([c : Pair, stale : BOOLEAN]), NEW q, NEW p,
           Renewed(q, o, fd, file, list), NEW e \in [c : Pair, stale : BOOLEAN],
           p = [q EXCEPT !.acceptors = Append(@, e)]
    PROVE  Renewed(p, o, fd, file, Append(list, e))
<1>1. PICK l : l = Append(list, e)
  OBVIOUS
<1>2. l \in Seq([c : Pair, stale : BOOLEAN])
  BY <1>1, AppendFacts
<1>3. p = [q EXCEPT !.acceptors = l]
  BY <1>1 DEF Renewed, ObjectRecord
<1> QED BY <1>1, <1>2, <1>3 DEF Renewed, ObjectRecord

\* bio_net_pipe_accept is one of the steps, along each of its paths.
LEMMA WinPipeAccepts ==
    ASSUME WinInv, NEW c \in Pair, NEW o \in DOMAIN obj, Windows!bio_net_pipe_accept(c, o)
    PROVE  WinStep
<1>1. PICK fd, new, old, file, mode, s :
          /\ fd = Windows!NewFd /\ new = files + 1 /\ old = obj[o].fd /\ file = obj[o].file
          /\ mode = Windows!Mode(o) /\ s = Windows!Skips(o)
  OBVIOUS
<1>2. fd \in LinuxFd /\ dt[fd] = 0 /\ Windows!NewFile = new /\ new \in Nat
  BY <1>1, WinNewFd, WinKnown DEF Windows!bio_net_pipe_accept
<1>3. /\ call[c] = NoCall /\ obj[o].live /\ obj[o].kind = "pipe" /\ files' = new /\ skip' = s /\ UNCHANGED strayed
  BY <1>1, <1>2, WinNames DEF Windows!bio_net_pipe_accept, Windows!Open
<1>4. Renews(o, fd)
  BY <1>1, <1>2, <1>3 DEF Renews
<1>5. /\ obj[o] \in ObjectRecord(Pair, LinuxFd) /\ Typed(Pair, LinuxFd)
      /\ Entries(o) \in Seq([c : Pair, stale : BOOLEAN]) /\ old \in LinuxFd /\ file \in Nat
      /\ obj \in Seq(ObjectRecord(Pair, LinuxFd)) /\ call \in [Pair -> CallRecord(LinuxFd)]
  BY <1>1, WinKnown DEF ObjectRecord, Entries, Typed
<1>6. ModeFits(mode, file, s)
  <2>1. obj[o].mem
    BY <1>3, WinKnown DEF WinMode
  <2> QED BY <1>1, <2>1, ModeAgrees
<1>7. PICK q : q = [obj[o] EXCEPT !.fd = fd, !.file = new, !.mode = "unknown", !.listen = TRUE]
  OBVIOUS
<1>8. Renewed(q, o, fd, new, Entries(o))
  BY <1>2, <1>5, <1>7, RenewedFields
<1>9. Windows!Swap(o) = [obj EXCEPT ![o] = q]
  BY <1>1, <1>2, <1>7 DEF Windows!Swap
<1>10. ASSUME obj' = Windows!Swap(o)
       PROVE  obj' \in Seq(ObjectRecord(Pair, LinuxFd)) /\ Edits(o, fd, files + 1, "unknown", Entries(o))
  <2>1. obj' \in Seq(ObjectRecord(Pair, LinuxFd)) /\ Edits(o, q.fd, q.file, q.mode, q.acceptors)
    BY <1>5, <1>8, <1>9, <1>10, EditFacts DEF Renewed
  <2> QED BY <1>1, <1>8, <2>1 DEF Renewed
<1>11. ASSUME NEW stale \in BOOLEAN, obj' = [Windows!Swap(o) EXCEPT ![o].acceptors = Append(@, Windows!Entry(c, stale))]
       PROVE  /\ obj' \in Seq(ObjectRecord(Pair, LinuxFd))
              /\ Edits(o, fd, files + 1, "unknown", Append(Entries(o), [c |-> c, stale |-> stale]))
  <2>1. PICK e, p : e = [c |-> c, stale |-> stale] /\ p = [q EXCEPT !.acceptors = Append(@, e)]
    OBVIOUS
  <2>2. e \in [c : Pair, stale : BOOLEAN]
    BY <2>1
  <2>3. Renewed(p, o, fd, new, Append(Entries(o), e))
    <3>1. PICK list : list = Entries(o)
      OBVIOUS
    <3>2. list \in Seq([c : Pair, stale : BOOLEAN]) /\ Renewed(q, o, fd, new, list)
      BY <1>5, <1>8, <3>1
    <3>3. Renewed(p, o, fd, new, Append(list, e))
      BY <2>1, <2>2, <3>2, ListedFields
    <3> QED BY <3>1, <3>3
  <2>4. obj' = [obj EXCEPT ![o] = p]
    <3>1. obj' = [[obj EXCEPT ![o] = q] EXCEPT ![o].acceptors = Append(@, e)]
      BY <1>9, <1>11, <2>1 DEF Windows!Entry
    <3>2. obj \in [DOMAIN obj -> ObjectRecord(Pair, LinuxFd)]
      BY <1>5
    <3> QED BY <2>1, <3>1, <3>2
  <2>5. obj' \in Seq(ObjectRecord(Pair, LinuxFd)) /\ Edits(o, p.fd, p.file, p.mode, p.acceptors)
    BY <1>5, <2>3, <2>4, EditFacts DEF Renewed
  <2> QED BY <1>1, <2>1, <2>3, <2>5 DEF Renewed
<1>12. CASE /\ dt' = [dt EXCEPT ![Windows!NewFd] = Windows!NewFile, ![obj[o].fd] = 0]
            /\ obj' = Windows!Swap(o)
            /\ UNCHANGED <<call, lost>>
  <2>1. WPipeFails(c, o, fd)
    BY <1>1, <1>2, <1>4, <1>10, <1>12 DEF WPipeFails
  <2>2. Typed(Pair, LinuxFd)'
    BY <1>5, <1>10, <1>12 DEF Typed
  <2> QED BY <1>2, <2>1, <2>2 DEF WinStep, WinStepOf
<1>13. CASE /\ Windows!AppendIsUndefined(o)
            /\ dt' = [dt EXCEPT ![Windows!NewFd] = Windows!NewFile]
            /\ obj' = Windows!Swap(o)
            /\ Windows!Update(c, Windows!Call("accept", "pipe", o, "undefined"))
            /\ lost' = lost \cup {obj[o].file}
  <2>1. Stale(o)
    BY <1>5, <1>13 DEF Windows!AppendIsUndefined, Windows!Acceptors, Stale, Entries
  <2>2. PICK t : t = TheCall("accept", "pipe", o, "undefined")
    OBVIOUS
  <2>3. "accept" \in Op /\ "pipe" \in Step /\ "undefined" \in At
    BY DEF Op, Step, At
  <2>4. Fresh(t, LinuxFd, "accept", "pipe", o, obj[o].fd, obj[o].file, "undefined")
    BY <2>2, <2>3, WinKnown, CallFields
  <2>5. Windows!Update(c, t)
    BY <1>13, <2>2, WinNames
  <2>6. call' \in [Pair -> CallRecord(LinuxFd)] /\ Others(Pair, c) /\ call'[c] = t
    BY <2>4, <2>5, WinUpdates DEF Fresh
  <2>7. WPipeUndefined(c, o, fd)
    <3>1. Becomes(c, "accept", "pipe", o, obj[o].fd, obj[o].file, FALSE, "undefined")
      BY <2>4, <2>6 DEF Becomes, Fresh
    <3> QED BY <1>1, <1>2, <1>3, <1>4, <1>10, <1>13, <2>1, <3>1 DEF WPipeUndefined
  <2> QED BY <1>2, <1>10, <1>13, <2>6, <2>7 DEF WinStep, WinStepOf, Typed
<1>14. CASE /\ dt' = [dt EXCEPT ![Windows!NewFd] = Windows!NewFile, ![obj[o].fd] = 0]
            /\ obj' = [Windows!Swap(o) EXCEPT ![o].acceptors = Append(@, Windows!Entry(c, TRUE))]
            /\ UNCHANGED <<call, lost>>
  <2>1. /\ obj' \in Seq(ObjectRecord(Pair, LinuxFd))
        /\ Edits(o, fd, files + 1, "unknown", Append(Entries(o), [c |-> c, stale |-> TRUE]))
    BY <1>11, <1>14
  <2>2. WPipeFails(c, o, fd)
    BY <1>1, <1>2, <1>4, <1>14, <2>1 DEF WPipeFails
  <2>3. Typed(Pair, LinuxFd)'
    BY <1>5, <1>14, <2>1 DEF Typed
  <2> QED BY <1>2, <2>2, <2>3 DEF WinStep, WinStepOf
<1>15. ASSUME dt' = [dt EXCEPT ![Windows!NewFd] = Windows!NewFile], UNCHANGED lost,
              NEW e \in Windows!Outcomes(file, s) \cup {Windows!Connected},
              IF e # Windows!Connected /\ Windows!MustWait(e.res, mode)
              THEN /\ Windows!Update(c, [Windows!Started(Windows!Call("accept", "pipe", o, "wait"), e) EXCEPT !.own = TRUE])
                   /\ obj' = [Windows!Swap(o) EXCEPT ![o].acceptors = Append(@, Windows!Entry(c, FALSE))]
              ELSE /\ Windows!Update(c, Windows!Returned(Windows!Started(Windows!Idle, e)))
                   /\ obj' = Append(Windows!Swap(o), Windows!Object("pipe", obj[o].fd, obj[o].file, mode))
       PROVE  WinStep
  <2>1. /\ dt' = [dt EXCEPT ![fd] = files + 1]
    BY <1>1, <1>2, <1>15
  <2>2. CASE e # Windows!Connected /\ Windows!MustWait(e.res, mode)
    <3>1. OutcomeIs(e, file, s)
      BY <1>15, <2>2, OutcomeFacts
    <3>2. e.pkt # "none"
      BY <1>6, <2>2, <3>1, WaitTells DEF ModeFits
    <3>3. PICK t : t = TheCall("accept", "pipe", o, "wait")
      OBVIOUS
    <3>4. "accept" \in Op /\ "pipe" \in Step /\ "wait" \in At
      BY DEF Op, Step, At
    <3>5. Fresh(t, LinuxFd, "accept", "pipe", o, obj[o].fd, obj[o].file, "wait")
      BY <3>3, <3>4, WinKnown, CallFields
    <3>6. PICK h : h = Windows!Started(t, e)
      OBVIOUS
    <3>7. BeginsAs(h, t, e.res, e.pkt)
      BY <3>1, <3>5, <3>6, StartedFields DEF Fresh, OutcomeIs
    <3>8. PICK p : p = [h EXCEPT !.own = TRUE]
      OBVIOUS
    <3>9. /\ p \in CallRecord(LinuxFd) /\ p.op = h.op /\ p.step = h.step /\ p.o = h.o /\ p.fd = h.fd
          /\ p.file = h.file /\ p.own = TRUE /\ p.at = h.at /\ p.pkt = h.pkt
      BY <3>7, <3>8 DEF BeginsAs, CallRecord
    <3>10. /\ Windows!Update(c, p)
           /\ obj' = [Windows!Swap(o) EXCEPT ![o].acceptors = Append(@, Windows!Entry(c, FALSE))]
      BY <1>15, <2>2, <3>3, <3>6, <3>8, WinNames
    <3>11. call' \in [Pair -> CallRecord(LinuxFd)] /\ Others(Pair, c) /\ call'[c] = p
      BY <3>9, <3>10, WinUpdates
    <3>12. Becomes(c, "accept", "pipe", o, obj[o].fd, obj[o].file, TRUE, "wait") /\ call'[c].pkt # "none"
      BY <3>2, <3>5, <3>7, <3>9, <3>11 DEF Becomes, BeginsAs, Fresh
    <3>13. /\ obj' \in Seq(ObjectRecord(Pair, LinuxFd))
           /\ Edits(o, fd, files + 1, "unknown", Append(Entries(o), [c |-> c, stale |-> FALSE]))
      BY <1>11, <3>10
    <3>14. WPipeWait(c, o, fd)
      BY <1>3, <1>4, <1>15, <2>1, <3>12, <3>13 DEF WPipeWait
    <3> QED BY <1>2, <3>11, <3>13, <3>14 DEF WinStep, WinStepOf, Typed
  <2>3. CASE ~(e # Windows!Connected /\ Windows!MustWait(e.res, mode))
    <3>1. e.pkt = "none" /\ e.res \in {"ok", "connected"}
      <4>1. CASE e = Windows!Connected
        BY <4>1 DEF Windows!Connected
      <4>2. CASE e # Windows!Connected
        <5>1. OutcomeIs(e, file, s)
          BY <1>15, <4>2, OutcomeFacts
        <5> QED BY <1>6, <2>3, <4>2, <5>1, WaitTells DEF ModeFits
      <4> QED BY <4>1, <4>2
    <3>2. Windows!Update(c, NoCall)
      BY <1>15, <2>3, <3>1, ReturnedFacts, WinNames
    <3>3. UNCHANGED call
      BY <1>3, <1>5, <3>2 DEF Windows!Update
    <3>4. obj' = Append([obj EXCEPT ![o] = q], TheObject("pipe", old, file, mode))
      BY <1>1, <1>9, <1>15, <2>3, WinNames
    <3>5. /\ obj' \in Seq(ObjectRecord(Pair, LinuxFd))
          /\ EditsGrown(o, q.fd, q.file, q.mode, q.acceptors, Len(obj) + 1, "pipe", old, file, mode)
      <4>1. mode \in {"none", "unknown", "enabled", "disabled", "skip", "always"}
        BY <1>6 DEF ModeFits
      <4> QED BY <1>5, <1>8, <3>4, <4>1, EditGrowFacts DEF Renewed
    <3>6. WPipeNow(o, fd)
      BY <1>1, <1>4, <1>8, <1>15, <2>1, <3>3, <3>5 DEF WPipeNow, Renewed
    <3>7. Typed(Pair, LinuxFd)'
      BY <1>5, <3>3, <3>5 DEF Typed
    <3> QED BY <1>2, <3>6, <3>7 DEF WinStep, WinStepOf
  <2> QED BY <2>2, <2>3
<1> QED BY <1>1, <1>12, <1>13, <1>14, <1>15 DEF Windows!bio_net_pipe_accept

\* What bio_net_pipe_accept does after the wait is one of the steps.
LEMMA WinPipeAcceptEnds ==
    ASSUME WinInv, NEW c \in Pair, Windows!PipeAcceptEnds(c)
    PROVE  WinStep
<1>1. PICK o, i : o = call[c].o /\ i = Windows!Position(call[c].o, c)
  OBVIOUS
<1>2. /\ call[c].step = "pipe" /\ call[c].at = "wait" /\ call[c].pkt = "taken" /\ call[c].op = "accept"
  BY WinKnown DEF Windows!PipeAcceptEnds, Windows!Awake, WinShape
<1>3. /\ o \in DOMAIN obj /\ obj[o] \in ObjectRecord(Pair, LinuxFd) /\ Typed(Pair, LinuxFd)
      /\ Entries(o) \in Seq([c : Pair, stale : BOOLEAN])
      /\ obj \in [DOMAIN obj -> ObjectRecord(Pair, LinuxFd)]
  <2>1. o \in DOMAIN obj
    BY <1>1, <1>2, WinKnown DEF WinShape, WinNamed
  <2>2. obj[o] \in ObjectRecord(Pair, LinuxFd) /\ Typed(Pair, LinuxFd)
    BY <2>1, WinKnown
  <2>3. Entries(o) \in Seq([c : Pair, stale : BOOLEAN])
    BY <2>2 DEF ObjectRecord, Entries
  <2>4. obj \in Seq(ObjectRecord(Pair, LinuxFd))
    BY <2>2 DEF Typed
  <2>5. obj \in [DOMAIN obj -> ObjectRecord(Pair, LinuxFd)]
    BY <2>4
  <2> QED BY <2>1, <2>2, <2>3, <2>5
<1>4. ASSUME call[c].own PROVE HasEntry(c, i)
  <2>1. \E k \in DOMAIN Entries(o) : Entries(o)[k] = [c |-> c, stale |-> FALSE]
    BY <1>1, <1>2, <1>4 DEF WinInv, WinListed
  <2>2. i = CHOOSE k \in DOMAIN Entries(o) : Entries(o)[k] = [c |-> c, stale |-> FALSE]
    BY <1>1 DEF Windows!Position, Windows!Acceptors, Windows!Entry, Entries
  <2>3. i \in DOMAIN Entries(o) /\ Entries(o)[i] = [c |-> c, stale |-> FALSE]
    BY <2>1, <2>2
  <2> QED BY <1>1, <1>2, <1>4, <2>3 DEF HasEntry
<1>5. CASE ~call[c].own /\ Windows!Return(c)
  BY <1>2, <1>5, WinReturnStep
<1>6. CASE /\ call[c].own
           /\ obj' = [obj EXCEPT ![o].acceptors[i].stale = TRUE]
           /\ dt' = [dt EXCEPT ![call[c].fd] = 0]
           /\ Windows!Update(c, Windows!Idle)
           /\ UNCHANGED <<files, strayed, skip, lost>>
  <2>1. i \in DOMAIN Entries(o) /\ Entries(o)[i] = [c |-> c, stale |-> FALSE]
    BY <1>1, <1>4, <1>6 DEF HasEntry
  <2>2. PICK l, list : l = Entries(o) /\ list = [l EXCEPT ![i].stale = TRUE]
    OBVIOUS
  <2>3. list \in Seq([c : Pair, stale : BOOLEAN]) /\ list = [l EXCEPT ![i] = [c |-> c, stale |-> TRUE]]
    <3>1. l \in Seq([c : Pair, stale : BOOLEAN]) /\ i \in DOMAIN l /\ l[i] = [c |-> c, stale |-> FALSE]
      BY <1>3, <2>1, <2>2
    <3>2. list = [l EXCEPT ![i] = [l[i] EXCEPT !.stale = TRUE]]
      BY <2>2
    <3>3. [l[i] EXCEPT !.stale = TRUE] = [c |-> c, stale |-> TRUE]
      <4>1. PICK x : x = l[i]
        OBVIOUS
      <4>2. x = [c |-> c, stale |-> FALSE]
        BY <3>1, <4>1
      <4>3. [x EXCEPT !.stale = TRUE] = [c |-> c, stale |-> TRUE]
        <5>1. PICK y : y = [x EXCEPT !.stale = TRUE]
          OBVIOUS
        <5>2. y \in [c : Pair, stale : BOOLEAN] /\ y.c = c /\ y.stale = TRUE
          BY <4>2, <5>1
        <5>3. y = [c |-> y.c, stale |-> y.stale]
          BY <5>2
        <5> QED BY <5>1, <5>2, <5>3
      <4> QED BY <4>1, <4>3
    <3>4. list = [l EXCEPT ![i] = [c |-> c, stale |-> TRUE]]
      BY <3>2, <3>3
    <3> QED BY <3>1, <3>4
  <2>4. PICK q : q = [obj[o] EXCEPT !.acceptors = list]
    OBVIOUS
  <2>5. /\ q \in ObjectRecord(Pair, LinuxFd) /\ q.kind = obj[o].kind /\ q.live = obj[o].live /\ q.mem = obj[o].mem
        /\ q.fd = obj[o].fd /\ q.file = obj[o].file /\ q.mode = obj[o].mode /\ q.acceptors = list
    BY <1>3, <2>3, <2>4 DEF ObjectRecord
  <2>6. obj' = [obj EXCEPT ![o] = q]
    BY <1>3, <1>6, <2>2, <2>4 DEF Entries
  <2>7. obj' \in Seq(ObjectRecord(Pair, LinuxFd)) /\ Edits(o, q.fd, q.file, q.mode, q.acceptors)
    BY <1>3, <2>5, <2>6, EditFacts
  <2>8. call' \in [Pair -> CallRecord(LinuxFd)] /\ Returns(Pair, c)
    BY <1>6, WinIdles
  <2>9. q.acceptors = [Entries(o) EXCEPT ![i] = [c |-> c, stale |-> TRUE]]
    BY <2>2, <2>3, <2>5
  <2>10. WPipeStale(c, i)
    BY <1>1, <1>4, <1>6, <2>5, <2>7, <2>8, <2>9 DEF WPipeStale
  <2> QED BY <2>7, <2>8, <2>10 DEF WinStep, WinStepOf, Typed
<1>7. CASE call[c].own /\ Windows!RemoveIsUndefined(o, i) /\ Windows!Undefined(c)
  <2>1. Stale(call[c].o)
    BY <1>1, <1>7 DEF Windows!RemoveIsUndefined, Windows!Acceptors, Stale, Entries
  <2> QED BY <1>2, <1>7, <2>1, WinUndefines
<1>8. CASE /\ call[c].own
           /\ obj' = Append([obj EXCEPT ![o].acceptors = Windows!Without(@, i)],
                            Windows!Object("pipe", call[c].fd, call[c].file, ModeOf(call[c].file)))
           /\ Windows!Update(c, Windows!Idle)
           /\ WKernel
  <2>1. i \in DOMAIN Entries(o)
    BY <1>1, <1>4, <1>8 DEF HasEntry
  <2>2. PICK l, list : l = Entries(o) /\ list = Without(l, i)
    OBVIOUS
  <2>3. list \in Seq([c : Pair, stale : BOOLEAN])
    <3>1. l \in Seq([c : Pair, stale : BOOLEAN]) /\ i \in DOMAIN l
      BY <1>3, <2>1, <2>2
    <3> QED BY <2>2, <3>1, WithoutFacts
  <2>4. PICK q : q = [obj[o] EXCEPT !.acceptors = list]
    OBVIOUS
  <2>5. /\ q \in ObjectRecord(Pair, LinuxFd) /\ q.kind = obj[o].kind /\ q.live = obj[o].live /\ q.mem = obj[o].mem
        /\ q.fd = obj[o].fd /\ q.file = obj[o].file /\ q.mode = obj[o].mode /\ q.acceptors = list
    BY <1>3, <2>3, <2>4 DEF ObjectRecord
  <2>6. PICK fd, file, mode : fd = call[c].fd /\ file = call[c].file /\ mode = ModeOf(call[c].file)
    OBVIOUS
  <2>7. /\ fd \in LinuxFd /\ file \in Nat
        /\ mode \in {"none", "unknown", "enabled", "disabled", "skip", "always"}
    BY <2>6, WinKnown DEF CallRecord, ModeOf
  <2>8. obj' = Append([obj EXCEPT ![o] = q], TheObject("pipe", fd, file, mode))
    <3>1. [obj EXCEPT ![o].acceptors = Windows!Without(@, i)] = [obj EXCEPT ![o] = q]
      <4>1. Windows!Without(obj[o].acceptors, i) = list
        BY <2>2, WinNames DEF Entries
      <4> QED BY <1>3, <2>4, <4>1
    <3> QED BY <1>8, <2>6, <3>1, WinNames
  <2>9. /\ obj' \in Seq(ObjectRecord(Pair, LinuxFd))
        /\ EditsGrown(o, q.fd, q.file, q.mode, q.acceptors, Len(obj) + 1, "pipe", fd, file, mode)
    BY <1>3, <2>5, <2>7, <2>8, EditGrowFacts
  <2>10. call' \in [Pair -> CallRecord(LinuxFd)] /\ Returns(Pair, c)
    BY <1>8, WinIdles
  <2>11. WPipeHand(c, i)
    BY <1>1, <1>4, <1>8, <2>2, <2>5, <2>6, <2>9, <2>10 DEF WPipeHand
  <2> QED BY <2>9, <2>10, <2>11 DEF WinStep, WinStepOf, Typed
<1> QED BY <1>1, <1>5, <1>6, <1>7, <1>8 DEF Windows!PipeAcceptEnds, ModeOf, Windows!kernelVars, WKernel

\* Closing a socket is one of the steps.
LEMMA WinSocketCloses ==
    ASSUME WinInv, NEW c \in Pair, NEW o \in DOMAIN obj, Windows!bio_net_ws_close(c, o)
    PROVE  WinStep
<1>1. /\ obj[o].live /\ obj[o].kind = "ws" /\ dt' = [dt EXCEPT ![obj[o].fd] = 0]
      /\ obj' = [obj EXCEPT ![o] = FreedObject] /\ UNCHANGED <<files, strayed, skip, call, lost>>
  BY WinNames DEF Windows!bio_net_ws_close, Windows!Open
<1>2. obj' \in Seq(ObjectRecord(Pair, LinuxFd)) /\ Frees(o)
  BY <1>1, WinKnown, FreeFacts
<1>3. WSocketClosed(o)
  BY <1>1, <1>2 DEF WSocketClosed
<1>4. Typed(Pair, LinuxFd)'
  BY <1>1, <1>2, WinKnown DEF Typed
<1> QED BY <1>3, <1>4 DEF WinStep, WinStepOf

\* Closing a pipe is one of the steps, with calls in its list or with a stale
\* one.
LEMMA WinPipeCloses ==
    ASSUME WinInv, NEW c \in Pair, NEW o \in DOMAIN obj, Windows!bio_net_pipe_close(c, o)
    PROVE  WinStep
<1>1. call[c] = NoCall /\ obj[o].live /\ obj[o].kind = "pipe" /\ UNCHANGED <<files, strayed, skip>>
  BY WinNames DEF Windows!bio_net_pipe_close, Windows!Open
<1>2. \/ /\ Stale(o)
         /\ Windows!Update(c, Windows!Call("net_close", "none", o, "undefined"))
         /\ obj' = [obj EXCEPT ![o] = [obj[o] EXCEPT !.live = FALSE]]
         /\ lost' = lost \cup {obj[o].file}
         /\ UNCHANGED dt
      \/ /\ ~Stale(o)
         /\ dt' = [fd \in LinuxFd |-> IF fd = obj[o].fd \/ \E d \in Cancelled(o) : call[d].fd = fd
                                      THEN 0 ELSE dt[fd]]
         /\ call' = [d \in Pair |-> IF d \in Cancelled(o) THEN [call[d] EXCEPT !.own = FALSE] ELSE call[d]]
         /\ obj' = [obj EXCEPT ![o] = FreedObject]
         /\ UNCHANGED lost
  BY WinNames DEF Windows!bio_net_pipe_close, Windows!Acceptors, Windows!Closed, Windows!Fd, LinuxFd, Stale, Entries,
                  Cancelled
<1>3. CASE /\ Stale(o)
           /\ Windows!Update(c, Windows!Call("net_close", "none", o, "undefined"))
           /\ obj' = [obj EXCEPT ![o] = [obj[o] EXCEPT !.live = FALSE]]
           /\ lost' = lost \cup {obj[o].file}
           /\ UNCHANGED dt
  <2>1. obj' \in Seq(ObjectRecord(Pair, LinuxFd)) /\ Shuts(o)
    BY <1>3, WinKnown, ShutFacts
  <2>2. PICK t : t = TheCall("net_close", "none", o, "undefined")
    OBVIOUS
  <2>3. "net_close" \in Op /\ "none" \in Step /\ "undefined" \in At
    BY DEF Op, Step, At
  <2>4. Fresh(t, LinuxFd, "net_close", "none", o, obj[o].fd, obj[o].file, "undefined")
    BY <2>2, <2>3, WinKnown, CallFields
  <2>5. Windows!Update(c, t)
    BY <1>3, <2>2, WinNames
  <2>6. call' \in [Pair -> CallRecord(LinuxFd)] /\ Others(Pair, c) /\ call'[c] = t
    BY <2>4, <2>5, WinUpdates DEF Fresh
  <2>7. Becomes(c, "net_close", "none", o, obj[o].fd, obj[o].file, FALSE, "undefined")
    BY <2>4, <2>6 DEF Becomes, Fresh
  <2>8. WPipeCloseUndefined(c, o)
    BY <1>1, <1>3, <2>1, <2>7 DEF WPipeCloseUndefined
  <2> QED BY <2>1, <2>6, <2>8 DEF WinStep, WinStepOf, Typed
<1>4. CASE /\ ~Stale(o)
           /\ dt' = [fd \in LinuxFd |-> IF fd = obj[o].fd \/ \E d \in Cancelled(o) : call[d].fd = fd
                                        THEN 0 ELSE dt[fd]]
           /\ call' = [d \in Pair |-> IF d \in Cancelled(o) THEN [call[d] EXCEPT !.own = FALSE] ELSE call[d]]
           /\ obj' = [obj EXCEPT ![o] = FreedObject]
           /\ UNCHANGED lost
  <2>1. obj' \in Seq(ObjectRecord(Pair, LinuxFd)) /\ Frees(o)
    BY <1>4, WinKnown, FreeFacts
  <2>2. Cancelled(o) \subseteq Pair
    <3>1. obj[o] \in ObjectRecord(Pair, LinuxFd)
      BY WinKnown
    <3>2. Entries(o) \in Seq([c : Pair, stale : BOOLEAN])
      BY <3>1 DEF ObjectRecord, Entries
    <3>3. \A i \in DOMAIN Entries(o) : Entries(o)[i] \in [c : Pair, stale : BOOLEAN]
      BY <3>2, ElementFacts
    <3> QED BY <3>3 DEF Cancelled
  <2>3. \A d \in Pair \ Cancelled(o) : call'[d] = call[d]
    BY <1>4
  <2>4. \A d \in Cancelled(o) : call'[d] = [call[d] EXCEPT !.own = FALSE]
    BY <1>4, <2>2
  <2>5. ASSUME NEW d \in Cancelled(o)
        PROVE  call'[d] \in CallRecord(LinuxFd) /\ SameBut(d) /\ call'[d].own = FALSE
    <3>1. call[d] \in CallRecord(LinuxFd)
      BY <2>2, WinKnown
    <3>2. PICK r, q : r = call[d] /\ q = call'[d]
      OBVIOUS
    <3>3. r \in CallRecord(LinuxFd) /\ q = [r EXCEPT !.own = FALSE]
      BY <2>4, <3>1, <3>2
    <3>4. /\ q \in CallRecord(LinuxFd) /\ q.op = r.op /\ q.step = r.step /\ q.o = r.o /\ q.fd = r.fd
          /\ q.file = r.file /\ q.own = FALSE /\ q.at = r.at /\ q.res = r.res /\ q.pkt = r.pkt
      BY <3>3 DEF CallRecord
    <3> QED BY <3>2, <3>4 DEF SameBut
  <2>6. WPipeClosed(o)
    BY <1>1, <1>4, <2>1, <2>3, <2>5 DEF WPipeClosed
  <2>7. call' \in [Pair -> CallRecord(LinuxFd)]
    <3>1. \A d \in Pair : call'[d] \in CallRecord(LinuxFd)
      BY <2>3, <2>5, WinKnown
    <3>2. call' = [d \in Pair |-> call'[d]]
      BY <1>4
    <3> QED BY <3>1, <3>2
  <2> QED BY <2>1, <2>6, <2>7 DEF WinStep, WinStepOf, Typed
<1> QED BY <1>2, <1>3, <1>4

-----------------------------------------------------------------------------
\* Every action of WindowsIo is one of the steps above.
LEMMA WinCases ==
    ASSUME WinInv, Windows!Next
    PROVE  WinStep
<1>1. PICK c \in Pair :
        \/ Windows!bio_platform_process_events(c)
        \/ Windows!bio_fopen(c) \/ Windows!FdopenCall(c) \/ Windows!Job(c) \/ Windows!OpenOrCloseEnds(c)
        \/ Windows!JobEnds(c) \/ Windows!TransferEnds(c) \/ Windows!SocketTransferEnds(c)
        \/ Windows!bio_net_wrap(c) \/ Windows!bio_net_ws_listen(c) \/ Windows!bio_net_ws_connect(c)
        \/ Windows!bio_net_pipe_listen(c) \/ Windows!bio_net_pipe_connect(c)
        \/ Windows!ConnectEnds(c) \/ Windows!AcceptExEnds(c) \/ Windows!PipeAcceptEnds(c)
        \/ \E o \in DOMAIN obj :
            \/ Windows!bio_fread(c, o) \/ Windows!bio_fwrite(c, o) \/ Windows!bio_fflush(c, o)
            \/ Windows!bio_fstat(c, o) \/ Windows!bio_fclose(c, o)
            \/ Windows!bio_net_ws_send(c, o) \/ Windows!bio_net_ws_recv(c, o)
            \/ Windows!bio_net_ws_accept(c, o) \/ Windows!bio_net_ws_close(c, o)
            \/ Windows!bio_net_pipe_send(c, o) \/ Windows!bio_net_pipe_recv(c, o)
            \/ Windows!bio_net_pipe_accept(c, o) \/ Windows!bio_net_pipe_close(c, o)
  BY DEF Windows!Next
<1>2. CASE \/ Windows!bio_platform_process_events(c) \/ Windows!bio_fopen(c) \/ Windows!FdopenCall(c)
           \/ Windows!Job(c) \/ Windows!OpenOrCloseEnds(c) \/ Windows!JobEnds(c) \/ Windows!TransferEnds(c)
           \/ Windows!SocketTransferEnds(c)
  BY <1>2, WinProcess, WinFopens, WinFdopens, WinJobs, WinOpenOrCloseEnds, WinJobEnds, WinTransferEnds
<1>3. CASE \/ Windows!bio_net_wrap(c) \/ Windows!bio_net_ws_listen(c) \/ Windows!bio_net_pipe_listen(c)
           \/ Windows!bio_net_pipe_connect(c)
  BY <1>3, WinMakes
  DEF Windows!bio_net_wrap, Windows!bio_net_ws_listen, Windows!bio_net_pipe_listen, Windows!bio_net_pipe_connect
<1>4. CASE \/ Windows!bio_net_ws_connect(c) \/ Windows!ConnectEnds(c) \/ Windows!AcceptExEnds(c)
           \/ Windows!PipeAcceptEnds(c)
  BY <1>4, WinConnects, WinConnectEnds, WinAcceptEnds, WinPipeAcceptEnds
<1>5. ASSUME NEW o \in DOMAIN obj,
             \/ Windows!bio_fread(c, o) \/ Windows!bio_fwrite(c, o) \/ Windows!bio_fflush(c, o)
             \/ Windows!bio_fstat(c, o) \/ Windows!bio_fclose(c, o)
      PROVE  WinStep
  BY <1>5, WinFileCalls, WinFcloses
<1>6. ASSUME NEW o \in DOMAIN obj,
             \/ Windows!bio_net_ws_send(c, o) \/ Windows!bio_net_ws_recv(c, o)
             \/ Windows!bio_net_pipe_send(c, o) \/ Windows!bio_net_pipe_recv(c, o)
      PROVE  WinStep
  <2>1. PICK kind \in {"ws", "pipe"} : Windows!Transfer(c, o, kind)
    BY <1>6 DEF Windows!bio_net_ws_send, Windows!bio_net_ws_recv, Windows!bio_net_pipe_send, Windows!bio_net_pipe_recv
  <2> QED BY <2>1, WinTransfers
<1>7. ASSUME NEW o \in DOMAIN obj,
             \/ Windows!bio_net_ws_accept(c, o) \/ Windows!bio_net_ws_close(c, o)
             \/ Windows!bio_net_pipe_accept(c, o) \/ Windows!bio_net_pipe_close(c, o)
      PROVE  WinStep
  BY <1>7, WinSocketAccepts, WinSocketCloses, WinPipeAccepts, WinPipeCloses
<1> QED BY <1>1, <1>2, <1>3, <1>4, <1>5, <1>6, <1>7

\* The invariant of the Windows port is inductive.
LEMMA WinInvStep ==
    ASSUME WinInv, Windows!Next
    PROVE  WinInv'
  BY WinCases, WinInvKept

\* The invariant of the Windows port holds at first.
LEMMA WinInvInit ==
    ASSUME Windows!Init
    PROVE  WinInv
<1>1. obj = <<>> /\ Windows!InitObjects(<<>>) /\ skip \in {{}, {0}}
  BY DEF Windows!Init, Windows!InitObjects
<1>2. Len(obj) = 0 /\ DOMAIN obj = {} /\ DOMAIN obj = 1 .. 0 /\ obj \in Seq(ObjectRecord(Pair, LinuxFd))
  BY <1>1
<1>3. LinuxFd \subseteq Nat /\ 0 \in LinuxFd
  BY BoundAssumption DEF LinuxFd
<1>4. /\ files = 0 /\ dt = [fd \in LinuxFd |-> IF fd < 0 THEN fd + 1 ELSE 0]
      /\ call = [c \in Pair |-> NoCall] /\ strayed = {} /\ lost = {}
  BY <1>1, <1>2, WinNames DEF Windows!InitObjects, LinuxFd, Windows!Fd
<1>5. /\ NoCall \in CallRecord(LinuxFd) /\ NoCall.op = "none" /\ NoCall.step = "none" /\ NoCall.o = 0
      /\ NoCall.fd = 0 /\ NoCall.file = 0 /\ NoCall.own = FALSE /\ NoCall.at = "none"
      /\ NoCall.res = "none" /\ NoCall.pkt = "none"
  BY <1>3, NoCallFields
<1>6. \A c \in Pair : call[c] = NoCall
  BY <1>4
<1>7. Typed(Pair, LinuxFd)
  BY <1>2, <1>4, <1>5 DEF Typed
<1>8. Owned(Pair, LinuxFd)
  <2>1. \A c \in Pair : call[c].own = FALSE
    BY <1>5, <1>6
  <2>2. \A o \in DOMAIN obj : obj[o].fd = 0 /\ obj[o].file = 1 /\ obj[o].live = TRUE
    BY <1>2
  <2> QED BY <1>2, <1>3, <1>4, <2>1, <2>2, OwnedInit
<1>9. \A c \in Pair : WinShape(call[c])
  BY <1>5, <1>6 DEF WinShape, WinOwn
<1>10. \A c \in Pair : WinNamed(c) /\ WinSkips(c) /\ WinPackets(c) /\ WinUndefined(c) /\ WinListed(c)
  BY <1>5, <1>6 DEF WinNamed, WinSkips, WinPackets, WinUndefined, WinListed
<1>11. WinLinked /\ Filed
  BY <1>4, <1>5, <1>6 DEF WinLinked, Filed
<1>12. \A o \in DOMAIN obj : WinMode(o) /\ WinEntries(o)
  BY <1>2
<1>13. strayed \subseteq {"closed"} /\ (0 \notin skip => skip = {})
  BY <1>1, <1>4
<1> QED BY <1>7, <1>8, <1>9, <1>10, <1>11, <1>12, <1>13 DEF WinInv

\* The invariant says what the port promises.
LEMMA WinPromises ==
    ASSUME WinInv
    PROVE  /\ Windows!DescriptorsOwned
           /\ Windows!ReachesItsFile
           /\ Windows!FreedOnlyByClose
           /\ Windows!WaitersAreWoken
<1>1. Windows!DescriptorsOwned
  <2>1. \A fd \in Windows!Fd : Cardinality(Windows!Owners(fd)) = (IF dt[fd] = 0 THEN 0 ELSE 1)
    <3> SUFFICES ASSUME NEW fd \in Windows!Fd
                 PROVE  Cardinality(Windows!Owners(fd)) = (IF dt[fd] = 0 THEN 0 ELSE 1)
      OBVIOUS
    <3>1. Windows!Owners(fd) = OwnersOf(Pair, fd)
      BY DEF Windows!Owners, OwnersOf
    <3>2. fd \in LinuxFd
      BY DEF Windows!Fd, LinuxFd
    <3> QED BY <3>1, <3>2, OneOwner DEF WinInv
  <2>2. /\ \A o \in DOMAIN obj : obj[o].live => dt[obj[o].fd] = obj[o].file
        /\ \A c \in Pair : call[c].own => dt[call[c].fd] = call[c].file
    BY DEF WinInv, Owned, Holders, ObjectHolds, CallHolds
  <2> QED BY <2>1, <2>2, Counts DEF Windows!DescriptorsOwned
<1>2. Windows!ReachesItsFile
  BY DEF WinInv, Windows!ReachesItsFile
<1>3. Windows!FreedOnlyByClose
  BY DEF WinInv, WinUndefined, Stale, Entries, Windows!FreedOnlyByClose, Windows!Acceptors
<1>4. Windows!WaitersAreWoken
  BY DEF WinInv, WinPackets, Windows!WaitersAreWoken
<1> QED BY <1>1, <1>2, <1>3, <1>4

-----------------------------------------------------------------------------
(***************************************************************************)
(* The three ports together.                                                *)
(***************************************************************************)

\* A step that changes nothing keeps types and ownership.
LEMMA OwnedStutters ==
    ASSUME NEW C, NEW F, Typed(C, F), Owned(C, F), UNCHANGED vars
    PROVE  Typed(C, F)' /\ Owned(C, F)'
<1>1. Typed(C, F)'
  BY DEF Typed, vars
<1>2. Owned(C, F)'
  BY OwnedKept DEF vars, SameObjects, SameObject, SameCalls, SameCall
<1> QED BY <1>1, <1>2

\* A step that changes nothing keeps the invariant of the Linux port.
LEMMA LinuxStutters ==
    ASSUME LinuxInv, UNCHANGED vars
    PROVE  LinuxInv'
<1>1. Typed(Pair, LinuxFd)' /\ Owned(Pair, LinuxFd)'
  BY OwnedStutters DEF LinuxInv
<1>2. LinuxCalls' /\ LiveIsAllocated' /\ strayed' = {}
  BY DEF LinuxInv, vars, LinuxCalls, LiveIsAllocated, LinuxOwn
<1>3. LinuxQueue'
  BY DEF LinuxInv, vars, LinuxQueue
<1>4. LinuxNamed'
  BY DEF LinuxInv, vars, LinuxNamed, NamedBy, Behind
<1> QED BY <1>1, <1>2, <1>3, <1>4 DEF LinuxInv

\* A step that changes nothing keeps the invariant of the FreeBSD port.
LEMMA BsdStutters ==
    ASSUME BsdInv, UNCHANGED vars
    PROVE  BsdInv'
<1>1. Typed(Trio, BsdFd)' /\ Owned(Trio, BsdFd)'
  BY OwnedStutters DEF BsdInv
<1>2. (\A c \in Trio : BsdShape(call[c]))' /\ LiveIsAllocated' /\ strayed' \subseteq {"closed"}
  BY DEF BsdInv, vars, LiveIsAllocated
<1>3. (\A c \in Trio : BsdNamed(c))'
  BY DEF BsdInv, vars, BsdNamed, Same
<1>4. (\A c \in Trio : Newer(c))'
  BY DEF BsdInv, vars, Newer
<1> QED BY <1>1, <1>2, <1>3, <1>4 DEF BsdInv

\* A step that changes nothing keeps the invariant of the Windows port.
LEMMA WinStutters ==
    ASSUME WinInv, UNCHANGED vars
    PROVE  WinInv'
<1>1. Typed(Pair, LinuxFd)' /\ Owned(Pair, LinuxFd)'
  BY OwnedStutters DEF WinInv
<1>2. /\ (\A c \in Pair : WinShape(call[c]))' /\ WinLinked' /\ Filed' /\ strayed' \subseteq {"closed"}
      /\ (0 \notin skip => skip = {})'
  BY DEF WinInv, vars, WinLinked, Filed
<1>3. (\A c \in Pair : WinNamed(c) /\ WinSkips(c))'
  BY DEF WinInv, vars, WinNamed, WinSkips, Same
<1>4. (\A c \in Pair : WinPackets(c))'
  BY DEF WinInv, vars, WinPackets, Windows!Astray
<1>5. (\A c \in Pair : WinUndefined(c) /\ WinListed(c))'
  BY DEF WinInv, vars, WinUndefined, WinListed, Stale, Entries
<1>6. (\A o \in DOMAIN obj : WinMode(o) /\ WinEntries(o))'
  BY DEF WinInv, vars, WinMode, WinEntries, Stale, Entries
<1> QED BY <1>1, <1>2, <1>3, <1>4, <1>5, <1>6 DEF WinInv

\* The inductive invariant: the one of the port that is built.
PortInv ==
    /\ port \in {"linux", "freebsd", "windows"}
    /\ port = "linux" => LinuxInv
    /\ port = "freebsd" => BsdInv
    /\ port = "windows" => WinInv

\* The inductive invariant holds at first.
LEMMA PortInvInit == Init => PortInv
  BY LinuxInvInit, BsdInvInit, WinInvInit DEF Init, PortInv

\* Every step of every port keeps the inductive invariant.
LEMMA PortInvNext == PortInv /\ [Next]_vars => PortInv'
<1> SUFFICES ASSUME PortInv, [Next]_vars PROVE PortInv'
  OBVIOUS
<1>1. CASE port = "linux" /\ Linux!Next /\ UNCHANGED <<port, skip>>
  <2>1. LinuxInv'
    BY <1>1, LinuxInvStep DEF PortInv
  <2> QED BY <1>1, <2>1 DEF PortInv
<1>2. CASE port = "freebsd" /\ FreeBsd!Next /\ UNCHANGED <<port, sq, skip>>
  <2>1. BsdInv'
    BY <1>2, BsdInvStep DEF PortInv
  <2> QED BY <1>2, <2>1 DEF PortInv
<1>3. CASE port = "windows" /\ Windows!Next /\ UNCHANGED <<port, sq>>
  <2>1. WinInv'
    BY <1>3, WinInvStep DEF PortInv
  <2> QED BY <1>3, <2>1 DEF PortInv
<1>4. CASE UNCHANGED vars
  <2>1. port' = port
    BY <1>4 DEF vars
  <2>2. (LinuxInv => LinuxInv') /\ (BsdInv => BsdInv') /\ (WinInv => WinInv')
    BY <1>4, LinuxStutters, BsdStutters, WinStutters
  <2> QED BY <2>1, <2>2 DEF PortInv
<1> QED BY <1>1, <1>2, <1>3, <1>4 DEF Next

\* The inductive invariant implies what the ports promise.
LEMMA PortPromises == PortInv => DescriptorsOwned /\ ReachesItsFile /\ FreedOnlyByClose /\ WaitersAreWoken
<1> SUFFICES ASSUME PortInv
             PROVE  DescriptorsOwned /\ ReachesItsFile /\ FreedOnlyByClose /\ WaitersAreWoken
  OBVIOUS
<1>1. ASSUME port = "linux"
      PROVE  Linux!DescriptorsOwned /\ Linux!ReachesItsFile /\ Linux!FreedOnlyByClose /\ Linux!WaitersAreWoken
  BY <1>1, LinuxPromises DEF PortInv
<1>2. ASSUME port = "freebsd"
      PROVE  FreeBsd!DescriptorsOwned /\ FreeBsd!ReachesItsFile /\ FreeBsd!FreedOnlyByClose /\ FreeBsd!WaitersAreWoken
  BY <1>2, BsdPromises DEF PortInv
<1>3. ASSUME port = "windows"
      PROVE  Windows!DescriptorsOwned /\ Windows!ReachesItsFile /\ Windows!FreedOnlyByClose /\ Windows!WaitersAreWoken
  BY <1>3, WinPromises DEF PortInv
<1> QED BY <1>1, <1>2, <1>3 DEF DescriptorsOwned, ReachesItsFile, FreedOnlyByClose, WaitersAreWoken

\* The inductive invariant holds at all times.
LEMMA PortInvariance == Spec => []PortInv
  BY PortInvInit, PortInvNext, PTL DEF Spec

\* Whatever the port, every open descriptor has exactly one owner at every time and a
\* closed one has none, along every error path of opening, listening, connecting,
\* accepting and closing; the descriptors that are lost are those the model names.
THEOREM DescriptorsAreOwned == Spec => []DescriptorsOwned
  BY PortInvariance, PortPromises, PTL

\* No suspended call reads, writes or accepts on the open file of another handle: on
\* Linux never, elsewhere only after its own handle was closed.
THEOREM CallsReachTheirFiles == Spec => []ReachesItsFile
  BY PortInvariance, PortPromises, PTL

\* Memory of a file or socket is used after it was freed only by a call that was
\* suspended when its handle was closed, or by one that meets the stale acceptor of a
\* pipe on Windows.
THEOREM MemoryIsFreedOnlyByClose == Spec => []FreedOnlyByClose
  BY PortInvariance, PortPromises, PTL

\* A coroutine that waits for the system has a request in the queue, an event it is
\* registered for or a packet to come, but for the three cases the ports name.
THEOREM SuspendedCallsAreWoken == Spec => []WaitersAreWoken
  BY PortInvariance, PortPromises, PTL
=============================================================================
