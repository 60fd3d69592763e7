------------------------------ MODULE IoObjects ------------------------------
(***************************************************************************)
(* What the files and the sockets of the three ports (LinuxIo, FreeBsdIo,   *)
(* WindowsIo) have in common: the descriptor table of the process, the      *)
(* objects behind the handles (bio_file_impl_t, bio_socket_impl_t) and the  *)
(* calls in progress.                                                       *)
(*                                                                          *)
(* A handle is the number of its object and is never used again, as         *)
(* HandleTable shows.  A call on a closed handle fails at once and changes  *)
(* nothing, so the actions ask for an open one.  The bytes, the addresses   *)
(* and the file offsets are left out: the properties are about which open   *)
(* file a call works on, who closes it and whether a call that waits is     *)
(* woken.                                                                   *)
(***************************************************************************)
EXTENDS Naturals, Sequences, FiniteSets

CONSTANTS
    Client,        \* the coroutines that use files and sockets
    MaxFd,         \* bound: the largest descriptor
    MaxFile        \* bound: open files ever made

VARIABLES
    dt,            \* dt[fd]: the open file a descriptor stands for, 0 for none
    files,         \* number of open files ever made
    obj,           \* the files and sockets ever made by the library
    call,          \* what each coroutine is in the middle of
    strayed,       \* auxiliary: some call reached an open file it did not mean, while
                   \* the handle it was given was open, or when it was closed
    lost           \* auxiliary: the open files that nothing can close any more

Fd == 0 .. MaxFd

\* fd and file: the descriptor the call has read and the open file it means by it.
\* own: the call has to close the descriptor or to hand it over.
Idle ==
    [op |-> "none", step |-> "none", o |-> 0, fd |-> 0, file |-> 0,
     own |-> FALSE, at |-> "none", res |-> "none", pkt |-> "none"]

Update(c, r) == call' = [call EXCEPT ![c] = r]

\* A call of object o (0: of none) that is about to suspend.
Call(op, step, o, at) ==
    [Idle EXCEPT !.op = op, !.step = step, !.o = o, !.at = at,
                 !.fd = IF o = 0 THEN 0 ELSE obj[o].fd,
                 !.file = IF o = 0 THEN 0 ELSE obj[o].file]

\* The handle of o is open and o is of that kind.
Open(o, kind) == o \in DOMAIN obj /\ obj[o].live /\ obj[o].kind = kind

\* live: the handle is open.  mem: the memory of the object is not freed.
Object(kind, fd, file, mode) ==
    [kind |-> kind, fd |-> fd, file |-> file, live |-> TRUE, mem |-> TRUE,
     mode |-> mode, listen |-> FALSE, acceptors |-> <<>>]

\* The standard input, wrapped by bio_fs_init.
Stdin(mode) == Object("file", 0, 1, mode)

\* The objects the library begins with: none, or the standard input.
InitObjects(objects) ==
    /\ obj = objects
    /\ files = Len(objects)
    /\ dt = [fd \in Fd |-> IF fd < Len(objects) THEN fd + 1 ELSE 0]
    /\ call = [c \in Client |-> Idle]
    /\ strayed = {}
    /\ lost = {}

\* The handle of o is closed; its memory is freed.
Closed(o) == [obj[o] EXCEPT !.live = FALSE]
Freed == [Object("none", 0, 0, "none") EXCEPT !.live = FALSE, !.mem = FALSE]
-----------------------------------------------------------------------------
(***************************************************************************)
(* The kernel: a new open file takes the smallest free descriptor.          *)
(***************************************************************************)
CanOpen == files < MaxFile /\ \E fd \in Fd : dt[fd] = 0

NewFd == CHOOSE fd \in Fd : dt[fd] = 0 /\ \A g \in Fd : dt[g] = 0 => fd <= g

NewFile == files + 1

OpenFile ==
    /\ CanOpen
    /\ files' = NewFile
    /\ dt' = [dt EXCEPT ![NewFd] = NewFile]

\* What a call that made an open file holds.
Holding(r) == [r EXCEPT !.fd = NewFd, !.file = NewFile, !.own = TRUE]

\* The system call of c reaches whatever its descriptor stands for now.
Reach(r) ==
    strayed' = IF dt[r.fd] \in {0, r.file}
               THEN strayed
               ELSE strayed \cup {IF r.o = 0 \/ obj[r.o].live THEN "open" ELSE "closed"}
-----------------------------------------------------------------------------
(***************************************************************************)
(* What the three ports promise.                                            *)
(***************************************************************************)
Owners(fd) ==
    {<<"object", o>> : o \in {p \in DOMAIN obj : obj[p].live /\ obj[p].fd = fd}}
    \cup {<<"call", c>> : c \in {d \in Client : call[d].own /\ call[d].fd = fd}}
    \cup (IF dt[fd] \in lost THEN {<<"lost", dt[fd]>>} ELSE {})

\* Every open descriptor has exactly one owner, an object with an open handle or
\* a call that will close it or hand it over, and a closed one has none: nothing
\* leaks, nothing is closed twice and no object keeps a descriptor that was
\* closed under it.  The exceptions are in lost, each where the code loses it.
DescriptorsOwned ==
    /\ \A fd \in Fd : Cardinality(Owners(fd)) = (IF dt[fd] = 0 THEN 0 ELSE 1)
    /\ \A o \in DOMAIN obj : obj[o].live => dt[obj[o].fd] = obj[o].file
    /\ \A c \in Client : call[c].own => dt[call[c].fd] = call[c].file
=============================================================================
