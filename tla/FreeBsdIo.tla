------------------------------ MODULE FreeBsdIo ------------------------------
(***************************************************************************)
(* Files and sockets on FreeBSD (src/src/freebsd/net.c, file.c and the      *)
(* requests of platform.c): sockets are non-blocking and wait for a kqueue  *)
(* event; files use aio where it is supported and the thread pool where it  *)
(* is not.                                                                  *)
(*                                                                          *)
(* impl->read, impl->write and impl->aio point into the frame of the call   *)
(* that waits, from the time it begins to wait until it has resumed; they   *)
(* are read off the calls.  A coroutine woken in one round of the loop runs *)
(* in the next, after bio_platform_update has dealt with in_events.         *)
(***************************************************************************)
EXTENDS IoObjects

kernelVars == <<dt, files, strayed>>
vars == <<kernelVars, obj, call, lost>>

Return(c) ==
    /\ Update(c, Idle)
    /\ UNCHANGED <<kernelVars, obj, lost>>

\* The descriptor fd of that open file becomes an object.
bio_file_from_fd(fd, file) == obj' = Append(obj, Object("file", fd, file, "unknown"))
bio_socket_from_fd(fd, file) == obj' = Append(obj, Object("socket", fd, file, "none"))
-----------------------------------------------------------------------------
(***************************************************************************)
(* Waiting for an event.  A call that waits is "queued" in in_events, then  *)
(* "registered" with the kqueue; "raised" once its signal was raised in     *)
(* this round, "ready" when it may run, and "forgotten" when nothing will   *)
(* raise its signal any more.                                               *)
(***************************************************************************)
Filter(c) == IF call[c].op \in {"accept", "recv"} THEN "read" ELSE "write"

\* impl->read or impl->write of o is set.
Waiter(o, filter) ==
    {c \in Client : call[c].o = o /\ call[c].step = "event" /\ Filter(c) = filter}

\* A second reader or writer of the socket fails with EBUSY.
bio_net_wait(c, o, op) ==
    LET w == Call(op, "event", o, "queued")
        filter == IF op = "send" THEN "write" ELSE "read" IN
    /\ Waiter(o, filter) = {}
    /\ Update(c, w)
    /\ UNCHANGED <<kernelVars, obj, lost>>

\* One round of bio_platform_update.  Cancelled requests are left out of the change
\* list; an entry whose descriptor is closed comes back at once as an error; of the
\* entries for one descriptor and one filter the last replaces the others, and the
\* last is the one of the newest open file.
bio_platform_update ==
    LET Added == {c \in Client : call[c].at = "queued" /\ dt[call[c].fd] # 0}
        Replaced(c) == \E d \in Added : /\ call[d].fd = call[c].fd /\ Filter(d) = Filter(c)
                                        /\ call[d].file > call[c].file IN
    /\ call' = [c \in Client |->
        CASE call[c].at = "raised" -> [call[c] EXCEPT !.at = "ready"]
          [] call[c].at = "queued" /\ c \notin Added -> [call[c] EXCEPT !.at = "ready", !.res = "err"]
          [] call[c].step = "event" /\ call[c].at \in {"queued", "registered"} /\ Replaced(c) ->
                [call[c] EXCEPT !.at = "forgotten"]
          [] c \in Added /\ ~Replaced(c) -> [call[c] EXCEPT !.at = "registered"]
          [] OTHER -> call[c]]
    /\ UNCHANGED <<kernelVars, obj, lost>>

\* The event of a socket is taken from the kqueue.
bio_platform_dispatch_events(c) ==
    /\ call[c].step = "event"
    /\ call[c].at = "registered"
    /\ Update(c, [call[c] EXCEPT !.at = "ready"])
    /\ UNCHANGED <<kernelVars, obj, lost>>

\* Mutant: the request is marked as cancelled and its signal is not raised.
CancelQuietly(r) == IF r.at = "queued" THEN [r EXCEPT !.at = "forgotten"] ELSE r

\* The request is marked as cancelled and its signal raised.
bio_cancel_io(r) == IF r.at \in {"queued", "registered"} THEN [r EXCEPT !.at = "raised"] ELSE r
-----------------------------------------------------------------------------
(***************************************************************************)
(* Sockets.  The system calls that would block fail and the call waits.     *)
(***************************************************************************)
bio_net_wrap(c) ==
    /\ call[c] = Idle
    /\ OpenFile
    /\ lost' = lost \cup {NewFile} \* *sock is not assigned
    /\ UNCHANGED <<call, obj, strayed>>

\* A socket that cannot be bound or cannot listen is closed again at once.
bio_net_listen(c) ==
    /\ call[c] = Idle
    /\ OpenFile
    /\ bio_socket_from_fd(NewFd, NewFile)
    /\ UNCHANGED <<call, strayed, lost>>

\* connect succeeds, or is in progress and waits for its own event.
bio_net_connect(c) ==
    /\ call[c] = Idle
    /\ OpenFile
    /\ \/ bio_socket_from_fd(NewFd, NewFile) /\ UNCHANGED call
       \/ /\ Update(c, Holding(Call("connect", "event", 0, "queued")))
          /\ UNCHANGED obj
    /\ UNCHANGED <<strayed, lost>>

\* The request has no result, so an error of the connection is never seen.
ConnectEnds(c) ==
    /\ call[c].op = "connect"
    /\ call[c].at = "ready"
    /\ bio_socket_from_fd(call[c].fd, call[c].file)
    /\ Update(c, Idle)
    /\ UNCHANGED <<kernelVars, lost>>

bio_net_accept(c, o) ==
    /\ call[c] = Idle
    /\ Open(o, "socket")
    /\ \/ /\ OpenFile
          /\ bio_socket_from_fd(NewFd, NewFile)
          /\ UNCHANGED <<call, strayed, lost>>
       \/ bio_net_wait(c, o, "accept")

bio_net_send(c, o) == call[c] = Idle /\ Open(o, "socket") /\ bio_net_wait(c, o, "send")
bio_net_recv(c, o) == call[c] = Idle /\ Open(o, "socket") /\ bio_net_wait(c, o, "recv")

\* The wait of accept, send or recv is over.  Unless it ended in an error the
\* system call is made again on the descriptor that was read before the wait, also
\* if the wait was cancelled because the socket was closed.
Retry(c) ==
    /\ call[c].op \in {"accept", "send", "recv"}
    /\ call[c].at = "ready"
    /\ IF call[c].res = "err" THEN UNCHANGED strayed ELSE Reach(call[c])
    /\ Update(c, Idle)
    /\ \/ /\ call[c].op = "accept" /\ call[c].res # "err" /\ dt[call[c].fd] # 0
          /\ OpenFile
          /\ bio_socket_from_fd(NewFd, NewFile)
       \/ UNCHANGED <<dt, files, obj>>
    /\ UNCHANGED lost

\* Closing a descriptor takes the events that are registered for it away.
Close(calls, fd) ==
    /\ dt' = [dt EXCEPT ![fd] = 0]
    /\ call' = [c \in Client |->
        IF calls[c].at = "registered" /\ calls[c].step = "event" /\ calls[c].fd = fd
        THEN [calls[c] EXCEPT !.at = "forgotten"]
        ELSE calls[c]]

\* A pending read is cancelled.  For a pending write impl->read is cancelled too,
\* a null pointer if there is no pending read.
bio_net_close(c, o) ==
    /\ call[c] = Idle
    /\ Open(o, "socket")
    /\ \/ /\ Waiter(o, "write") # {} /\ Waiter(o, "read") = {}
          /\ obj' = [obj EXCEPT ![o] = Closed(o)]
          /\ Update(c, Call("net_close", "none", o, "undefined"))
          /\ lost' = lost \cup {obj[o].file}
          /\ UNCHANGED dt
       \/ /\ Waiter(o, "write") = {} \/ Waiter(o, "read") # {}
          /\ obj' = [obj EXCEPT ![o] = Freed]
          /\ Close([d \in Client |-> IF d \in Waiter(o, "read") THEN bio_cancel_io(call[d]) ELSE call[d]],
                   obj[o].fd)
          /\ UNCHANGED lost
    /\ UNCHANGED <<files, strayed>>
-----------------------------------------------------------------------------
(***************************************************************************)
(* The thread pool: the job works on the descriptor it was given.           *)
(***************************************************************************)
RunInPool(c, r) ==
    Update(c, [r EXCEPT !.op = IF @ = "fopen" THEN @ ELSE "job",
                        !.step = "job", !.at = "pool", !.res = "none"])

\* bio_fs_fopen, bio_fs_read, bio_fs_write, bio_fs_fsync or bio_fs_fstat is run.
Job(c) ==
    LET r == call[c] IN
    /\ r.at = "pool"
    /\ \/ r.op = "fopen" /\ OpenFile /\ Update(c, [Holding(r) EXCEPT !.at = "ready", !.res = "ok"])
                         /\ UNCHANGED strayed
       \/ r.op = "fopen" /\ Update(c, [r EXCEPT !.at = "ready", !.res = "err"])
                         /\ UNCHANGED kernelVars
       \/ r.op # "fopen" /\ Reach(r) /\ Update(c, [r EXCEPT !.at = "ready"])
                         /\ UNCHANGED <<dt, files>>
    /\ UNCHANGED <<obj, lost>>

\* The file is not looked at after the job.
JobEnds(c) ==
    /\ call[c].step = "job"
    /\ call[c].at = "ready"
    /\ IF call[c].op = "fopen" /\ call[c].res = "ok"
       THEN bio_file_from_fd(call[c].fd, call[c].file)
       ELSE UNCHANGED obj
    /\ Update(c, Idle)
    /\ UNCHANGED <<kernelVars, lost>>
-----------------------------------------------------------------------------
(***************************************************************************)
(* Files.                                                                   *)
(***************************************************************************)
bio_fopen(c) ==
    /\ call[c] = Idle
    /\ RunInPool(c, Call("fopen", "job", 0, "pool"))
    /\ UNCHANGED <<kernelVars, obj, lost>>

bio_fdopen(c) ==
    /\ call[c] = Idle
    /\ OpenFile
    /\ bio_file_from_fd(NewFd, NewFile)
    /\ UNCHANGED <<call, strayed, lost>>

bio_fstat(c, o) ==
    /\ call[c] = Idle
    /\ Open(o, "file")
    /\ RunInPool(c, Call("fstat", "job", o, "pool"))
    /\ UNCHANGED <<kernelVars, obj, lost>>

\* impl->aio of o is set.
Aio(o) == {c \in Client : call[c].o = o /\ call[c].step \in {"aio", "probe"}}

\* bio_fwrite, bio_fread or bio_fflush: aio, or the pool if aio is known not to
\* work.  The first use of a file is a probe.  A second request of the file fails
\* with EBUSY.
Transfer(c, o, op) ==
    LET r == Call(op, IF obj[o].mode = "unknown" THEN "probe" ELSE "aio", o, "registered") IN
    /\ call[c] = Idle
    /\ Open(o, "file")
    /\ \/ obj[o].mode = "disabled" /\ RunInPool(c, r) /\ UNCHANGED obj
       \/ obj[o].mode # "disabled" /\ Aio(o) = {} /\ Update(c, r) /\ UNCHANGED obj
       \/ \* the submission fails with EOPNOTSUPP
          /\ obj[o].mode = "unknown" /\ Aio(o) = {}
          /\ obj' = [obj EXCEPT ![o].mode = "disabled"]
          /\ RunInPool(c, r)
    /\ UNCHANGED <<kernelVars, lost>>

bio_fread(c, o) == Transfer(c, o, "transfer")
bio_fwrite(c, o) == Transfer(c, o, "transfer")
bio_fflush(c, o) == Transfer(c, o, "fflush")

\* The request ends, with a result that aio_error and aio_return tell later; it has
\* kept its open file.
AioDone(c) ==
    /\ call[c].step \in {"aio", "probe"}
    /\ call[c].at = "registered"
    /\ Update(c, [call[c] EXCEPT !.at = "ready"])
    /\ UNCHANGED <<kernelVars, obj, lost>>

\* The file was looked up again: impl is null if its handle was closed meanwhile.
\* bio_fwrite_aio and bio_fread_aio use it all the same after a success; the probe
\* goes on with the pointer its caller has, to memory that may be freed.
AioEnds(c, res) ==
    LET r == call[c] o == call[c].o IN
    /\ r.step \in {"aio", "probe"}
    /\ r.at = "ready"
    /\ r.res = "err" => res = "err" \* it was cancelled
    /\ IF \/ res = "ok" /\ r.op = "transfer" /\ ~obj[o].live
          \/ res # "err" /\ r.step = "probe" /\ ~obj[o].mem
       THEN Update(c, [r EXCEPT !.at = "undefined"]) /\ UNCHANGED obj
       ELSE /\ IF res # "err" /\ r.step = "probe"
               THEN obj' = [obj EXCEPT ![o].mode = IF res = "ok" THEN "enabled" ELSE "disabled"]
               ELSE UNCHANGED obj
            /\ IF res = "unsupported" /\ r.step = "probe"
               THEN RunInPool(c, r)
               ELSE Update(c, Idle)
    /\ UNCHANGED <<kernelVars, lost>>

\* The handle is closed first.  A pending request is cancelled, which may fail:
\* then the call returns EBUSY, and neither the memory nor the descriptor is freed.
bio_fclose(c, o) ==
    LET pending == {d \in Aio(o) : call[d].at = "registered"} IN
    /\ call[c] = Idle
    /\ Open(o, "file")
    /\ \/ /\ pending # {}
          /\ obj' = [obj EXCEPT ![o] = Closed(o)]
          /\ lost' = lost \cup {obj[o].file}
          /\ UNCHANGED <<dt, call>>
       \/ /\ obj' = [obj EXCEPT ![o] = Freed]
          /\ Close([d \in Client |-> IF d \in pending
                                     THEN [call[d] EXCEPT !.at = "ready", !.res = "err"]
                                     ELSE call[d]],
                   obj[o].fd)
          /\ UNCHANGED lost
    /\ UNCHANGED <<files, strayed>>
-----------------------------------------------------------------------------
\* The standard descriptors become objects like those of a program.
Init == InitObjects(<<>>)

Next ==
    \/ bio_platform_update
    \/ \E c \in Client :
        \/ bio_platform_dispatch_events(c)
        \/ bio_net_wrap(c) \/ bio_net_listen(c) \/ bio_net_connect(c) \/ ConnectEnds(c)
        \/ Retry(c) \/ Job(c) \/ JobEnds(c) \/ AioDone(c)
        \/ \E res \in {"ok", "err", "unsupported"} : AioEnds(c, res)
        \/ bio_fopen(c) \/ bio_fdopen(c)
        \/ \E o \in DOMAIN obj :
            \/ bio_net_accept(c, o) \/ bio_net_send(c, o) \/ bio_net_recv(c, o)
            \/ bio_net_close(c, o)
            \/ bio_fread(c, o) \/ bio_fwrite(c, o) \/ bio_fflush(c, o) \/ bio_fstat(c, o)
            \/ bio_fclose(c, o)

Spec == Init /\ [][Next]_vars
-----------------------------------------------------------------------------
\* A call reaches an open file it did not mean only if the handle it was given was
\* closed by another coroutine while it waited.
ReachesItsFile == strayed \subseteq {"closed"}

\* What is undefined comes from a handle that was closed while a call was pending:
\* a file that is used again after a request, or a socket with a pending write.
FreedOnlyByClose ==
    \A c \in Client : call[c].at = "undefined" =>
        call[c].op \in {"transfer", "fflush", "net_close"} /\ ~obj[call[c].o].live

\* A call that waits for an event has a request that will wake it, unless it waits
\* to write to a socket that was closed.
WaitersAreWoken ==
    \A c \in Client : call[c].at = "forgotten" => call[c].op = "send" /\ ~obj[call[c].o].live
=============================================================================
