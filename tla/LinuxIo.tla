------------------------------- MODULE LinuxIo -------------------------------
(***************************************************************************)
(* Files and sockets on Linux (src/src/linux/file.c, net.c and the requests *)
(* of platform.c): every operation is one or more io_uring requests; the    *)
(* coroutine waits for the signal of each.                                  *)
(*                                                                          *)
(* A coroutine is not preempted, so a step is what it does between two      *)
(* requests.  The kernel takes the requests in the order of the submission  *)
(* queue and looks a descriptor up when it takes the request: one that is   *)
(* under way keeps its open file even if the descriptor is closed.          *)
(***************************************************************************)
EXTENDS IoObjects

CONSTANT QueueSize \* entries of the submission queue

VARIABLE sq        \* the coroutines whose requests were not taken yet, in order

kernelVars == <<dt, files, strayed>>
vars == <<kernelVars, obj, call, lost, sq>>
-----------------------------------------------------------------------------
(***************************************************************************)
(* Requests.                                                                *)
(***************************************************************************)
\* bio_acquire_io_req submits and drains until an entry is free.  No coroutine
\* runs meanwhile, so the one that asks goes on once the kernel took a request.
bio_submit_io_req(c, r) ==
    /\ Len(sq) < QueueSize
    /\ sq' = Append(sq, c)
    /\ Update(c, [r EXCEPT !.at = "queued", !.res = "none"])

\* The steps whose request makes an open file, and those that name one.
Creates == {"open", "socket", "accept"}
Names(r) == r.step \notin {"open", "socket"}

\* The kernel takes the request at the head of the queue and looks its descriptor up.
\* That of bio_fstat (statx) it may look up later, in a worker of its own: nothing is
\* claimed of the file that bio_fstat reaches.
Take ==
    /\ sq # <<>>
    /\ sq' = Tail(sq)
    /\ LET r == call[Head(sq)] IN
       /\ IF Names(r) THEN Reach(r) ELSE UNCHANGED strayed
       /\ Update(Head(sq), [r EXCEPT !.at = "flight"])
    /\ UNCHANGED <<dt, files, obj, lost>>

\* The request (or the job of the thread pool) ends: the result is written to the
\* frame of the coroutine and its signal is raised.  A descriptor is closed even
\* if the request to close it reports an error.
bio_drain_io_completions(c) ==
    LET r == call[c] IN
    /\ r.at = "flight"
    /\ \/ /\ r.step # "close"
          /\ Update(c, [r EXCEPT !.at = "done", !.res = "err"])
          /\ UNCHANGED <<dt, files>>
       \/ /\ r.step \in Creates
          /\ OpenFile
          /\ Update(c, [Holding(r) EXCEPT !.at = "done", !.res = "ok"])
       \/ /\ r.step = "close"
          /\ dt' = [dt EXCEPT ![r.fd] = 0]
          /\ Update(c, [r EXCEPT !.at = "done", !.res = "ok", !.own = FALSE])
          /\ UNCHANGED files
       \/ /\ r.step \notin Creates \cup {"close"}
          /\ Update(c, [r EXCEPT !.at = "done", !.res = "ok"])
          /\ UNCHANGED <<dt, files>>
    /\ UNCHANGED <<strayed, obj, lost, sq>>

Begin(c, op, step, o) ==
    /\ call[c] = Idle
    /\ bio_submit_io_req(c, Call(op, step, o, "queued"))
    /\ UNCHANGED <<kernelVars, obj, lost>>

\* The request of that step has ended, well or not.
Ended(c, step, res) == call[c].at = "done" /\ call[c].step = step /\ call[c].res = res

\* The call goes on with another request.
Continue(c, step) ==
    /\ bio_submit_io_req(c, [call[c] EXCEPT !.step = step])
    /\ UNCHANGED <<kernelVars, obj, lost>>

Return(c) ==
    /\ Update(c, Idle)
    /\ UNCHANGED <<kernelVars, obj, lost, sq>>

\* The descriptor of the call becomes an object, and the call returns.
Wrap(c, kind) ==
    /\ obj' = Append(obj, Object(kind, call[c].fd, call[c].file, "none"))
    /\ Update(c, Idle)
    /\ UNCHANGED <<kernelVars, lost, sq>>

bio_io_close(c) == Continue(c, "close")
-----------------------------------------------------------------------------
(***************************************************************************)
(* Files.                                                                   *)
(***************************************************************************)
bio_file_from_fd(c) == Wrap(c, "file")

bio_fopen(c) == Begin(c, "fopen", "open", 0)

\* The open request ended: bio_fs_test_lseek is run by the thread pool.
bio_fs_test_lseek(c) ==
    /\ Ended(c, "open", "ok")
    /\ Update(c, [call[c] EXCEPT !.step = "lseek", !.at = "flight"])
    /\ UNCHANGED <<kernelVars, obj, lost, sq>>

\* Whether or not the file can seek, it becomes an object.
FopenEnds(c) ==
    \/ Ended(c, "open", "err") /\ Return(c)
    \/ Ended(c, "lseek", "ok") /\ bio_file_from_fd(c)
    \/ Ended(c, "lseek", "err") /\ bio_file_from_fd(c)

\* The program hands over a descriptor of its own.
bio_fdopen(c) ==
    /\ call[c] = Idle
    /\ OpenFile
    /\ obj' = Append(obj, Object("file", NewFd, NewFile, "none"))
    /\ UNCHANGED <<call, strayed, lost, sq>>

bio_fread(c, o) == Open(o, "file") /\ Begin(c, "transfer", "transfer", o)
bio_fwrite(c, o) == Open(o, "file") /\ Begin(c, "transfer", "transfer", o)
bio_fflush(c, o) == Open(o, "file") /\ Begin(c, "use", "use", o)
bio_fstat(c, o) == Open(o, "file") /\ Begin(c, "use", "use", o)

\* bio_fread and bio_fwrite read impl->seekable when the request has ended: what
\* follows is undefined if the file was closed, and its memory freed, meanwhile.
TransferEnds(c) ==
    /\ call[c].at = "done"
    /\ call[c].step = "transfer"
    /\ Update(c, IF obj[call[c].o].mem THEN Idle ELSE [call[c] EXCEPT !.at = "undefined"])
    /\ UNCHANGED <<kernelVars, obj, lost, sq>>

\* Mutant: the object is looked at after the request.
UseEndsStale(c) ==
    /\ call[c].at = "done"
    /\ call[c].step = "use"
    /\ Update(c, IF obj[call[c].o].mem THEN Idle ELSE [call[c] EXCEPT !.at = "undefined"])
    /\ UNCHANGED <<kernelVars, obj, lost, sq>>

\* The request of bio_fflush, bio_fstat, bio_net_send or bio_net_recv has ended.
UseEnds(c) ==
    /\ call[c].at = "done"
    /\ call[c].step = "use"
    /\ Return(c)

\* Mutant: the descriptor is closed at once, ahead of the requests in the queue.
CloseAtOnce(c, o, op, step) ==
    /\ call[c] = Idle
    /\ obj' = [obj EXCEPT ![o] = Freed]
    /\ dt' = [dt EXCEPT ![obj[o].fd] = 0]
    /\ UNCHANGED <<files, strayed, call, lost, sq>>

\* The handle is closed, the memory freed and a request queued, in one step.
CloseHandle(c, o, op, step) ==
    /\ call[c] = Idle
    /\ obj' = [obj EXCEPT ![o] = Freed]
    /\ bio_submit_io_req(c, [Call(op, step, o, "queued") EXCEPT !.own = TRUE])
    /\ UNCHANGED <<kernelVars, lost>>

bio_fclose(c, o) == Open(o, "file") /\ CloseHandle(c, o, "close", "close")

\* A request to close has ended: the call that made it returns.
CloseEnds(c) == call[c].step = "close" /\ call[c].at = "done" /\ Return(c)
-----------------------------------------------------------------------------
(***************************************************************************)
(* Sockets.                                                                 *)
(***************************************************************************)
bio_socket_from_fd(c) == Wrap(c, "socket")

\* *sock is not assigned: nothing can name the new object, or close it.
bio_net_wrap(c) ==
    /\ call[c] = Idle
    /\ OpenFile
    /\ lost' = lost \cup {NewFile}
    /\ UNCHANGED <<call, obj, strayed, sq>>

\* bio_make_socket, called by bio_net_listen and by bio_net_connect.
bio_net_listen(c) == Begin(c, "listen", "socket", 0)
bio_net_connect(c) == Begin(c, "connect", "socket", 0)

\* What follows the bind.  bind and listen are requests where the kernel has them,
\* and system calls, which succeed or fail at once, where not.
AfterBind(c) ==
    \/ Continue(c, "listen")
    \/ bio_socket_from_fd(c)
    \/ bio_io_close(c)

\* Mutant: a failed bind returns without closing the descriptor.
MakeSocketLeaks(c) ==
    \/ Ended(c, "socket", "ok") /\ Continue(c, "bind")
    \/ Ended(c, "bind", "ok") /\ AfterBind(c)
    \/ Ended(c, "bind", "err") /\ Return(c)
    \/ Ended(c, "socket", "err") /\ Return(c)

\* The source address of a connection is not bound, that of a listener may not be.
bio_make_socket(c) ==
    \/ Ended(c, "socket", "ok") /\ call[c].op = "connect" /\ Continue(c, "connect")
    \/ /\ Ended(c, "socket", "ok")
       /\ call[c].op = "listen"
       /\ Continue(c, "bind") \/ AfterBind(c)
    \/ Ended(c, "bind", "ok") /\ AfterBind(c)
    \/ Ended(c, "bind", "err") /\ bio_io_close(c)
    \/ Ended(c, "socket", "err") /\ Return(c)

ListenEnds(c) ==
    \/ Ended(c, "listen", "ok") /\ bio_socket_from_fd(c)
    \/ Ended(c, "listen", "err") /\ bio_io_close(c)

ConnectEnds(c) ==
    \/ Ended(c, "connect", "ok") /\ bio_socket_from_fd(c)
    \/ Ended(c, "connect", "err") /\ bio_io_close(c)

bio_net_accept(c, o) == Open(o, "socket") /\ Begin(c, "accept", "accept", o)

\* result > 0 is taken for success: a client with descriptor 0 is lost.
AcceptEnds(c) ==
    \/ Ended(c, "accept", "ok") /\ call[c].fd > 0 /\ bio_socket_from_fd(c)
    \/ /\ Ended(c, "accept", "ok")
       /\ call[c].fd = 0
       /\ lost' = lost \cup {call[c].file}
       /\ Update(c, Idle)
       /\ UNCHANGED <<kernelVars, obj, sq>>
    \/ Ended(c, "accept", "err") /\ Return(c)

bio_net_send(c, o) == Open(o, "socket") /\ Begin(c, "use", "use", o)
bio_net_recv(c, o) == Open(o, "socket") /\ Begin(c, "use", "use", o)

bio_net_close(c, o) == Open(o, "socket") /\ CloseHandle(c, o, "close", "shutdown")

\* The descriptor is closed whether or not the socket could be shut down.
ShutdownEnds(c) ==
    /\ call[c].step = "shutdown"
    /\ call[c].at = "done"
    /\ bio_io_close(c)
-----------------------------------------------------------------------------
Init == InitObjects(<<Stdin("none")>>) /\ sq = <<>>

Next ==
    \/ Take
    \/ \E c \in Client :
        \/ bio_drain_io_completions(c)
        \/ bio_fopen(c) \/ bio_fs_test_lseek(c) \/ FopenEnds(c) \/ bio_fdopen(c)
        \/ TransferEnds(c) \/ UseEnds(c) \/ CloseEnds(c)
        \/ bio_net_wrap(c) \/ bio_net_listen(c) \/ bio_net_connect(c)
        \/ bio_make_socket(c) \/ ListenEnds(c) \/ ConnectEnds(c)
        \/ AcceptEnds(c) \/ ShutdownEnds(c)
        \/ \E o \in DOMAIN obj :
            \/ bio_fread(c, o) \/ bio_fwrite(c, o) \/ bio_fflush(c, o) \/ bio_fstat(c, o)
            \/ bio_fclose(c, o)
            \/ bio_net_accept(c, o) \/ bio_net_send(c, o) \/ bio_net_recv(c, o)
            \/ bio_net_close(c, o)

Spec == Init /\ [][Next]_vars
-----------------------------------------------------------------------------
\* A request never reaches an open file other than the one its handle stood for
\* when it was made, even if the file is closed and its descriptor used again
\* before the kernel takes the request.
ReachesItsFile == strayed = {}

\* Memory that was freed is only used by a read or a write whose file was closed
\* by another coroutine meanwhile.
FreedOnlyByClose ==
    \A c \in Client : call[c].at = "undefined" =>
        call[c].op = "transfer" /\ ~obj[call[c].o].live

\* A request is in the queue, once, until the kernel takes it.
WaitersAreWoken ==
    \A c \in Client :
        Cardinality({i \in DOMAIN sq : sq[i] = c}) = (IF call[c].at = "queued" THEN 1 ELSE 0)
=============================================================================
