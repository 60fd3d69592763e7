------------------------------ MODULE WindowsIo ------------------------------
(***************************************************************************)
(* Files, Winsock sockets and named pipes on Windows (src/src/windows):     *)
(* overlapped operations whose completion packets arrive at one completion  *)
(* port.  The operations of files are started by the thread pool.           *)
(*                                                                          *)
(* An operation that succeeds at once still sends a packet, unless the      *)
(* handle was put in the mode that skips it; completion_mode is what the    *)
(* library believes, skip what the kernel was told.  The packet points into *)
(* the frame of the call (pkt): it is "due" until it arrives and is taken    *)
(* from the port, which raises the signal of the call ("taken").            *)
(* Whether the operation succeeded is decided when the call asks.           *)
(***************************************************************************)
EXTENDS IoObjects

VARIABLE skip      \* the open files whose handle skips packets on success; 0 is in
                   \* it if the system has that mode

kernelVars == <<dt, files, strayed, skip>>
vars == <<kernelVars, obj, call, lost>>

\* The call returns.  A packet that is still to come would be written to a frame
\* that is gone.
Returned(r) == IF r.pkt = "due" THEN [r EXCEPT !.at = "overwritten"] ELSE Idle

Return(c) ==
    /\ Update(c, Returned(call[c]))
    /\ UNCHANGED <<kernelVars, obj, lost>>

\* Bound: the objects that are open at the same time are of one kind.  They do not
\* interact but by using descriptors again, after one was closed.
OneKind(kind) == \A o \in DOMAIN obj : obj[o].kind \in {kind, "none"}

\* The call goes on with memory that was freed.
Undefined(c) ==
    /\ Update(c, [call[c] EXCEPT !.at = "undefined", !.own = FALSE])
    /\ lost' = IF call[c].own THEN lost \cup {call[c].file} ELSE lost
    /\ UNCHANGED <<kernelVars, obj>>
-----------------------------------------------------------------------------
(***************************************************************************)
(* Completion modes and the completion port.                                *)
(***************************************************************************)
\* bio_net_ws_init_completion_mode, bio_net_pipe_init_completion_mode and
\* bio_fdopen: the handle is put in the mode that skips packets, if there is one.
\* A mode that is still unknown is initialised before the first operation.  Each
\* handle is asked; here the answer is the same for all of them.
InitMode == IF 0 \in skip THEN "skip" ELSE "always"
Mode(o) == IF obj[o].mode = "unknown" THEN InitMode ELSE obj[o].mode
Skip(file) == IF 0 \in skip THEN skip \cup {file} ELSE skip
Skips(o) == IF obj[o].mode = "unknown" THEN Skip(obj[o].file) ELSE skip

\* An operation on that open file succeeds at once, with or without a packet, or
\* is pending.
Outcomes(file, s) ==
    {[res |-> "ok", pkt |-> IF file \in s THEN "none" ELSE "due"],
     [res |-> "pending", pkt |-> "due"]}

\* An operation on an open file that is not linked to the completion port sends no
\* packet, unless it is pending when the file is linked after all.
UnlinkedOutcomes ==
    [res : {"ok", "pending"}, pkt : {"none"}] \cup [res : {"pending"}, pkt : {"due"}]

\* The file that bio_fs_open_file made is not linked before bio_fdopen.
Unlinked(file) == \E d \in Client : call[d].op = "fopen" /\ call[d].own /\ call[d].file = file

JobOutcomes(file) == IF Unlinked(file) THEN UnlinkedOutcomes ELSE Outcomes(file, skip)

\* The instance of a pipe that listens is not linked before the accept that takes it.
Listening(o) == obj[o].kind = "pipe" /\ obj[o].listen

SocketOutcomes(o, s) == IF Listening(o) THEN UnlinkedOutcomes ELSE Outcomes(obj[o].file, s)

Started(r, e) == [r EXCEPT !.res = e.res, !.pkt = e.pkt]

bio_maybe_wait_after_success(mode) == mode # "skip"

\* The call waits for the packet of an operation that has begun like that.
MustWait(res, mode) == res = "pending" \/ bio_maybe_wait_after_success(mode)

\* The packet of an operation that has ended, or was cancelled because its handle
\* was closed, is taken and the signal of its request raised; if nobody waits for
\* the signal yet, the wait will return at once.
bio_platform_process_events(c) ==
    /\ call[c].pkt = "due"
    /\ Update(c, [call[c] EXCEPT !.pkt = "taken"])
    /\ UNCHANGED <<kernelVars, obj, lost>>

Awake(c, step) == call[c].at = "wait" /\ call[c].step = step /\ call[c].pkt = "taken"
-----------------------------------------------------------------------------
(***************************************************************************)
(* Files: a job of the thread pool starts the operation on the handle it    *)
(* was given.                                                               *)
(***************************************************************************)
RunInPool(c, op, o) ==
    /\ call[c] = Idle
    /\ Update(c, [Call(op, "job", o, "pool") EXCEPT !.own = op = "fclose"])
    /\ UNCHANGED <<kernelVars, lost>>

bio_fopen(c) == OneKind("file") /\ RunInPool(c, "fopen", 0) /\ UNCHANGED obj
bio_fread(c, o) == Open(o, "file") /\ RunInPool(c, "transfer", o) /\ UNCHANGED obj
bio_fwrite(c, o) == Open(o, "file") /\ RunInPool(c, "transfer", o) /\ UNCHANGED obj
bio_fflush(c, o) == Open(o, "file") /\ RunInPool(c, "flush", o) /\ UNCHANGED obj
bio_fstat(c, o) == Open(o, "file") /\ RunInPool(c, "flush", o) /\ UNCHANGED obj

\* The memory is freed when the job is done.
bio_fclose(c, o) ==
    Open(o, "file") /\ RunInPool(c, "fclose", o) /\ obj' = [obj EXCEPT ![o] = Closed(o)]

\* bio_fs_open_file, bio_fs_close_file, bio_fs_flush_file, bio_fs_stat_file,
\* bio_fs_read_file or bio_fs_write_file.
Job(c) ==
    LET r == [call[c] EXCEPT !.at = "ready"] IN
    /\ call[c].at = "pool"
    /\ \/ r.op = "fopen" /\ OpenFile /\ Update(c, [Holding(r) EXCEPT !.res = "ok"])
                         /\ UNCHANGED strayed
       \/ r.op = "fopen" /\ Update(c, r) /\ UNCHANGED <<dt, files, strayed>>
       \/ r.op = "fclose" /\ dt' = [dt EXCEPT ![r.fd] = 0] /\ Update(c, [r EXCEPT !.own = FALSE])
                          /\ UNCHANGED <<files, strayed>>
       \/ r.op \in {"flush", "transfer"} /\ Reach(r) /\ Update(c, r) /\ UNCHANGED <<dt, files>>
       \/ /\ r.op = "transfer" /\ dt[r.fd] # 0
          /\ Reach(r)
          /\ \E e \in JobOutcomes(dt[r.fd]) : Update(c, Started(r, e))
          /\ UNCHANGED <<dt, files>>
    /\ UNCHANGED <<obj, lost, skip>>

\* A handle that the completion port does not take never has packets: it counts as
\* one that skips them.
bio_fdopen(fd, file) ==
    /\ skip' = Skip(file)
    /\ obj' = Append(obj, Object("file", fd, file, InitMode))

\* The program hands over a handle of its own.
FdopenCall(c) ==
    /\ call[c] = Idle
    /\ OneKind("file")
    /\ OpenFile
    /\ bio_fdopen(NewFd, NewFile)
    /\ UNCHANGED <<call, strayed, lost>>

\* After bio_fs_open_file or bio_fs_close_file.
OpenOrCloseEnds(c) ==
    LET r == call[c] IN
    /\ r.at = "ready"
    /\ \/ /\ r.op = "fopen" /\ r.res = "ok"
          /\ bio_fdopen(r.fd, r.file)
       \/ /\ r.op = "fclose"
          /\ obj' = [obj EXCEPT ![r.o] = Freed]
          /\ UNCHANGED skip
    /\ Update(c, Idle)
    /\ UNCHANGED <<dt, files, strayed, lost>>

\* After the other jobs, or one that failed; impl->completion_mode is read after
\* the job that started a transfer.
JobEnds(c) ==
    LET r == call[c] IN
    /\ r.at = "ready"
    /\ r.op # "fclose"
    /\ \/ r.res = "none" /\ Return(c)
       \/ /\ r.op = "transfer" /\ r.res # "none"
          /\ IF r.res = "ok" /\ ~obj[r.o].mem THEN Undefined(c)
             ELSE IF MustWait(r.res, obj[r.o].mode)
             THEN /\ Update(c, [r EXCEPT !.step = "transfer", !.at = "wait"])
                  /\ UNCHANGED <<kernelVars, obj, lost>>
             ELSE Return(c)

\* impl->handle and impl->offset are used after the wait.
TransferEnds(c) ==
    /\ Awake(c, "transfer")
    /\ IF obj[call[c].o].mem THEN Return(c) ELSE Undefined(c)
-----------------------------------------------------------------------------
(***************************************************************************)
(* Sockets and pipes: sending and receiving, and what is made at once.      *)
(***************************************************************************)
Transfer(c, o, kind) ==
    LET mode == Mode(o)  s == Skips(o) IN
    /\ call[c] = Idle
    /\ Open(o, kind)
    /\ skip' = s
    /\ obj' = [obj EXCEPT ![o].mode = mode]
    /\ \E e \in SocketOutcomes(o, s) :
        LET r == Started(Call("use", IF Listening(o) THEN "unlinked" ELSE "use", o, "wait"), e) IN
        Update(c, IF MustWait(e.res, mode) THEN r ELSE Returned(r))
    /\ UNCHANGED <<dt, files, strayed, lost>>

bio_net_ws_send(c, o) == Transfer(c, o, "ws")
bio_net_ws_recv(c, o) == Transfer(c, o, "ws")
bio_net_pipe_send(c, o) == Transfer(c, o, "pipe")
bio_net_pipe_recv(c, o) == Transfer(c, o, "pipe")

\* socket->handle is read again after an operation that was pending.
SocketTransferEnds(c) ==
    /\ Awake(c, "use") \/ Awake(c, "unlinked")
    /\ IF call[c].res = "pending" /\ ~obj[call[c].o].mem THEN Undefined(c) ELSE Return(c)

Make(c, kind, listen) ==
    /\ call[c] = Idle
    /\ OneKind(kind)
    /\ OpenFile
    /\ obj' = Append(obj, [Object(kind, NewFd, NewFile, "unknown") EXCEPT !.listen = listen])
    /\ UNCHANGED <<call, strayed, skip, lost>>

\* What fails on the way closes its handle at once.  All but a pipe that listens are
\* linked to the completion port here.
bio_net_wrap(c) == Make(c, "ws", FALSE) \/ Make(c, "pipe", FALSE)
bio_net_ws_listen(c) == Make(c, "ws", FALSE)
bio_net_pipe_listen(c) == Make(c, "pipe", TRUE)
bio_net_pipe_connect(c) == Make(c, "pipe", FALSE)

\* The handle of the call becomes a socket, or is closed.
Hand(c, kind, mode) ==
    /\ obj' = Append(obj, Object(kind, call[c].fd, call[c].file, mode))
    /\ Update(c, Idle)
    /\ UNCHANGED <<kernelVars, lost>>

Drop(c) ==
    /\ dt' = [dt EXCEPT ![call[c].fd] = 0]
    /\ Update(c, Idle)
    /\ UNCHANGED <<files, strayed, skip, obj, lost>>

\* The address of ConnectEx is asked for, then the connection: two operations on a
\* handle that only the call knows.
bio_net_ws_connect(c) ==
    LET mode == InitMode  s == Skip(NewFile) IN
    /\ call[c] = Idle
    /\ OneKind("ws")
    /\ OpenFile
    /\ skip' = s
    /\ \E e \in Outcomes(NewFile, s) :
        Update(c, [Started(Holding(Call("connect", "ioctl", 0, "wait")), e) EXCEPT
                       !.pkt = IF MustWait(e.res, mode) THEN @ ELSE "taken"])
    /\ UNCHANGED <<obj, strayed, lost>>

ConnectEnds(c) ==
    LET mode == IF call[c].file \in skip THEN "skip" ELSE "always" IN
    /\ call[c].op = "connect"
    /\ \/ /\ Awake(c, "ioctl")
          /\ \E e \in Outcomes(call[c].file, skip) :
              Update(c, [Started(call[c], e) EXCEPT
                             !.step = "connect",
                             !.pkt = IF MustWait(e.res, mode) THEN @ ELSE "taken"])
          /\ UNCHANGED <<kernelVars, obj, lost>>
       \/ Awake(c, "connect") /\ Hand(c, "ws", mode)
       \/ (Awake(c, "ioctl") \/ Awake(c, "connect")) /\ Drop(c)
-----------------------------------------------------------------------------
(***************************************************************************)
(* Accepting.                                                               *)
(***************************************************************************)
\* From WSASocketA on: the client socket is made and AcceptEx called.  If either
\* fails nothing is left of it.
AcceptEx(c, o, mode, s) ==
    LET listener == [obj EXCEPT ![o].mode = mode, ![o].listen = TRUE] IN
    \/ /\ Update(c, Idle)
       /\ obj' = listener
       /\ UNCHANGED <<dt, files>>
    \/ /\ OpenFile
       /\ \E e \in Outcomes(obj[o].file, s) :
            IF MustWait(e.res, mode)
            THEN /\ Update(c, Started(Holding(Call("accept", "accept", o, "wait")), e))
                 /\ obj' = listener
            ELSE /\ Update(c, Returned(Started(Idle, e)))
                 /\ obj' = Append(listener, Object("ws", NewFd, NewFile, "unknown"))

\* listen_data is made by the first call, which has to ask for AcceptEx.
bio_net_ws_accept(c, o) ==
    LET mode == Mode(o)  s == Skips(o) IN
    /\ call[c] = Idle
    /\ Open(o, "ws")
    /\ skip' = s
    /\ \/ /\ obj[o].listen \/ ~bio_maybe_wait_after_success(mode)
          /\ AcceptEx(c, o, mode, s)
       \/ /\ ~obj[o].listen
          /\ \E e \in Outcomes(obj[o].file, s) :
              /\ MustWait(e.res, mode)
              /\ Update(c, Started(Call("accept", "ioctl", o, "wait"), e))
          /\ obj' = [obj EXCEPT ![o].mode = mode]
          /\ UNCHANGED <<dt, files>>
    /\ UNCHANGED <<strayed, lost>>

\* socket->handle is used after each of the two operations, if it went well.
AcceptExEnds(c) ==
    LET o == call[c].o IN
    /\ call[c].op = "accept"
    /\ \/ /\ Awake(c, "ioctl") /\ obj[o].mem
          /\ AcceptEx(c, o, obj[o].mode, skip)
          /\ UNCHANGED <<strayed, skip, lost>>
       \/ Awake(c, "ioctl") /\ Return(c)
       \/ Awake(c, "accept") /\ obj[o].mem /\ Hand(c, "ws", "unknown")
       \/ Awake(c, "accept") /\ Drop(c)
       \/ (Awake(c, "ioctl") \/ Awake(c, "accept")) /\ ~obj[o].mem /\ Undefined(c)

\* The instance that listens becomes the client, a new one takes its place, which is
\* not linked to the completion port.
Swap(o) ==
    [obj EXCEPT ![o].fd = NewFd, ![o].file = NewFile, ![o].mode = "unknown", ![o].listen = TRUE]

\* The entry of c in the list of acceptors, a part of its frame; stale once the
\* call has returned without taking it out.
Entry(c, stale) == [c |-> c, stale |-> stale]
Acceptors(o) == obj[o].acceptors
Position(o, c) == CHOOSE i \in DOMAIN Acceptors(o) : Acceptors(o)[i] = Entry(c, FALSE)
Without(q, i) == SubSeq(q, 1, i - 1) \o SubSeq(q, i + 1, Len(q))

\* BIO_LIST_APPEND writes to the last entry, BIO_LIST_REMOVE to both neighbours.
AppendIsUndefined(o) == Acceptors(o) # <<>> /\ Acceptors(o)[Len(Acceptors(o))].stale
RemoveIsUndefined(o, i) == \E j \in {i - 1, i + 1} \cap DOMAIN Acceptors(o) : Acceptors(o)[j].stale

\* ERROR_PIPE_CONNECTED: the client was there already, and no packet is sent.
Connected == [res |-> "connected", pkt |-> "none"]

\* The new instance is made, the old one is associated with the completion port,
\* the acceptor is put in the list and the old instance waits for a client.  A
\* failure after the acceptor was put in the list leaves it there.
bio_net_pipe_accept(c, o) ==
    LET fd == obj[o].fd  file == obj[o].file  mode == Mode(o)  s == Skips(o)
        append(stale) == [Swap(o) EXCEPT ![o].acceptors = Append(@, Entry(c, stale))] IN
    /\ call[c] = Idle
    /\ Open(o, "pipe")
    /\ CanOpen
    /\ files' = NewFile
    /\ skip' = s
    /\ \/ \* the completion port does not take the old instance
          /\ dt' = [dt EXCEPT ![NewFd] = NewFile, ![fd] = 0]
          /\ obj' = Swap(o)
          /\ UNCHANGED <<call, lost>>
       \/ /\ AppendIsUndefined(o)
          /\ dt' = [dt EXCEPT ![NewFd] = NewFile]
          /\ obj' = Swap(o)
          /\ Update(c, Call("accept", "pipe", o, "undefined"))
          /\ lost' = lost \cup {file}
       \/ \* ConnectNamedPipe fails
          /\ ~AppendIsUndefined(o)
          /\ dt' = [dt EXCEPT ![NewFd] = NewFile, ![fd] = 0]
          /\ obj' = append(TRUE)
          /\ UNCHANGED <<call, lost>>
       \/ /\ ~AppendIsUndefined(o)
          /\ dt' = [dt EXCEPT ![NewFd] = NewFile]
          /\ \E e \in Outcomes(file, s) \cup {Connected} :
              IF e # Connected /\ MustWait(e.res, mode)
              THEN /\ Update(c, [Started(Call("accept", "pipe", o, "wait"), e) EXCEPT !.own = TRUE])
                   /\ obj' = append(FALSE)
              ELSE /\ Update(c, Returned(Started(Idle, e)))
                   /\ obj' = Append(Swap(o), Object("pipe", fd, file, mode))
          /\ UNCHANGED lost
    /\ UNCHANGED strayed

\* A call that was cancelled (own is FALSE then: the handle was closed for it) does
\* not look at the socket any more.  The caller's bio_error_t is taken to be clear on
\* entry, as bio.h declares it in its examples: with an error left in it the test of
\* acceptor.cancelled is skipped.
PipeAcceptEnds(c) ==
    LET o == call[c].o  i == Position(o, c) IN
    /\ Awake(c, "pipe")
    /\ \/ ~call[c].own /\ Return(c)
       \/ /\ call[c].own
          /\ obj' = [obj EXCEPT ![o].acceptors[i].stale = TRUE]
          /\ dt' = [dt EXCEPT ![call[c].fd] = 0]
          /\ Update(c, Idle)
          /\ UNCHANGED <<files, strayed, skip, lost>>
       \/ call[c].own /\ RemoveIsUndefined(o, i) /\ Undefined(c)
       \/ /\ call[c].own /\ ~RemoveIsUndefined(o, i)
          /\ obj' = Append([obj EXCEPT ![o].acceptors = Without(@, i)],
                           Object("pipe", call[c].fd, call[c].file,
                                  IF call[c].file \in skip THEN "skip" ELSE "always"))
          /\ Update(c, Idle)
          /\ UNCHANGED <<kernelVars, lost>>
-----------------------------------------------------------------------------
(***************************************************************************)
(* Closing.                                                                 *)
(***************************************************************************)
bio_net_ws_close(c, o) ==
    /\ call[c] = Idle
    /\ Open(o, "ws")
    /\ dt' = [dt EXCEPT ![obj[o].fd] = 0]
    /\ obj' = [obj EXCEPT ![o] = Freed]
    /\ UNCHANGED <<files, strayed, skip, call, lost>>

\* The handles of the acceptors are closed for them; they are not woken by a
\* signal of their own but by the packets of the operations that were cancelled.
bio_net_pipe_close(c, o) ==
    LET cancelled == {Acceptors(o)[i].c : i \in DOMAIN Acceptors(o)} IN
    /\ call[c] = Idle
    /\ Open(o, "pipe")
    /\ IF \E i \in DOMAIN Acceptors(o) : Acceptors(o)[i].stale
       THEN /\ Update(c, Call("net_close", "none", o, "undefined"))
            /\ obj' = [obj EXCEPT ![o] = Closed(o)]
            /\ lost' = lost \cup {obj[o].file}
            /\ UNCHANGED dt
       ELSE /\ dt' = [fd \in Fd |-> IF \/ fd = obj[o].fd
                                       \/ \E d \in cancelled : call[d].fd = fd
                                    THEN 0 ELSE dt[fd]]
            /\ call' = [d \in Client |-> IF d \in cancelled
                                         THEN [call[d] EXCEPT !.own = FALSE] ELSE call[d]]
            /\ obj' = [obj EXCEPT ![o] = Freed]
            /\ UNCHANGED lost
    /\ UNCHANGED <<files, strayed, skip>>
-----------------------------------------------------------------------------
\* The standard handles are passed to bio_fdopen like those of a program.
Init == InitObjects(<<>>) /\ skip \in {{}, {0}}

Next ==
    \E c \in Client :
        \/ bio_platform_process_events(c)
        \/ bio_fopen(c) \/ FdopenCall(c) \/ Job(c) \/ OpenOrCloseEnds(c) \/ JobEnds(c)
        \/ TransferEnds(c) \/ SocketTransferEnds(c)
        \/ bio_net_wrap(c) \/ bio_net_ws_listen(c) \/ bio_net_ws_connect(c)
        \/ bio_net_pipe_listen(c) \/ bio_net_pipe_connect(c)
        \/ ConnectEnds(c) \/ AcceptExEnds(c) \/ PipeAcceptEnds(c)
        \/ \E o \in DOMAIN obj :
            \/ bio_fread(c, o) \/ bio_fwrite(c, o) \/ bio_fflush(c, o) \/ bio_fstat(c, o)
            \/ bio_fclose(c, o)
            \/ bio_net_ws_send(c, o) \/ bio_net_ws_recv(c, o)
            \/ bio_net_ws_accept(c, o) \/ bio_net_ws_close(c, o)
            \/ bio_net_pipe_send(c, o) \/ bio_net_pipe_recv(c, o)
            \/ bio_net_pipe_accept(c, o) \/ bio_net_pipe_close(c, o)

Spec == Init /\ [][Next]_vars
-----------------------------------------------------------------------------
\* A job of the thread pool reaches an open file it did not mean only if the handle
\* of its file was closed before the job ran.
ReachesItsFile == strayed \subseteq {"closed"}

\* What is undefined comes from an object that was closed while a call waited, or
\* from an acceptor that a failed accept has left in the list of a pipe.
FreedOnlyByClose ==
    \A c \in Client : call[c].at = "undefined" =>
        \/ call[c].op \in {"transfer", "use", "accept"} /\ ~obj[call[c].o].live
        \/ /\ call[c].op \in {"accept", "net_close"}
           /\ \E i \in DOMAIN Acceptors(call[c].o) : Acceptors(call[c].o)[i].stale

\* A transfer whose file was closed before its job ran, and that has reached, or may
\* have reached, another open file.
Astray(c) == call[c].op = "transfer" /\ ~obj[call[c].o].live /\ "closed" \in strayed

\* A call that waits has a packet to come or was woken by it, and a call that has
\* returned has none to come: the mode the library believes in is the mode of the
\* handle.  The exceptions: a transfer that went astray, since the open file it
\* reached may have another mode or not be linked to the completion port yet, and a
\* send or receive on a pipe that listens, whose instance is not linked either.
WaitersAreWoken ==
    \A c \in Client :
        /\ call[c].at = "wait" /\ call[c].pkt = "none" => Astray(c) \/ call[c].step = "unlinked"
        /\ call[c].at = "overwritten" => Astray(c)
=============================================================================
