-------------------------------- MODULE Ports --------------------------------
(***************************************************************************)
(* Files and sockets, whatever the port: src/src/internal.h includes the    *)
(* platform.h of one of linux, freebsd and windows, and the three ports     *)
(* implement the same interface (src/include/bio/file.h, net.h).  The       *)
(* properties are what a program may rely on on all of them.                *)
(*                                                                          *)
(* On FreeBSD a reader, a writer and a coroutine that closes the socket     *)
(* have to meet, so there are three coroutines; two are enough elsewhere.   *)
(***************************************************************************)
EXTENDS Naturals, Sequences, FiniteSets

CONSTANTS
    Pair,          \* the coroutines, on Linux and Windows
    Trio,          \* the coroutines, on FreeBSD
    MaxFd,         \* bound: the largest descriptor, on Linux and Windows
    MaxFile,       \* bound: open files ever made, on Linux and Windows
    BsdMaxFd,      \* bound: the largest descriptor, on FreeBSD
    BsdMaxFile,    \* bound: open files ever made, on FreeBSD
    QueueSize      \* entries of the submission queue, on Linux

ASSUME BoundAssumption ==
    /\ MaxFd \in Nat \ {0} /\ MaxFile \in Nat \ {0}
    /\ BsdMaxFd \in Nat \ {0} /\ BsdMaxFile \in Nat \ {0}
ASSUME QueueSizeAssumption == QueueSize \in Nat \ {0}

VARIABLES port, dt, files, obj, call, strayed, lost, sq, skip

vars == <<port, dt, files, obj, call, strayed, lost, sq, skip>>

Linux == INSTANCE LinuxIo WITH Client <- Pair
FreeBsd == INSTANCE FreeBsdIo WITH Client <- Trio, MaxFd <- BsdMaxFd, MaxFile <- BsdMaxFile
Windows == INSTANCE WindowsIo WITH Client <- Pair

Init ==
    \/ port = "linux" /\ Linux!Init /\ skip = {}
    \/ port = "freebsd" /\ FreeBsd!Init /\ sq = <<>> /\ skip = {}
    \/ port = "windows" /\ Windows!Init /\ sq = <<>>

Next ==
    \/ port = "linux" /\ Linux!Next /\ UNCHANGED <<port, skip>>
    \/ port = "freebsd" /\ FreeBsd!Next /\ UNCHANGED <<port, sq, skip>>
    \/ port = "windows" /\ Windows!Next /\ UNCHANGED <<port, sq>>

Spec == Init /\ [][Next]_vars
-----------------------------------------------------------------------------
\* No descriptor leaks, is closed twice or is closed under the object that has it:
\* at every time each open descriptor has exactly one owner that will close it,
\* along every error path of opening, listening, connecting, accepting and closing
\* (bio_make_socket, bio_net_accept, bio_net_close, bio_net_pipe_accept and so on).
DescriptorsOwned ==
    /\ port = "linux" => Linux!DescriptorsOwned
    /\ port = "freebsd" => FreeBsd!DescriptorsOwned
    /\ port = "windows" => Windows!DescriptorsOwned

\* A suspended call never reads, writes or accepts on the open file of another
\* handle, although descriptors are used again: on Linux always (bio_fstat, which does
\* none of the three, aside), elsewhere unless its own handle was closed while it was
\* suspended.
ReachesItsFile ==
    /\ port = "linux" => Linux!ReachesItsFile
    /\ port = "freebsd" => FreeBsd!ReachesItsFile
    /\ port = "windows" => Windows!ReachesItsFile

\* The memory behind a handle is used after it was freed only by a call that was
\* suspended when another coroutine closed the handle, and only in the operations
\* each port names; nothing else of a port is undefined, but for a pipe whose
\* accept has failed.
FreedOnlyByClose ==
    /\ port = "linux" => Linux!FreedOnlyByClose
    /\ port = "freebsd" => FreeBsd!FreedOnlyByClose
    /\ port = "windows" => Windows!FreedOnlyByClose

\* A coroutine that waits for the system has a request, an event or a packet that
\* will wake it, whatever is closed meanwhile: but for a writer of a closed socket
\* on FreeBSD, and on Windows a read or write that went astray after its file was
\* closed, and a send or receive on a pipe that listens.
WaitersAreWoken ==
    /\ port = "linux" => Linux!WaitersAreWoken
    /\ port = "freebsd" => FreeBsd!WaitersAreWoken
    /\ port = "windows" => Windows!WaitersAreWoken
=============================================================================
