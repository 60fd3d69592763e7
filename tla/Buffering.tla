------------------------------ MODULE Buffering -----------------------------
(***************************************************************************)
(* Buffered I/O (src/src/buffering.c, src/include/bio/buffering.h): one     *)
(* buffer in front of a file or a socket, the coroutine that reads or       *)
(* writes through it and one that destroys it.                              *)
(*                                                                          *)
(* The user's bytes are numbered in the order in which it hands them over,  *)
(* those of the source in the order in which they are read.  write_fn,      *)
(* read_fn and flush_fn suspend their coroutine; when they return, they     *)
(* have moved any number of bytes, or none, which is an error or the end of *)
(* the stream.  The user is one coroutine: nothing in the code keeps two    *)
(* users of a buffer apart.  A user resumed after the buffer was freed is   *)
(* "undefined" and says nothing of what follows.                            *)
(***************************************************************************)
EXTENDS Naturals, Sequences

CONSTANTS
    Size,          \* size of the buffer
    MaxRequest,    \* bound: bytes of one read or write
    MaxBytes,      \* bound: bytes handed over, or read from the source
    MaxSink        \* bound: bytes written, those written again included

ASSUME SizeAssumption == Size \in Nat /\ MaxRequest \in Nat
ASSUME BytesAssumption == MaxBytes \in Nat /\ MaxSink \in Nat

VARIABLES
    kind,          \* "read" or "write": which of read_fn and write_fn is set
    flushes,       \* flush_fn is set
    buf_impl,      \* "open", "closed" (being destroyed) or "freed"
    data,          \* bytes between the start, or offset, and the end of the data
    user,          \* where the user is
    op,            \* "write", "read" or "flush": the operation it is in
    left,          \* bytes it still wants to move
    exactly,       \* it is in bio_buffered_read_exactly or bio_buffered_write_exactly
    total,         \* total_bytes_written of bio_flush_internal_buffer
    destroyer,     \* where the coroutine in bio_destroy_buffer is
    sink,          \* bytes write_fn has written
    accepted,      \* bytes the user was told are written
    source,        \* bytes read_fn has read
    got,           \* bytes the user has received
    rewrites,      \* auxiliary: a flush failed after it had written something
    raced,         \* auxiliary: the buffer was destroyed under its user
    cut            \* auxiliary: bio_destroy_buffer met a short or failed write

buffer == <<kind, flushes>>
streams == <<sink, accepted, source, got>>
request == <<op, left, exactly, total>>
bufferVars == <<buffer, buf_impl, data, user, request, destroyer, streams, rewrites, raced, cut>>

\* The bytes a .. b.
Bytes(a, b) == [i \in 1 .. b - a + 1 |-> a + i - 1]
-----------------------------------------------------------------------------
(***************************************************************************)
(* The end of an operation.                                                 *)
(***************************************************************************)
Idle ==
    /\ user' = "idle"
    /\ op' = "none"
    /\ left' = 0
    /\ exactly' = FALSE
    /\ total' = 0

\* The user suspends in read_fn, write_fn or flush_fn, or goes on at once.
Suspend(at, kindOfOp, size, exact) ==
    /\ user' = at
    /\ op' = kindOfOp
    /\ left' = size
    /\ exactly' = exact
    /\ total' = 0

\* n of size bytes were moved; bio_buffered_read_exactly and
\* bio_buffered_write_exactly go on until all are, or none can be.
Return(n, size, kindOfOp, exact) ==
    IF exact /\ 0 < n /\ n < size THEN Suspend("again", kindOfOp, size - n, exact) ELSE Idle

\* An early return: the handle is stale, or the buffer is of the other kind.
Refused(kindOfOp) == buf_impl # "open" \/ kind # kindOfOp

Refuse == Idle /\ UNCHANGED <<data, streams>>
-----------------------------------------------------------------------------
(***************************************************************************)
(* Writing.                                                                 *)
(***************************************************************************)
Fits(size, used) == used + size <= Size

\* The data fits behind what the buffer holds, or is written past the buffer.
PutOrWrite(size, exact, held) ==
    IF Fits(size, Len(held))
    THEN /\ data' = held \o Bytes(accepted + 1, accepted + size)
         /\ accepted' = accepted + size
         /\ Return(size, size, "write", exact)
    ELSE /\ data' = held
         /\ Suspend("direct", "write", size, exact)
         /\ UNCHANGED accepted

bio_buffered_write(size, exact) ==
    IF Refused("write") THEN Refuse
    ELSE /\ IF ~Fits(size, Len(data)) /\ data # <<>>
            THEN Suspend("flush", "write", size, exact) /\ UNCHANGED <<data, accepted>>
            ELSE PutOrWrite(size, exact, data)
         /\ UNCHANGED <<sink, source, got>>

\* Mutant: what was written stays in the buffer.
Unflushed == data

\* What bio_flush_internal_buffer leaves in the buffer: offset = 0.
Flushed == <<>>

\* write_fn returns to bio_flush_internal_buffer with n bytes written.  A failure
\* leaves offset where it was, also when part of the data was written.
bio_flush_internal_buffer(n) ==
    /\ user = "flush"
    /\ n <= Len(data) - total
    /\ Len(sink) + n <= MaxSink
    /\ sink' = sink \o SubSeq(data, total + 1, total + n)
    /\ IF n = 0
       THEN /\ rewrites' = (rewrites \/ total > 0)
            /\ Idle
            /\ UNCHANGED <<data, accepted>>
       ELSE /\ IF total + n < Len(data)
               THEN /\ total' = total + n
                    /\ UNCHANGED <<user, op, left, exactly, data, accepted>>
               ELSE IF op = "write" THEN PutOrWrite(left, exactly, Flushed)
               ELSE /\ data' = Flushed
                    /\ IF flushes THEN Suspend("fflush", "flush", 0, FALSE) ELSE Idle
                    /\ UNCHANGED accepted
            /\ UNCHANGED rewrites
    /\ UNCHANGED <<source, got>>

\* write_fn returns to bio_buffered_write, or flush_fn to bio_flush_buffer.
Written(n) ==
    /\ \/ /\ user = "direct" /\ n <= left
          /\ sink' = sink \o Bytes(accepted + 1, accepted + n)
          /\ accepted' = accepted + n
       \/ /\ user = "fflush" /\ n = 0
          /\ UNCHANGED <<sink, accepted>>
    /\ Return(n, left, "write", exactly)
    /\ UNCHANGED <<data, source, got, rewrites>>

bio_flush_buffer ==
    IF Refused("write") THEN Refuse
    ELSE /\ IF data # <<>> THEN Suspend("flush", "flush", 0, FALSE)
            ELSE IF flushes THEN Suspend("fflush", "flush", 0, FALSE)
            ELSE Idle
         /\ UNCHANGED <<data, streams>>
-----------------------------------------------------------------------------
(***************************************************************************)
(* Reading.                                                                 *)
(***************************************************************************)
\* Mutant: a request that leaves data in the buffer does not move offset.
DeliverAll(size, exact, held) ==
    LET n == IF size < Len(held) THEN size ELSE Len(held) IN
    /\ got' = got \o SubSeq(held, 1, n)
    /\ data' = IF size < Len(held) THEN held ELSE <<>>
    /\ Return(n, size, "read", exact)

\* The bytes in the buffer, as many as the user asks for.
Deliver(size, exact, held) ==
    LET n == IF size < Len(held) THEN size ELSE Len(held) IN
    /\ got' = got \o SubSeq(held, 1, n)
    /\ data' = SubSeq(held, n + 1, Len(held))
    /\ Return(n, size, "read", exact)

bio_buffered_read(size, exact) ==
    IF Refused("read") THEN Refuse
    ELSE /\ IF data = <<>>
            THEN Suspend("refill", "read", size, exact) /\ UNCHANGED <<data, got>>
            ELSE Deliver(size, exact, data)
         /\ UNCHANGED <<sink, accepted, source>>

\* read_fn returns.
Refilled(n) ==
    /\ user = "refill"
    /\ n <= Size /\ source + n <= MaxBytes
    /\ source' = source + n
    /\ IF n = 0 THEN Idle /\ UNCHANGED <<data, got>>
       ELSE Deliver(left, exactly, Bytes(source + 1, source + n))
    /\ UNCHANGED <<sink, accepted, rewrites>>
-----------------------------------------------------------------------------
(***************************************************************************)
(* Destruction, by another coroutine.                                       *)
(***************************************************************************)
\* The handle is closed first.  What a write buffer holds is passed to write_fn
\* once; only with something in the buffer is flush_fn called.
bio_destroy_buffer ==
    /\ buf_impl = "open" /\ user # "again"
    /\ raced' = (user # "idle")
    /\ IF kind = "write" /\ data # <<>>
       THEN buf_impl' = "closed" /\ destroyer' = "write"
       ELSE buf_impl' = "freed" /\ UNCHANGED destroyer
    /\ UNCHANGED <<buffer, data, user, request, streams, rewrites, cut>>

\* write_fn or flush_fn returns; whatever it says, the buffer is freed at the end.
Destroyed(n) ==
    /\ \/ /\ destroyer = "write" /\ n <= Len(data)
          /\ sink' = sink \o SubSeq(data, 1, n)
          /\ cut' = (n < Len(data))
          /\ destroyer' = IF flushes THEN "flush" ELSE "idle"
       \/ /\ destroyer = "flush" /\ n = 0
          /\ destroyer' = "idle"
          /\ UNCHANGED <<sink, cut>>
    /\ buf_impl' = IF destroyer' = "idle" THEN "freed" ELSE buf_impl
    /\ user # "again"
    /\ UNCHANGED <<buffer, data, user, request, accepted, source, got, rewrites, raced>>
-----------------------------------------------------------------------------
\* bio_make_file_read_buffer, bio_make_file_write_buffer and their counterparts
\* for sockets choose the functions.
bio_make_buffer ==
    /\ kind \in {"read", "write"}
    /\ flushes \in {FALSE, kind = "write"}
    /\ buf_impl = "open"
    /\ data = <<>>
    /\ user = "idle" /\ op = "none" /\ left = 0 /\ exactly = FALSE /\ total = 0
    /\ destroyer = "idle"
    /\ sink = <<>> /\ accepted = 0 /\ source = 0 /\ got = <<>>
    /\ rewrites = FALSE /\ raced = FALSE /\ cut = FALSE

\* A call of the user, or the next round of an _exactly helper.
Request ==
    /\ \/ /\ user = "idle"
          /\ \/ \E size \in 1 .. MaxRequest, exact \in BOOLEAN :
                   \/ accepted + size <= MaxBytes /\ bio_buffered_write(size, exact)
                   \/ bio_buffered_read(size, exact)
             \/ bio_flush_buffer
       \/ /\ user = "again"
          /\ \/ op = "write" /\ bio_buffered_write(left, TRUE)
             \/ op = "read" /\ bio_buffered_read(left, TRUE)
    /\ UNCHANGED <<buffer, buf_impl, destroyer, rewrites, raced, cut>>

\* The user is resumed: impl is used again.
Resume ==
    /\ user \in {"flush", "direct", "fflush", "refill"}
    /\ IF buf_impl = "freed" /\ user # "fflush" /\ user # "direct"
       THEN /\ user' = "undefined"
            /\ UNCHANGED <<data, request, streams, rewrites>>
       ELSE \E n \in 0 .. MaxBytes :
               bio_flush_internal_buffer(n) \/ Written(n) \/ Refilled(n)
    /\ UNCHANGED <<buffer, buf_impl, destroyer, raced, cut>>

BufferNext ==
    \/ Request
    \/ Resume
    \/ bio_destroy_buffer
    \/ \E n \in 0 .. Size : Destroyed(n)

BufferSpec == bio_make_buffer /\ [][BufferNext]_bufferVars
-----------------------------------------------------------------------------
BufferTypeOK ==
    /\ kind \in {"read", "write"} /\ flushes \in BOOLEAN
    /\ buf_impl \in {"open", "closed", "freed"}
    /\ data \in Seq(Nat) /\ Len(data) <= Size
    /\ user \in {"idle", "again", "flush", "direct", "fflush", "refill", "undefined"}
    /\ op \in {"none", "write", "read", "flush"}
    /\ left \in 0 .. MaxRequest /\ exactly \in BOOLEAN
    /\ total \in 0 .. Size
    /\ destroyer \in {"idle", "write", "flush"}
    /\ accepted \in 0 .. MaxBytes /\ source \in 0 .. MaxBytes
    /\ sink \in Seq(Nat) /\ got \in Seq(Nat)
    /\ rewrites \in BOOLEAN /\ raced \in BOOLEAN /\ cut \in BOOLEAN

\* Between operations, the bytes the user was told are written are in the sink or
\* in the buffer, once and in order, whatever was short, refused or failed before;
\* once the buffer is destroyed they are all in the sink.  Three things break it:
\* a flush that fails midway is repeated from its start, bio_destroy_buffer does
\* not repeat a short write, and the buffer may be destroyed under its user.
WrittenInOrder ==
    kind = "write" /\ user = "idle" /\ destroyer = "idle" /\ ~rewrites /\ ~raced /\ ~cut =>
        sink \o (IF buf_impl = "open" THEN data ELSE <<>>) = Bytes(1, accepted)

\* The user receives the bytes of the source once and in order: what was read and
\* not yet received is in the buffer.
ReadInOrder == user # "undefined" /\ kind = "read" => got \o data = Bytes(1, source)
=============================================================================
