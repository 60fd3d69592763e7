# Formal models of bio

TLA+ models of [bio](../src/README.md), a C library that runs coroutines over
asynchronous I/O: its scheduler, handles, mailboxes, thread pool, timers,
services, logging, buffers, and its files and sockets on Linux, FreeBSD and
Windows, model-checked with TLC on small instances; every safety property is also
proved with TLAPS, for every size.

Every module names the source file it models, and definitions keep the names of
the functions they translate.

## The system

bio runs all coroutines of a program on one thread. `bio_loop` resumes the ready
coroutines one after the other, then polls the thread pool, the timers and the
operating system, and sleeps in the kernel when nothing is ready. Everything a
coroutine can wait for ends in `bio_raise_signal`.

| Component | State | Operations | Used by |
|---|---|---|---|
| handle table (`handle.c`) | slots with generations, free list | make, resolve, close | everything below |
| scheduler (`scheduler.c`, `bio.c`) | coroutines, signals, monitors, two ready lists, counters, exit handlers | spawn, raise, wait, yield, monitor, loop, terminate | everything below |
| delayed signals (`timer.c`) | binary heap, cached time | raise after a delay, update, time to sleep | scheduler, timers |
| timers (`timer.c`) | one coroutine per timer | create, reset, cancel | programs |
| mailbox (`mailbox.c`) | ring, one waiting receiver | open, close, send, receive | services, programs |
| queue between threads (`thread.c`) | ring, atomic count, two condition variables | produce, consume | thread pool |
| thread pool (`thread.c`) | two queues per worker, loads | run async, update, cleanup | files, programs |
| Linux platform (`linux/platform.c`) | io_uring, futex word or eventfd | update, notify, block exit signals | scheduler, pool, files, sockets |
| services (`service.c`) | a coroutine and a mailbox | start, call, respond, stop | logging, programs |
| logging (`logging.c`, `logging/file.c`) | list of loggers, each a service | add, remove, log | programs |
| buffering (`buffering.c`) | a buffer over a read or write function | read, write, flush, destroy | programs |
| files and sockets (`linux/`, `freebsd/`, `windows/`) | descriptors, pending requests | open, read, write, close, accept, connect | programs |

How they interact: a coroutine makes a signal and gives it to a timer, a worker,
the kernel, a mailbox or a monitor; whoever holds it raises it, from a coroutine,
from `bio_loop` or (through a queue) from a worker thread; the scheduler puts its
owner on the next ready list. Handles stand between all of them: closing one is
how a holder learns that the object is gone.

What is hard:

* *Interleaving of coroutines.* Any coroutine may run between the raise of a
  signal and the resumption of its owner, and between two suspensions inside one
  library call. State read before a suspension is stale after it.
* *Requests that outlive what they were made of.* A coroutine suspended in a read,
  a write, an accept or a log call holds pointers and descriptors that another one
  may free, close or reuse.
* *Threads.* The queue to a worker is lock-free on its fast path; the sleeping
  loop and a worker race through a futex or an eventfd.
* *Object lifetimes.* Coroutines, signals, monitors, timers and mailboxes are
  freed while others hold their handles.
* *Clocks.* Delays are added to a cached time and compared with a fresh one.
* *Termination.* Two counters decide when the loop returns; daemons, exit
  handlers, loggers and workers have to be stopped in order.

The hazards are listed with their source lines in `PROJECT.json`.

What makes each component correct: handles never alias (handle table); each ready
coroutine is resumed once and no wakeup is lost, early or doubled (scheduler);
the heap raises what is due and the loop sleeps no longer (delayed signals); a
callback is neither early nor lost nor called after a cancellation (timers); a
bounded FIFO without missed wakeups (mailbox, queue); no finished job goes
unnoticed, and the pool stops (thread pool); a call ends with an answer, a
cancellation or the death of the service, and no one writes to a frame that is
gone (services); what a logger took is written, and a removed logger is not touched
(logging); the bytes come out once and in order whatever fails (buffering); every
descriptor has one owner, a call works on the open file it was given, and what waits
is woken (files, sockets).

## The modules

`HandleSpec` is what the handle table promises: a fresh handle for each object,
which stands for it until it is closed and never again. `HandleTable` models
`handle.c`: `slots`, `handle_capacity`, `next_handle_slot` and `num_handles` are
the fields of `bio_ctx`; `bio_make_handle` (with `bio_grow_handle_table`) and
`bio_close_handle` are actions, `bio_resolve_handle` and `bio_handle_info` are
operators. `issued`, `bound` and `free` are auxiliary: all handles made, what the
open ones stand for, and the free list as a sequence.

`Scheduler` models `scheduler.c` and the exit handling of `bio.c`. Coroutines,
signals and monitors are identified with their handles. User code (of main, of
coroutines, of the cleanup callbacks of coroutine-local storage) may make any
call at any time; `pc` says where `bio_loop` is, and each part of the loop between
two points where other code can run is one action: `Resume`, the suspensions
(`bio_yield`, `bio_wait_for_signals`, `bio_wait_for_exit`, `Return`),
`DestroySignals`, `TriggerMonitor`, `DestroyCoro`, `EndOfList`, `DispatchOne`,
`SwapLists`. Timers, threads and I/O are raises while the loop polls.

`BoundedFifo` is a bounded queue that can be closed. `Mailbox` and `SpscQueue`
both implement it.

`Mailbox` models `mailbox.c` with the retry loop of `bio_wait_and_send_message`
and the receive loop of `bio_foreach_message`; `read` and `write` wrap modulo
`CounterMod` as `uint32_t` does. A receiver is split where it suspends.

`SpscQueue` models `bio_spscq_t` at the grain of single atomic operations, ring
accesses and mutex and condition-variable operations, with spurious wakeups: the
load of `count` under the mutex (`Check`) and the `cnd_wait` it leads to (`CndWait`)
are two steps, since the other thread changes `count` without the mutex. The
model is sequentially consistent, as the default order of C11 atomics is.

`ThreadPool` composes workers and the loop around such queues, taken as sequences
with a bound (which is what `SpscQueue` is shown to implement), with
`bio_platform_update` and `bio_platform_notify` of Linux. `has_op_futex_wait` is
chosen at the start, as the probe of the kernel does. `waiters` counts futex
waits or eventfd reads pending in the kernel (they stay pending when the wait ends
for another reason) and `completions` those the loop has not seen.

`TimerHeap` models the heap and its clock; heap positions start at 1, so that the
children of `i` are `2i` and `2i + 1`. A step is one turn of a loop: the new entry
rises (`SiftUp`), the first one is raised and deleted (`Expire`), the one put in its
place sinks (`SiftDown`); `heap_pc` says which loop runs and `position` is its
`current` or `index`. Nothing but time comes between two turns, as none of these
functions suspends. `Timer` models the timer objects over the delayed signals, which
are a set there: an update raises what is due (`Expire`) and all of it
(`UpdateRaisesAllDue`).

`Service` models `service.c` and the macros of `service.h` over an abstract
mailbox (the FIFO `Mailbox` implements) and a monitor on the service's coroutine.
A client is split where it suspends: starting, sending to a full mailbox, waiting
for the ack, the cancel or the monitor signal, stopping. The service may handle a
message for as long as it likes, respond, drop it, stop itself or end.
`written` records which response blocks ran, `outcome` what each call returned.

`Logging` models `logging.c` and the log function of `logging/file.c`. `cpu` says
who runs, since `bio_vlog` walks the list of loggers without giving way except on
a full mailbox. `itr` and `next` are the pointers it keeps across that
`bio_yield`; reading a freed logger through one of them makes `cpu` "undefined".
Some clients are daemons (`Daemon`): `bio_loop` returns without waiting for them, so
`bio_terminate` finds them suspended anywhere, and the `bio_loop` it calls after the
clean-up (`main` = "drain") runs them, and what they still ask for, to their end.

`Buffering` models `buffering.c`: one buffer, its user and a coroutine that
destroys it. Bytes are numbered, so that the sink, the buffer and what the user was
told can be compared; `user` and `destroyer` say where the two coroutines are. The
code does not keep two users of one buffer apart, and
`buffering.h` leaves that to the program: there is one user.

`IoObjects` is what the three ports share: the descriptor table, the objects behind
the handles and the calls in progress; a new open file takes the smallest free
descriptor, as the kernel does, so descriptors are used again. `LinuxIo`,
`FreeBsdIo` and `WindowsIo` model the ports over it:

* `LinuxIo`: every operation is a sequence of io_uring requests. `sq` is the
  submission queue; a request names its descriptor until the kernel takes it and
  its open file afterwards. `bio_fclose` and `bio_net_close` close the handle first
  and the descriptor through a request.
* `FreeBsdIo`: sockets wait for kqueue events in a read and a write slot; files use
  aio where it works and the thread pool where it does not. The slots point into
  the frames of the calls and are read off `call`.
* `WindowsIo`: overlapped operations and their completion packets. `mode` of an
  object is the completion mode the library believes in, `skip` the one the kernel
  has. A file that `bio_fopen` has opened and not yet linked to the completion port
  (`Unlinked`) has no packets; what is begun on it, by a job whose own file was closed,
  may end without one. The same holds of the instance of a named pipe that listens
  (`Listening`): `bio_net_pipe_listen` and `Swap` do not link it, the accept that takes
  it does. A named pipe that accepts replaces its own handle and keeps a list of
  acceptors, which are local variables of the calls. Whether handles can skip packets is
  one choice for all of them (`InitMode`); the code asks each handle, and the properties
  compare `mode` with `skip` handle by handle.

`Ports` puts the three side by side, as `internal.h` includes one of them, and
states what holds on all.

`HandleTableProofs`, `SchedulerProofs`, `ContainerProofs`, `ServiceProofs`,
`ThreadPoolProofs`, `ObjectProofs`, `PortsProofs` and `WindowsProofs` hold the
theorems. `ContainerProofs` extends `SpscQueue`, `Mailbox` and `TimerHeap` together,
`ObjectProofs` extends `Timer`, `Logging` and `Buffering`, which is why the names of
those modules are distinct (`MailboxSpec`, `HeapSpec`, `TimerSpec`, ...).

The `MC` modules add the symmetry sets and the arrays of signals TLC enumerates.
Definitions marked *Mutant* are wrong variants of the definition that follows
them, each a plausible bug; with it, TLC finds the property it is listed with
violated, which shows that the property and the bounds can tell.

## The runs

| Run | Instance | What it shows |
|---|---|---|
| `handle_table` | capacity 1 growing to 4, few generations, two tags, zero and stale handles | free list exact, `bio_resolve_handle` exact, `HandleSpec` implemented |
| `scheduler` | 2 coroutines, 3 signals, 2 waits each | `ScheduledOnce`, `WakeAccounting`, `WakeJustified`, `SignalsHaveLivingOwner`, `ExitHandlersValid`, `CountersExact`, `NothingAbandoned` |
| `scheduler_progress` | 2 coroutines, 2 signals, 1 monitor, fairness | a monitor fires once, at the latest when its target dies; a coroutine whose signals are raised runs again |
| `mailbox` | 2 senders, 2 receivers, 2 messages, capacity 2, counters modulo 4 | a bounded FIFO; no receiver sleeps beside a message or is refused without cause; messages are received |
| `spsc_queue` | ring of 2, indices modulo 4, 2 items | no lost wakeup, a bounded FIFO, calls return |
| `thread_pool` | 3 jobs, 2 workers, request queues of 1, futex or eventfd, fairness | loads exact, no lost notification; every job is taken, run and signalled, cleanup returns |
| `timer_heap` | 6 signals, delays 0 to 3, time to 4 | minimum first whenever the loop asks, nothing lost |
| `timer` | 2 timers, timeouts 1 and 2, time to 3, fairness | armed while asleep, never early; fires or ends |
| `service` | 2 clients, 2 calls each, mailbox of 1, fairness | a call is answered exactly when it returns OK; cancelled calls and calls of a stopped service return |
| `logging` | 2 clients, one of them a daemon, 2 loggers, 3 messages, mailboxes of 2, fairness | a freed logger is used in one case only; what was taken is written; loggers and `bio_terminate` end |
| `buffering` | buffer of 3, requests up to 4, 7 bytes | bytes arrive once and in order |
| `ports` | Linux and Windows: 2 coroutines, 3 descriptors, 3 open files, submission queue of 2; FreeBSD: 3 coroutines, 2 descriptors, 2 open files | one owner per descriptor, calls reach their own file, freed memory is used in named cases only, waiters are woken |

The type invariants of `Mailbox`, `SpscQueue`, `ThreadPool`, `Timer`, `Service`,
`TimerHeap`, `Logging` and `Buffering` hold on the same instances; they document the variables
and are not listed as results. `SchedulerMonitors.cfg` is a larger instance of
`MonitorsExact` for occasional use, with two monitors.

Why the bounds are enough. Three signals are needed for a coroutine to leave one
wait with a signal left over and enter another wait that the old signal must not
end (with two, ignoring `wait_counter` goes unnoticed); two coroutines give a
foreign raiser and an owner. A ring of two has an empty, a full and a middle state, and counters modulo twice
the capacity wrap. With one request slot per worker, three jobs fill the slots of both workers and
leave one that has to try again, or meet in one worker's slot, hands and response
queue; two pending waits (`MaxWaiters`) are one left over and one current. Six entries
make a heap of three levels with both children present. Timer bounds: no timeout
starts after `MaxStart`, time stops at `MaxTime`; a bound on `Called` spares
cancelled timers so that they can end. A mailbox of one is full with one call, so
that the second client meets a full mailbox, a stop and a cancellation; two calls
each show a late answer to the first meeting the second. Two loggers give a walk
that has a next one; two places and three messages fill a mailbox while a copy is
being written; the daemon may be anywhere in adding, removing or logging when
`bio_terminate` begins. Requests longer than the buffer take the direct path, two flushes
fit into the seven bytes. In `Ports`, three open files let a descriptor be closed and
used again while a third is open; FreeBSD needs a reader, a writer and a closer and
gets one descriptor and one open file less (`BsdMaxFd`, `BsdMaxFile`). On Windows the objects that are open together are of one
kind (`OneKind`): kinds meet through descriptors only.

Deadlock is checked except in `service` (a call without a cancel signal that the
service drops waits for ever, as documented), in `logging` and `ports` (a coroutine
whose behaviour is undefined takes no step) and in `buffering` (the bytes run out).

Fairness. In `Scheduler`: the loop runs; a coroutine gives control back
eventually (cooperative scheduling asks this of it); main enters `bio_loop` and in
the end calls `bio_terminate`; polling returns when a coroutine is ready. Nothing
is assumed of raises. In `Mailbox`: receivers are resumed and keep receiving, as
`bio_foreach_message` does. In `SpscQueue`: both threads run and a mutex freed
again and again is granted (strong fairness of the lock; only spurious wakeups
could starve it). In `ThreadPool`: threads run, jobs end, the kernel returns when
it has a completion, and a coroutine that yielded in `bio_run_async` is resumed;
timers and other I/O are not assumed to wake the loop, so a lost notification
would show. In `Timer`: time passes, the loop updates, coroutines run. In `Service`: ready
coroutines run and a handler ends, by responding, dropping or stopping; nobody has to
call, cancel or stop. In `Logging`: coroutines run (daemons also in the `bio_loop`
of `bio_terminate`), a write to a log ends, and `bio_terminate`, once called, goes on.

## What is proved

With TLAPS, for every value of the constants that satisfies the named assumptions:
capacities and bounds are numbers, the modulus of a ring's counters is a multiple of
its size (`uint32_t` over sizes that are powers of two), the null values are not
objects, the names of clients are not those of the other actors. The bounds (`MaxMsgs`,
`MaxCalls`, `MaxTime`, ...) are arbitrary numbers there. Each component has an inductive
invariant, with the safety properties among its conjuncts or consequences, a lemma per
action or conjunct, and a theorem `Spec => []IInv` from which the others follow.

* `HandleTableProofs`: `TypeOK`, `FreeListExact`,
  `CountExact` and `ResolveExact`, and that `HandleTable` implements `HandleSpec`.
  `FreeListExact` alone says nothing of handles that were closed, so `IInv` adds
  `Generations`: no handle ever issued has a generation above that of its slot,
  and it equals it exactly while the handle is open. Hence the handle made from a
  free slot is new. The proof treats a table with a non-empty free list
  (`TableOK`) once; making a handle with and without growth are two ways to get
  such a table.
* `SchedulerProofs`, first layer: `TypeOK`, `ScheduledOnce` and `CountersExact`, for any
  number of coroutines, signals and monitors and any arrays, those with repeated signals
  included. `IInv` adds that the current list is empty outside the part of the
  loop that uses it, that a waiting coroutine has something to wait for (else the
  decrement of `num_blocking_signals` would leave the naturals) and that a live
  signal has an owner. One group of lemmas says how each way of changing the lists
  changes the set of queued coroutines; then there is one step per action.
* `SchedulerProofs`, second layer (`JInv`): `SignalsHaveLivingOwner`, `WakeAccounting`,
  `WakeJustified`, `MonitorsExact`, `ExitHandlersValid`, `NothingAbandoned`. Waits need
  `Stamped` (no signal carries the number of a wait to come: otherwise a new wait could
  count a signal it never named). Exit handlers need that no live monitor would raise
  the signal of a handler. `NothingAbandoned` needs to know what `bio_loop` leaves
  behind when it returns and that no handler is registered once `is_terminating` is set.
  `AccountingCorrect` has a hypothesis, `NoRepeats`: no array passed to
  `bio_wait_for_signals` names a signal twice. The code counts such a signal twice and
  sees it raised once, so without the hypothesis the equality is false; the inequality
  that `WakeJustified` rests on is proved without it.
* `ContainerProofs`:
  * rings: remainders, and windows of a ring as sequences. Writing the slot after a
    window appends to it, reading the first one takes the tail. Used by the next two;
  * the queue: `NoLostWakeup`, and that it implements `BoundedFifo`. The invariant says
    who holds which mutex, that what a thread saw of `count` stays true while it uses
    it (`Room`), where `head` and `tail` are with respect to the items in the middle of
    a call, and `NoLostWakeup` from the moment a thread has decided to sleep (`Wakes`):
    it holds its mutex from there, so the signal comes after;
  * the mailbox: `Waiters` (no receiver sleeps beside a message, and there is one at
    most), `FalseJustified`, and that it implements `BoundedFifo`. `FalseJustified`
    needs `Overtaken`: a receiver that was woken and finds nothing was overtaken by one
    that is still around;
  * the heap: `SleepExact`, `NothingLost`, and that an update leaves nothing behind that
    was due (`NoneOverdue`). `HeapOrdered` is the order of a heap with an exception for
    the entry that moves: while it rises it may be earlier than its parent, while it
    sinks later than its children, and its parent is no later than its children
    meanwhile (without that the swap would not restore the order). That the first entry
    of an ordered heap is the earliest is shown by the least position that contradicts
    it.
* `ServiceProofs`: `OutcomeExact`. A message in flight that could still be answered
  belongs to a caller that waits for exactly that call (`Answerable`); a caller that
  still tries to send has no message in flight; messages are distinct.
* `ThreadPoolProofs`: `LoadExact` and `NoLostNotification`. Loads need `Placed` (a
  submitted job is in one place, and its state says in which). The notification needs
  what the loop has seen before it sleeps: a response that came after its queue was
  drained is one that the futex word, the eventfd or its worker will still report
  (`LateResponsesNoticed`), and a loop that sleeps while jobs run has a wait pending.
* `ObjectProofs`:
  * timers: `WaitingIsArmed`, `NotCalledEarly`. `Armed` adds that a delayed signal
    without a sleeper is left only by a timer that was cancelled in its sleep, which is
    never armed again;
  * buffers: `WrittenInOrder`, `ReadInOrder`. The invariant says byte by byte what is in
    the sink, the buffer or with the user, also in the middle of a flush, when `total`
    bytes are in the sink and in the buffer;
  * loggers: `DanglingOnlyOnOverlap`, `TakenIsWritten`. The list is exactly the loggers
    that are open or closing (`Lives`); a client that walks keeps the processor until it
    suspends (`Walk`), so only a suspended walk can lose what it reads next (`Reads`), also
    when `bio_terminate` removes loggers beside the daemons that are left, and it removes
    open ones only; and what a logger owes comes before the farewell in its mailbox (`Owes`).

* `PortsProofs` and `WindowsProofs`: `DescriptorsOwned`, `ReachesItsFile`,
  `FreedOnlyByClose` and `WaitersAreWoken`, for any number of coroutines, descriptors
  and open files and every size of the submission queue. The three ports share the
  lemmas on ownership (`Owned`: every open object and every call that owns a descriptor
  holds it, and no two hold the same). The actions of a port are first shown to be among a few kinds of steps, told by what they
  do to descriptors, objects and calls, and each kind to keep each part of the
  invariant. `PortInv` is that of the port that is built:
  * `LinuxInv`: a request that the kernel has not taken names a file that is still open,
    since its object is open or the request to close it is behind it in the submission
    queue (`LinuxNamed`, `Behind`). This order is why `ReachesItsFile` has no exception
    on Linux;
  * `BsdInv`: a descriptor is used again only for newer files (`Newer`), so what a call
    reaches is either its own file or one opened after its handle was closed;
  * `WinInv`: the mode the library believes in is the one the kernel was told
    (`WinMode`, `WinSkips`), packets are as the modes say (`WinPackets`) but on the
    instance of a pipe that listens, which is known by the step of the call, no transfer
    means the file of a `bio_fopen` that has not come back (`WinLinked`), and the
    acceptors in the list of a pipe are the calls that wait there, or stale
    (`WinEntries`, `WinListed`). It is proved of the model with its bound `OneKind`.

Checked by TLC only: everything under fairness (`RaisedRuns`, `HeadReceived`,
`CallReturns`, `JobSignalled`, `CleanupReturns`, `TimerEnds`, `ClientsReturn`,
`LoggingEnds`), which the prover cannot do.

## Where code and comments disagree

The properties state what holds; where the code does less than a comment says, the
property names the exception, so that nothing else can hide behind it.

Named in the properties:

* README.md promises "No dangling references" and `bio.h` calls closing what another
  coroutine waits on "the idiomatic way to signal to that coroutine to terminate".
  The memory behind the handle is freed at once, though: on all ports a file read or
  write that is resumed uses it (`FreedOnlyByClose` lists the operations). Sockets
  on Linux are safe.
* FreeBSD: `bio_net_close` cancels `impl->read` where it means `impl->write`. With
  no reader that is a null pointer; with one, the writer is never woken
  (`FreedOnlyByClose`, `WaitersAreWoken`).
* FreeBSD and Windows: a call that is resumed after its handle was closed may use a
  descriptor that stands for another file by now (`ReachesItsFile`).
* Windows: when that file is one another coroutine is opening, it is not linked to the
  completion port yet. A comment in `bio_fdopen` says that "there is nothing to wait
  for" without a completion port, which is said of the file's own calls; the read or
  write that went astray waits for a packet that never comes, or gets one after it has
  returned (`Astray` in `WaitersAreWoken`). It takes three coroutines: one whose
  transfer is queued, one that closes its file, and one in `bio_fopen`. The run has
  two; the theorem covers any number.
* Descriptors that nothing closes (`lost`): a client accepted with descriptor 0 on
  Linux (`result > 0`), the socket of `bio_net_wrap` on Linux and FreeBSD, which
  does not assign `*sock`, a file whose `bio_fclose` returns `EBUSY` on FreeBSD.
* Windows: an accept of a pipe that fails leaves its acceptor in the list of the
  listening socket; the next accept or close follows a pointer to a frame that is
  gone (`FreedOnlyByClose`).
* `bio_vlog` keeps two pointers across `bio_yield`; a logger removed meanwhile is
  used after it was freed (`DanglingOnlyOnOverlap`).
* Windows: the instance of a listening pipe is linked to the completion port by the
  accept that takes it, not before. A send or receive on the listening socket, possible
  once a client has connected to it, is never woken unless an accept comes while it is
  pending ("unlinked" in `WaitersAreWoken`).
* `bio_terminate` removes loggers outside any coroutine; if the mailbox of one is
  full, `bio_notify_service` retries for ever. It is called when `bio_loop` has returned,
  that is with daemons suspended anywhere. If a daemon has begun to remove a logger
  and waits for room, the handle is closed and the logger is still in the list:
  `bio_remove_logger` does nothing with it and the loop of `bio_logging_cleanup` never
  ends, even if the mailbox has room by then (both are `Stuck` in `LoggingEnds`). A
  logger that a daemon adds after the clean-up is never removed and keeps the `bio_loop`
  of `bio_terminate` running (`Late`), and a daemon suspended in `bio_vlog` goes on with
  a logger that the clean-up has freed (`DanglingOnlyOnOverlap`).
* `buffering.h` says that destroying a write buffer flushes it. A short write is not
  repeated there (`cut`), and a flush that fails midway is repeated from the start
  of the buffer (`rewrites`).
* A second receiver on an empty, open mailbox gets `false` at once, where
  `mailbox.h` says it is suspended (`FalseJustified` states exactly when).
* A timer cancelled before its coroutine first runs, or in its callback, ends only
  at its due time (`CancelEnds` allows for it).

Met while modelling, outside the properties:

* `bio_thread_cleanup` drains "and free[s] messages from response queue" before it
  joins the worker. A job that ends in between puts its message in the queue after
  the drain, and it is never freed.
* Resetting a timer to a shorter timeout changes `due_time_ms` only; the coroutine
  sleeps until the old due time, although `timer.h` says that the current wait
  interval will be cancelled.
* `bio_wait_for_signals` counts entries, not signals: waiting for all of an array
  that names one live signal twice never ends.
* `bio_raise_signal_after` adds to the cached time, so a signal armed by a
  coroutine that has run for long comes early; `bio_timer_entry` therefore tests
  the time again after its wait, which is what `NotCalledEarly` checks.
* FreeBSD: a connect that fails is reported as a success when the event that ends
  the wait carries the error.

## Not modelled

* Coroutine switching (minicoro), io_uring, kqueue, aio, completion ports, futexes
  and the C library: taken as their users take them.
* Data that no property tells apart: file offsets (`bio_fseek`, `bio_ftell`, the
  offset kept beside a file), addresses and their translation, `bio_file_unwrap` and
  `bio_net_unwrap`, the text of log messages and of errors, names of coroutines,
  coroutine-local storage but for its cleanup callbacks.
* The exit signals of FreeBSD and Windows: `Scheduler` has those of Linux, which do
  the same to the scheduler.
* Memory: allocation does not fail; the stack address an eventfd read left pending
  writes to is not represented. Overflow of generations and of `wait_counter`
  needs billions of operations on one object and is left out.
* A `bio_error_t` that holds an error before the call: `bio.h` has it start as `{ 0 }`.
  With an old error in it, an accept of a Windows pipe that was cancelled after it had
  connected skips its test of `acceptor.cancelled` and returns a closed handle as a
  success.
* When the kernel looks up the descriptor of a `statx` request: `LinuxIo` has it looked
  up with all others when the request is taken, a kernel may do it later in a worker.
  `ReachesItsFile` is about reads, writes and accepts.
* Weak memory orders: all atomics of `thread.c` are sequentially consistent.

## Plan

The modules of the plan are written: handles and scheduler, then mailbox, queue and
thread pool, timers, services, logging, buffering, and files and sockets. All safety
properties the runs check are proved; liveness stays with TLC. What could follow: the
ports without the bound `OneKind`, and file offsets.
