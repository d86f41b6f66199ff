# LinuxCodeSrc: specifications, checks and proofs

The repository is a set of Linux system programming exercises in C++: threads around a shared
queue, locks, pipes and FIFOs, and TCP servers. Most programs are small; what is hard about them
is what happens *between* their calls. This project models those that have such a between, checks
them with TLC, and proves with TLAPS what the runs check, and what liveness rests on.

## 1. Inventory

### Programs with concurrency or failure to speak of

| part | state it keeps | operations | how the parts interact | what makes it correct |
|---|---|---|---|---|
| producer/consumer: `DAY7/pdr_cum.cpp`, `DAY7/pdr_cum_final.cpp`, `DAY8/pdr2_con_mode.cpp`, `DAY9/2pro_con_mde.cpp`, `DAY9/3p2c_mode.cpp` | a queue, the count of finished producers, `g_mutex`, two condition variables, a loop counter per thread | produce, consume, finish, join | shared memory under one mutex; signal and broadcast | capacity never exceeded; each item consumed once, in its producer's order; no lost wakeup; every thread returns; mutex free when destroyed |
| locks: `DAY6/mutex.cpp`, `DAY6/sem.cpp`, `DAY7/src.cpp`, `DAY9/2r_2w_mode.cpp` | one integer and one lock | lock, load, store, print, unlock, join, destroy | threads, or two processes over a shared page | no addition lost, printed values are values of the counter, lock destroyed only when unused |
| file upload: `20260918/client_file.cpp`, `20260918/server_file.cpp` | client: file offset, header; server: children, bytes received, `recv_<name>` | connect, stat, send header, "OK", send file; accept, fork, recv_all, recv_file | two byte streams; children share the server's disk | both sides agree where the stream is; the stored file is the sent file; nobody waits for ever |
| event-loop echo servers: `20260919/select_server.cpp`, `20260920/poll_server.cpp` | the watched descriptors, the readiness of the last call | accept, read, write, close | byte streams of several clients through one loop | echoes complete, in order, to their sender; the loop does not block on stale readiness; no connection is lost sight of; nobody starves |
| forking echo server and client: `DAY10/socket_server.cpp`, `DAY10/socket_client.cpp` | a child per connection, alive or zombie; connections the parent could not fork for | accept, fork, echo; connect, write once, read once, close | byte streams; the table of processes and the parent's descriptors are shared | whoever got a child is answered; every child ends; the server's resources are given back |
| FIFO ends and self-pipe: `DAY5/mysender.cpp`, `DAY5/myreader.cpp`, `DAY3/file_demo/test2.c` | the pipe, who has it open, the reader's buffer | mkfifo, open, write, read, close | two opens wait for each other; atomic writes, reads across boundaries, end of file, SIGPIPE | messages whole and in order, all read, nothing printed that was not read, both programs end |
| mapped file: `DAY5/mmap_test/write.cpp`, `DAY5/mmap_test/read.cpp` | the file, its size | open, ftruncate, mmap, memset, memcpy, print | shared memory with no synchronisation | what a reader may print; when it prints the message; no SIGBUS |
| epoll server: `20260920/epoll_server.cpp` | the interest list | epoll_create1, wait, accept, read | as the event loops | who connects is accepted - it is not: `epoll_create1(1)` (line 59) always fails |

`poll_server.cpp` contains unresolved merge markers and does not compile as it stands; both sides
are complete programs when the markers are resolved one way throughout, and both are modelled.

### Not modelled

* `DAY5/mmap.cpp`, `DAY3/file_demo/{file.c,file_test1.c,myls.c}`, `DAY2/Project_demo`:
  straight-line programs without state that another actor sees.
* `DAY4/myshell.cpp`, `DAY4/myexec.c`: fork, exec and wait strictly in sequence.
* Start-up failures of the servers (`socket`, `setsockopt`, `bind`, `listen`), after which they end
  before anybody can connect.
* Compiled binaries, pictures and the notes; the notes serve as statements of intent.

The behaviours that are hard to test, each at its line, are the `hazards` of `PROJECT.json`.

## 2. Modules

| module | models | uses |
|---|---|---|
| `WorkQueue` | abstract: what a producer/consumer program promises | |
| `BoundedBuffer` | the five producer/consumer programs | instance of `WorkQueue` |
| `BoundedBufferProofs` | theorems about it, and the refinement | `BoundedBuffer` |
| `Counter` | abstract: an integer that writers add to atomically | |
| `Locks` | the four locking programs | instance of `Counter` |
| `LocksProofs` | theorems about it, and the refinement | `Locks` |
| `Sockets` | the ends and streams of a TCP connection: close, partial recv, end of stream, reset | |
| `FileTransfer` | client and server of the upload, the connections and the disk | `Sockets` |
| `FileTransferProofs` | theorems about it | `FileTransfer` |
| `EchoService` | abstract: what an echo server promises each client | `Sockets` |
| `EchoServer` | the select server and both poll servers, with their clients | `Sockets`, instance of `EchoService` |
| `EchoServerProofs`, `EchoServerRefines` | theorems about it; the second the refinement | `EchoServer` |
| `ForkServer` | the forking echo server with the echo client | `Sockets`, instance of `EchoService` |
| `ForkServerProofs` | theorems about it, and the refinement | `ForkServer` |
| `Pipes` | sender and reader of the FIFO, and test2 | |
| `PipesProofs` | theorems about it | `Pipes` |
| `MappedFile` | writer and reader of the mapped file | |
| `MappedFileProofs` | theorems about it | `MappedFile` |
| `EpollServer` | the epoll server up to its failing call, and the loop behind it | |
| `MC*` | instances for TLC | |

### BoundedBuffer

The five programs are one loop with different parameters, so a behaviour is a run of one record
`prog` (number of threads, capacity, items per producer, consumer rounds, and `finish`: how the
end is made known). Steps are cut at the pthread calls: everything shared is touched only under
`g_mutex`, so the code between two calls is one step. A waiting thread is at `wait_not_full` or
`wait_not_empty` and owns nothing; a signal moves one waiter, whichever, to `lock`, where it
competes for the mutex with everybody else, and then looks at the condition again. A wait may
also end without a signal (`SpuriousWakeup`). `delivered` is a history variable; the stored
numbers `i + id` are abstracted to who pushed them and at which round. `pdr_cum.cpp` has a flag
where the others have a queue: a queue of capacity one.

`RetireIfLast` keeps the unlock where `3p2c_mode.cpp:49-54` has it, inside the `if`. The counts of
the loops of `pdr_cum_final.cpp` and `pdr2_con_mode.cpp` are literals of their own in producer and
consumer (10 and 10, 10 and 20), and parameters of their own here: that they fit is not assumed.

### Locks

An increment is a load and a store. `Admits` says when a lock call may return, by kind of lock.
In `sem.cpp` parent and child print `count` *after* the semaphore; the parent has then waited for
the child. A writer of `2r_2w_mode.cpp` prints the integer before it unlocks (`Show`).
`src.cpp:64` joins `tid4`, which is never assigned: what follows is undefined, so `ExtraJoin` goes
on, crashes or never returns.

### FileTransfer

A connection is a sequence of units in each direction, with a bounded buffer; one `send` or
`recv` moves any part of what was asked for. The units of the header are told apart from those of
the file, and each unit of the file carries its offset. Closing a socket with unread input resets
the connection; a send to a closed end may succeed, fail, or end the sender with SIGPIPE. The
clients' files may change, appear or vanish during the run (`Edit`). `accept`, `fork`, `open` and
`write` on the server may fail, and a write may be short (`Fault`, bounded). After its transfer a
child falls out of the branch into `accept` on the descriptor it has closed, which fails, and it
returns; that is `ChildExits`. `client_file.cpp` compares an uninitialised buffer with "OK" after a
failed read: `NoReply` leaves the outcome open.

Not modelled: the functions nobody calls (`client_file.cpp:23-37,74-94,138-151`), failure of the
constructors, and names longer than 255 characters.

A connection whose `fork` failed is `leaked`: the parent goes on to `accept` with the descriptor
open, and every child forked later inherits a copy of it (`held`). When the parent has ended, it is
the end of the last child with a copy that closes it (`Holders`, `LastCopy`); a child's own
connection is closed by its parent at once and by nobody but the child.

### EchoServer

One loop serves for the three servers: wait, take the readiness, scan positions in ascending order,
accept at position 0 or read and write elsewhere. What is ready is *remembered* from the wait, as
`read_set` and `revents` are, while accepts and closes in the same scan change the table. They
differ in three things: `last` (`maxfd`) moves only in the select server; with no room the select
server's `accept` fails, HEAD closes the new socket and 252e04f forgets it, open; HEAD alone clears
`revents`. `accept` may also fail at any other time (`AcceptFails`), and `select` or `poll`, which
ends the server (`PollFails`). The write is blocking and partial: it passes units one by one as
there is room. A write on a reset connection goes unnoticed or kills the server (`Killed`).

Clients connect once, send, receive and close at any time. Not modelled: EINTR, which needs a
signal handler and would only repeat the call, and `FD_SETSIZE`.

### EchoService, and what it abstracts

A client's connection is `none`, `open`, `broken` or `over`, and `wire` is what it has sent and may
still get back. In both servers the wire of an open connection is the socket buffer towards the
client, then what the server has read and not yet written, then the socket buffer towards the
server; a connection the server has closed keeps the first of these. So the read, the write and
every step of the loop, of the parent and of a child are stutters, and what remains is that
nothing is lost, added or reordered on the way and nobody gets another client's units.

### ForkServer

The parent never waits for a child: an ended child is a `zombie` and counts against `limit`, the
number of children the server can have. `fork` fails exactly at that limit. Neither branch of
`start()` is then taken, so the connection is `leaked`: open, and served by nobody. `accept` may
fail at any time, and the parent then returns, which closes them; with `MaxOpen` leaked connections
it has no descriptor left and fails whether or not somebody waits. The client is
`socket_client.cpp` as it is: one write, one read of whatever has come, and the end, which resets
the connection if part of the echo is still unread. After its loop a child goes round `start()`'s
outer loop to an `accept` on the socket it closed, and returns; that is part of `Exits`.

### Pipes

`open` of either end waits for the other (`opening`) and wakes it. A write of a message is one
step, since `PIPE_BUF` is larger, and waits for room; `read` brings all there is, up to the size of
the buffer. `text` is the reader's buffer up to the first NUL: it is set only when more than one
unit came (`myreader.cpp:26`), and printed every time. The buffer is declared inside the loop; the
compiled program gives it the same place each time, so it keeps what was there. The user may
interrupt anybody (`Kills` bounds how often), which is the only way the reader ends, and may start
the reader again.

### MappedFile

Each unit of the file is NUL, part of the message, or older. Stores of `memset` and `memcpy`, and
the loads with which `cout << data` copies, happen one at a time in any order; the loads that look
for the NUL go in order, and leave the mapping when all of it holds none (`astray`: what is printed
then, if anything, is not this file's). In `write.cpp:12-17` the test of `fd` is the body of
`if(ftruncate(...))`: `OpenWrite` fails for an absent file and goes on after a failed `ftruncate`,
with the page of an empty file still out of reach (`SIGBUS`).

### EpollServer

The start-up leads to `epoll_create1(1)`, which fails. The loop is modelled as it is written, for
the day the flag is mended: its `else` belongs to the success of `epoll_ctl`, so after the first
`accept` that succeeds the server reads the *listening* socket, fails, and closes it.

## 3. Runs

| run | instance | shows |
|---|---|---|
| `bounded_buffer` | the first three programs with the source's bounds; 2+2 threads with capacity 1 and 2, 2 and 4 items; 3+2 threads with capacity 2, 2 items; one spurious wakeup | `TypeOK`, `MutexDiscipline`, `InOrderOnce`, `NoLostWakeup`, `JoinedQuiet`, `Implements` for all programs; no deadlock (`Proceeds`) and `Terminates` for all but `3p2c_mode.cpp`, and `ConsumersNeverExit` for that one |
| `three_producers_hang` | `3p2c_mode.cpp` | refutes `ConsumersExit` |
| `locks` | the four programs with the source's threads | `TypeOK`, `Exclusion`, `DestroyedQuiet`, `Implements`, `Finishes` |
| `file_transfer` | two clients, one file name, files of 2 units that may grow to 3, shrink or vanish, header of 2 units, buffers of 2, one edit, two faults | `TypeOK`, `InStep`, `FileIntact`, `SentIsStored`, `Proceeds`, `ChildrenExit`, `ClientsExit` |
| `short_write` | as `file_transfer`, one fault and no edits | refutes `SuccessMeansStored` |
| `echo_server` | each of three servers, three clients sending 3, 1 and 0 units, room for two, buffers of 2 | `TypeOK`, `EchoInOrder`, `NeverBlocks`, `Watched`, `Implements`, `Answered` |
| `fork_server` | three clients, messages of 3 units, limits of one and of two children, two connections of a failed fork | `TypeOK`, `Implements`, `Answered`, `AllEnd`, `Proceeds` |
| `zombies` | the same | refutes `ZombiesReaped` |
| `pipes` | two senders of 3 messages of 3 units, reads of 4, a pipe of 9, two interrupts; test2 | `TypeOK`, `StreamInOrder`, `NoJunk`, `Test2Hangs`, `Delivered` |
| `fifo_eof` | the same | refutes `EofEnds` |
| `mapped_file` | two writers and a reader of a file of 4 units, a message of 2 | `TypeOK`, `OnlyHoles`, `Settled` |
| `epoll` | two clients | refutes `Accepted` |

Why these bounds suffice: the queues of 1 and 2 fill, drain and fill again with both producers and
both consumers waiting, and more items than slots; the counted programs run in full. In
`file_transfer` a header and a file each take more than one `recv`, a file is longer than a buffer,
a file may be shorter or longer than announced, two children may have one file open, and any two
calls may fail at any point: a `fork` that leaves a connection open and then the `accept` that ends
the parent, while the other child has a copy. In `echo_server` the table is full with a client
waiting, an accept puts a client at a position that the same scan has still to reach, a position
freed in one scan is given to another client in a later one, a client sends more than the buffers
hold, and one that sends nothing closes in the middle of a scan. In `fork_server` a message takes up
to three reads and writes and one read of the client may leave part of it; with limit one the second
and third client are leaked, after which `accept` fails for want of a descriptor; with limit two two
children run side by side and the third client stays leaked; and `accept` may fail before any of
that. In `pipes` the pipe fills, messages are split across reads, three messages leave a read of a
single unit, and the reader may end and come back twice. In `mapped_file` the older contents are
longer than the message, and both writers may be anywhere in their stores while the reader loads.

TLC's deadlock check is off where a run may end (all of them: threads return, clients are done).
That nothing stops too early is stated instead: by the liveness properties, and without fairness by
`Proceeds`. It has two halves. Nobody is stuck: in the thread programs somebody can go on until all
have returned (`SomebodyRuns`), and a client and its child never wait for each other
(`NoStandoff`). And nothing goes round for ever: every step lowers a measure that nothing raises
(`Nearer`).

### Fairness

Threads and processes that can take a step eventually do (weak fairness per process): the
scheduler's promise. No fairness is given to who obtains a lock, to faults, edits, spurious wakeups,
or to a client's sending or closing, and none to a failing `accept` but in `ForkServer` when no
descriptor is left for it. For `EchoServer` clients that stay connected are assumed to receive: the
server writes with blocking calls, and one client that never reads stops it. `EchoServer`'s
`Answered` is restricted to runs in which the server lives; `ClientsExit` excepts only the client of
a failed fork, which waits for ever while the parent keeps its connection open. In `ForkServer`
clients go on once they have connected, and none need connect; in `Pipes` the user need neither
interrupt nor restart anything.

## 4. Findings and divergences

* `DAY9/3p2c_mode.cpp:49`: the first producer to finish returns with `g_mutex` locked, so the next
  that finishes blocks at line 47. In the end every other thread is in `pthread_mutex_lock`, or still
  in `pthread_cond_wait`: run `three_producers_hang`. The file presents
  itself as a working three-producer/two-consumer program (line 3) whose consumers exit (line 76).
  It is not a matter of luck: `ConsumersNeverExit`, checked and proved, says that no consumer ever
  exits in any run of it.
* `20260920/poll_server.cpp`: merge markers; side 252e04f keeps connections it has no room for,
  open and unserved (`Watched`: only with every position taken).
* `DAY9/3p2c_mode.cpp:23` says 10 items, the value is 5. `DAY7/README.md:10` describes
  `pdr_cum_final.cpp` as single-slot with values 0 to 9; the code has a queue of 5 and the values
  are `i + id`.
* `20260918/server_file.cpp:70`: a short `write` goes unnoticed and "File received successfully!"
  (line 111) is printed for a file that is too short: run `short_write`.
* `DAY4/README.md:189-191` says a long-running parent must reap its children; `DAY10/socket_server.cpp`
  (run `zombies`) and `20260918/server_file.cpp` never do. What follows, a server that first leaves
  clients waiting and then ends, is in `fork_server`.
* `DAY5/20260827.md:1016` says `read() == 0` is end of file and one should break;
  `DAY5/myreader.cpp:32` goes on: run `fifo_eof`.
* `20260920/epoll_server.cpp:59`: `epoll_create1(1)` fails after the server has announced itself
  (line 56): run `epoll`.

## 5. Theorems

All are of `Spec`, without fairness and for every value of the constants that meets the named
assumptions. These say: finite, disjoint sets of threads, in each program at least one producer and
one consumer; positive capacities and item counts; one consumer where its loop is counted; and
natural numbers, positive where they are sizes, for the bounds of the network programs. The theorems
on how the producer/consumer programs end (`JoinedQuietHolds`, `SomebodyRunsHolds`, `ProceedsHolds`,
`ImplementsHolds`) have one hypothesis more, `LoopsFit`: a counted consumer's rounds are the number
of all items. It is true of the source's literals, and the run, which does not assume it, checks
`JoinedQuiet` and `Terminates` for these.

**What liveness rests on.** Liveness itself is beyond the prover, since fairness speaks of ENABLED.
But for three of the systems all the rest of the argument is proved, as `Proceeds`: somebody who
ought to can always go on, and every step is one of only so many. `Nearer` compares natural numbers
(lemmas `LeftNumbers`), component by component, and in `BoundedBuffer` lexicographically, so that it
cannot hold of infinitely many steps of finitely many processes. What is left to assume is the
scheduler's promise that a process that can go on does; and that the guards in `Runs`, `ClientWaits` and
`ChildWaits` are those of the actions.

**BoundedBuffer.** `TypesHold`, `MutexHolds`, `OrderHolds`, `WakeupsHold` (module
`BoundedBufferProofs`). None is inductive by itself. `Shape` adds `Roles` (a consumer is never at a
producer's wait; a thread outside the program never starts) and `DoneCount` (`producer_done` is
the number of producers past their increment). On top, `InOrderOnce` needs that producers and
queue agree on what is sent, and `NoLostWakeup` is a counting argument: a push takes a free slot
and its pusher from the room users and adds an item with its pusher as item user; a thread goes to
sleep only when there is nothing for it.

`JoinedQuietHolds` and `ImplementsHolds` need how far each loop is: `Rounds` and `Over`. For the
counted programs the consumer's counter equals the number of delivered items, the cardinality of a
subset of producers × items; when it reaches the product, the subset is everything, so every
producer has delivered all of its items. `SomebodyRunsHolds` is a counting argument too. Suppose
nobody runs. Then the mutex is free, since its owner would run, and whoever has not returned waits,
so `NoLostWakeup` has no users of room or of items left. A producer that waits would mean a full
queue and, having items left, that no consumer has returned (`Over`); but a consumer that waits
would mean an empty one. So all producers have returned, and a consumer that waits does so at an
empty queue: with a counted loop it has then consumed everything and has no round left (`Goes`),
otherwise the last producer's broadcast is still due to it, by somebody who runs. `ProceedsHolds`
adds the measures: the items still to be delivered; then the steps left in each thread's rounds,
where a producer that looked in vain has lost none; then the spurious wakeups; then the way from the
lock back to the wait. A signal raises only the last, and only a step that lowers an earlier one
signals. `ConsumersNeverExitHolds` is about `3p2c_mode.cpp` alone: the first producer past its
increment is not the last, so it keeps the mutex (`FirstKeepsIt`), nobody gets it after that, and
`producer_done` stays at one. `ImplementsHolds` maps `Push` to `Send`, `Pop` to `Receive`, a
consumer's return to `Stop`, and every other step to a stutter.

**Locks.** `TypesHold`, `ExclusionHolds`, `DestroyedQuietHolds`, `ImplementsHolds` (module
`LocksProofs`), for any number of readers, writers and printers. The invariant adds to the
properties that the loaded register is current until the store (`Register`), that the integer is
the number of writers past their store (`Sum`), when each thread has printed (`Printed`,
`ParentPrinted`), and that main waits for all (`Waited`). In `2r_2w_mode.cpp` all that has
been printed by writers is different and no more than the integer, which a writer about to print
has just raised (`Announced`). The store is `Counter`'s `Add`, a print its `See`, and `See` lets no
two announcing writers print the same.

**EchoServer.** `TypesHold`, `NeverBlocksHolds`, `WatchedHolds`, `OrderHolds` (module
`EchoServerProofs`), for the three servers, any number of clients and positions and any buffer
sizes. The invariant says where each connection is: at no more than one position, and the
listener is where it should be (`Seats`), never twice in the queue or there and at a position
(`Queue`), open at the server exactly while it is in one of those (`Held`, but for the forgotten
sockets), nowhere before it connects (`Fresh`).
`NeverBlocks` needs `StillReady`: positions the scan has not reached are touched by nobody but the
client, and what a client does never makes a ready socket less ready. Of `Watched` the invariant
gives the states (`PlacesHold`) and the steps (`ForgottenWhenFull`): a connection goes out of sight
open only in an accept of side 252e04f that finds every position taken. `EchoInOrder` rests on two
equations for the stream from the client and back: as long as the connection is open it is
everything sent and not received (`AllDue`), and on a closed one what may still come is a first
part of that (`FirstDue`).

`ImplementsHolds` (module `EchoServerRefines`): a connect is `Open`, a send `Send`, a receive
`Receive`, a client's close `HangUp`; the steps that close the server's end of connections still
open at the client (the ends of the servers, and the accept of HEAD that finds no position) are a
`Break` of those; everything else stutters.

**FileTransfer.** `TypesHold`, `InStepHolds`, `IntactHolds`, `SentHolds`, `LeakedOpenHolds`,
`ProceedsHolds` (module `FileTransferProofs`), for any number of clients, any names and sizes, and
any number of changes of the files and of failing calls. The invariant has a part for each client.
`Ends`: which ends of its connection are open, and how far both sides have come. `Counts`: the
counters of the loops. `Stream`: the connection carries consecutive units from the very one the
child expects, and what the client has still to send follows on. `Answer`: "OK" goes out after the
file_Info has come in, and is read once. `Smooth`: while no call failed, what the child has received
is stored; while no file changed, the size in the file_Info is the file's and a client that is done
has sent that much; with both, a child gives up only if its client did. Three parts relate the
children: a leaked connection is open exactly as long as the parent is at `accept` or a running
child has a copy (`LeakedOpen`, with `Copies`); whoever created `recv_<name>` last has come as far
as that (`Creators`), and a child that is alone with its file is the only one to have it open
(`Alone`). With these `FileIntact` is inductive: a write goes exactly to the end of what is there.
`NoStandoff` needs more of the beginning (`Ready`): once the client waits for "OK", all of the
file_Info is under way or received, and once the child has sent all of "OK" it is there to be read;
and who has no child is in the queue of a parent that runs. So a client that waits for its answer
has a child with something to read or to send, and a client that waits for room has a child with
something to read. The measure counts the units a client has still to read and to send, and those
its child has still to receive.

**ForkServer.** `TypesHold`, `ImplementsHolds`, `ServedHolds`, `ProceedsHolds` (module
`ForkServerProofs`), for finitely many clients and any sizes and limits. The refinement needs more
than the types: only an ended client has closed its end (`Ends`); nothing is under way before a
client sends, and the server knows nothing of it before it connects (`Fresh`); a connection that is
queued or leaked has its server's end open while the parent runs (`Waiting`); and what may still
come back is what the client waits for next, read over the two streams and the child's buffer
together (`InOrder`). A connect is `Open`, or `HangUp` when the server has gone; a message is a
`Send` of all its units; a read of data is `Receive`; a failed send and the end of the client are
`HangUp`; the end of the parent is a `Break` of the connections queued and leaked; everything else
stutters.

For `Served` and `NoStandoff` the invariant adds `Steady`: from the client's write to its end the units
under way, in the child's buffer and received make up the whole message, so a client that waits with
nothing to read has left its child something to do; a child goes only after its client; and an open
connection without a child is queued, or leaked by a parent that runs. A client's
measure is how many of its four calls are left; a child's is a read and a write for each unit still
ahead of it, one read of the end, and no step raises either.

**MappedFile.** `TypesHold`, `OnlyHolesHolds`, `SettledHolds` (module `MappedFileProofs`), for any
number of writers and readers and any sizes with the message shorter than the mapping. `memset` and
`memcpy` store in any order, so the invariant is about sets of bytes: what a writer has cleared
holds nothing old, ever again (`Progress`); once nobody clears, a byte of the message that is
missing is still to be copied by somebody (`Rewritten`); and what a reader has loaded was there
when it was (`Loads`, `Quiet`).

**Pipes.** `TypesHold`, `OrderHolds`, `NoJunkHolds`, `HangHolds` (module `PipesProofs`), for any number
of senders, messages and interrupts and any sizes with a message that fits the buffer and the pipe.
For `StreamInOrder`: the pipe ends with a whole message (`Whole`), and no unit is in it, or was
read, before its message's turn (`Sent`); a read takes from the front, a write adds behind. For
`NoJunk`: as long as nobody is interrupted nothing is written without a reader (`Unwritten`), and a
reader that has stored nothing yet has more than one unit to read or a sender with something to say
(`Promised`). For `Test2Hangs`: the first read takes the whole message, so the second finds the pipe
empty and held open (`Apart`).

**Only model-checked.** Liveness (`Terminates`, `Finishes`, `ChildrenExit`, `ClientsExit`, `AllEnd`,
`Delivered`, `Answered` but for the `Served` of `ForkServer`), which is out of reach of the prover,
and the five refuted claims of section 4, which need only a counterexample.

## 6. Plan

The order of work was: producer/consumer, upload, echo loops, locks; then the forking server with
the abstract echo service, pipes, mapped file and epoll server; then the proofs. Every program
with a state that two actors share is modelled, and every invariant, action property and refinement
that a passing run checks is a theorem. What could follow is `Proceeds` for the others: that the
locks are never waited for by everybody, that the loop of the echo servers does not go round in vain,
and that the ends of the FIFO do not wait for each other.
