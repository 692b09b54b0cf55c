# TLA+ models of myWebServ

myWebServ is two stand-alone web servers in C++11 that share their HTTP code:

- `src/threadPool` is a half-sync/half-reactor: one thread does all the socket
  I/O, a pool of workers parses requests and prepares answers;
- `src/eventLoop` has one event loop per thread: the main thread accepts
  connections and deals them to the loops, which serve them on their own.

There are no unit tests; `stressTest.cc` is a load generator. This directory
models the concurrency of both servers and what they do with a connection from
request to answer, checks it with TLC, and proves with TLAPS, for every value of the
constants, the safety invariants, the action properties and the refinements that TLC
checks. Paths below are relative to `src/` of the repository.

## Inventory

| component | state | operations | interacts with | what is hard | what makes it correct |
|---|---|---|---|---|---|
| thread pool, `threadPool/threadPool.h` | `m_queue`, `m_running`, `m_threads`, two condition variables | `start`, `append`, `take`, `run`, `stop` | `main.cc` appends, the workers call `httpConn::process` | wake-ups, full queue, shutdown while workers sleep or work | bounded FIFO, no lost wake-up, every task served, shutdown ends |
| reactor main thread, `threadPool/main.cc` | `users[]`, `events[]`, the epoll instance | accept, read + append, write, close | epoll, the pool, `httpConn` of every connection | edge-triggered listening socket, blocking `append()` in the event loop, descriptor reuse | every connection is accepted, the loop always comes back |
| HTTP connection of the reactor, `threadPool/httpConn.{h,cc}` | buffers, parser state, `sock_fd`, `write_index`, the mapped file | `init`, `read`, `process`, `write`, `close_conn` | main thread and workers, without a lock | ownership passes through one-shot epoll and the queue; close in a worker | one owner at a time, never forgotten, answer before the next request |
| epoll wrappers, `threadPool/common.h`, `eventLoop/epoller.{h,cc}` | the kernel's interest list | add, mod, del, wait | everything | ET and one-shot: an event is reported once | part of the above |
| event loop, `eventLoop/eventLoop.{h,cc}` | `fd_con_queue`, `map_fd_http`, an eventfd, an epoll instance | `push_new_con`, `loop`, `close_con` | the main thread pushes and notifies | handover by queue and eventfd, descriptor closed before it leaves the map, deletion of an object from within its own method | handovers are noticed, one loop per connection, the assertions of `loop()` |
| acceptor, `eventLoop/main.cc` | `last_thread_id` | accept until `EAGAIN`, dispatch, push, notify | all the loops | the same edge-triggered socket, no descriptor left | accepts everything, pushes to and notifies the same loop |
| HTTP connection of the loops, `eventLoop/httpConn.{h,cc}` | as above, plus `pLoop`, `pEpoll` | constructor, destructor, `read`, `process`, `write` | its loop only | `process()` goes on after `close_con()` has deleted `this` | a connection waits for EPOLLOUT if it has an answer to send, and only then |
| HTTP request parser (in both `httpConn.cc`) | `check_state`, `checked_index`, `start_line`, `read_index` | `parse_line` ... `process_read`, `do_request` | fills `url_`, `linger_`, the mapped file | input arrives in pieces; clients that do not wait; the buffer's limit | result independent of the pieces; indices in bounds; nothing out of step taken for a request |
| HTTP response writer (in both) | `write_buf`, `iv_`, `file_address` | `add_*`, `process_write`, `write`, `unmap` | the socket | short writes, `EAGAIN`, the mapping's life, errors of `mmap()` | what is taken for sent is the response, whole and once; the connection is kept as announced; mapped while and only while it is needed |
| `stressTest.cc` | the sockets' registrations | a request, a piece of an answer, the next request | client of the servers | does not wait for the end of an answer | - |
| Makefiles, Readmes | - | - | - | - | - |

## Modules

- `TaskQueue` - what a thread pool promises: a bounded FIFO, `Put`, `Take` by
  one worker, `Finish`.
- `ThreadPool` - `threadPool<T>`: a critical section of `m_mutex` is an action,
  from lock to unlock or to the wait that releases it (nothing it touches is
  touched outside), and the unlocked reads of `m_running` in `append()` and
  `run()` are actions of their own. `notify_one()` wakes any one of the
  sleepers; spurious wake-ups are actions. `start()`, the destructor's `stop()`
  and its joins are included.
- `ThreadPoolProofs` - the theorems about it.
- `Epoll` - the interest list with `EPOLLONESHOT` as operators on a function
  from descriptors to `none`, `off`, `in`, `out`; what `epoll_wait()` may report.
- `Queues` - who waits in a `std::queue`: the task queue of the pool and the
  `fd_con_queue` of a loop.
- `ReactorServer` - the server of `threadPool/`: it composes `Epoll`, the pool
  through its specification `TaskQueue` (which `ThreadPool` is proved to
  implement), the main thread and the workers. One event handled by the main
  thread is one action, cut where it may block in `append()`. A worker is cut
  at the system calls by which it gives a connection up (`modfd()`, and the
  `close()` in `close_conn()`, before its `sock_fd = -1`).
- `Handoff` - what one loop per thread promises: accepted, given to one loop,
  adopted, closed.
- `EventLoop` - the server of `eventLoop/`: the main thread cut at `accept()`,
  push and eventfd write, and the loops cut at the read of the eventfd, the
  critical section of the drain, and, in `close_con()`, between `delete` (which
  closes the descriptor) and `erase`. It implements `Handoff`. The `mod()` at the end
  of `process()`, after `close_con()` has deleted the object, reads `pEpoll` and
  `sock_fd` in freed memory: what they were, no epoll instance, or those of an
  `httpConn` that another loop has made there meanwhile (`heirs`). The last needs
  loops that share an arena of the allocator, which `malloc()` does when there
  are more threads than arenas; nothing in the code excludes it.
- `ServerLemmas` - what the operators of `Queues` and `Epoll` return and preserve, for the
  proofs about both servers: `ReactorProofs` and `EventLoopProofs`.
- `HttpParser` - `read()`, `init()` and `process_read()` with the functions it
  calls, on a request that arrives in pieces. A request is a sequence of symbols:
  CR, LF, and texts by what the parser makes of them. A round of the loop of
  `process_read()` is an action; the conditions of `parse_line()` are predicates
  on positions of the buffer. The next request may come when it is its turn, or have
  come with the one before, whole or in part, or follow characters that belong to
  no request, as those at the end of what `stressTest.cc` sends; what `init()` drops
  decides whether the stream is still in step. What the fields of a request mean is
  `RequestsAssumption`: a good request has a first line, headers and an empty line, a bad
  one a first line that is another one, a broken one a CR or an LF out of place.
- `HttpParserProofs` - that its variables and indices are in order; `HttpAnswerProofs` -
  that its answers are right.
- `HttpWriter` - the writer's variables and operations: the mapping in
  `do_request()`, `add_response()` and `process_write()`, a round of the loop of
  `write()` with a `writev()` that takes any part of what it is given, blocks or
  fails, `unmap()`, and what `init()` and `close_conn()` leave alone. A response is a
  sequence of parts, its lines and the blocks of its file. `out` and `short` are
  history variables: what the socket has taken, and whether some `writev()` was short.
- `HttpConn` - a connection: `HttpParser` and `HttpWriter` composed as `process()` and
  `write()` compose them. The writer runs while the parser is at "answer"; the
  parser's `linger_` and result are what it prepares; keep-alive and close are steps
  of both. It implements `HttpParser`.
- `HttpConnProofs` - that it does, and the theorems about the writer and the whole.
- `MCThreadPool`, `MCReactorServer`, `MCEventLoop`, `MCHttpParser`, `MCHttpConn` -
  instances for TLC. Each `.cfg` gives constants their values and nothing else.

`ReactorServer` and `EventLoop` on one side and `HttpConn` on the other divide class
`httpConn`: who calls `read()`, `process()` and `write()` and when, and what the calls
do with the bytes. They meet at "one thread at a time has the connection", which is
`Exclusive` and `OnePlace` of the former and the grain of the latter.

The correspondence between definitions and lines of code is `map` in
`PROJECT.json`. Definitions keep the code's names where there is one
(`m_queue`, `sock_fd`, `last_thread_id`, `fd_con_queue`, `map_fd_http`);
`wpc`, `cpc`, `mpc`, `lpc` are program counters. Definitions whose comment says
"Mutant of X" are not used by a specification: each is a plausible mistake in
X that breaks the property named in `PROJECT.json`, which shows that the
property says something about the code.

In the server modules HTTP is abstracted to what decides who has a connection next: whether
`process_read()` found a whole request, whether `process_write()` prepared an
answer, whether `write()` blocked, finished or failed. `answering` records
`write_index > 0`. Clients may connect, send, drain and hang up at any time and
are obliged to nothing.

## Runs

| run | configuration | bounds | shows |
|---|---|---|---|
| `pool_safety` | `MCThreadPool.cfg` | 3 workers, 2 callers, 2 slots, 2 tasks and the null pointer | `TypeOK`; `NotEmptyWakeups`, `NotFullWakeups`: no wake-up lost; `ImplementsTaskQueue` |
| `pool_liveness` | `MCThreadPoolLive.cfg` | 2 workers, the main thread, 1 slot | `TaskServed`, `AppendReturns`, `BusyWorkersExit` |
| `pool_stop` | `MCThreadPoolStop.cfg` | 2 workers | violated: `StopReturns` |
| `reactor_safety` | `MCReactorServer.cfg` | 3 descriptors, 2 workers, 1 slot, backlog 2, no empty files | `TypeOK`, `Exclusive`, `NobodyForgotten`, `SocketOfConn`, `AnswerBeforeWrite`, `RequestsReturn` |
| `reactor_main_loop` | `MCReactorServerLive.cfg` | 1 descriptor, 2 workers, backlog 1, empty files | `MainReturns` |
| `reactor_empty_file` | `MCReactorServerEmptyFile.cfg` | 2 descriptors, 1 worker, empty files | violated: `SocketOfConn` |
| `reactor_backlog` | `MCReactorServerBacklog.cfg` | 2 descriptors, backlog 2 | violated: `PendingNoticed` |
| `eventloop_safety` | `MCEventLoop.cfg` | 2 loops, 2 descriptors, backlog 1, empty files | `TypeOK`, `HandoverNoticed`, `OnePlace`, `NobodyForgotten`, `AssertionsHold`, `AnswerNotHeldBack`, `ImplementsHandoff` |
| `eventloop_liveness` | `MCEventLoopLive.cfg` | 1 loop, 2 descriptors, backlog 2, no empty files | `AnswerBeforeWrite`, `PendingNoticed`, `AcceptedIsServed` |
| `connection` | `MCHttpConn.cfg` | 41 requests: up to 2 headers, 3 bodies, bad and broken lines, `stressTest.cc`'s request once and twice, two requests at once; read buffer of 13 symbols; files of 0, 1 and 2 blocks | of the parser `TypeOK`, `IndexesInOrder`, `AnswerIsRight`, `NothingOverlooked`, `TerminatorAtBody`, `ProcessReadReturns`; of the whole `WriterTypeOK`, `WholeAnswerSent`, `MappedWhileSending`, `MappingReturned`, `KeepsItsWord`, `AnswerGoesOut` |
| `connection_short_write` | `MCHttpConnShort.cfg` | a short request and the three clients that do not wait | violated: `AnswerSent` |
| `parser_body` | `MCHttpParserBody.cfg` | requests with a body of 2 symbols | violated: `BodyNotOverlooked` |

Why the bounds are enough for the interesting cases. In the pool, three workers
and two callers can sleep on both sides of a queue of two, so a notification
can find none, one or several sleepers, and be raced by a newcomer. In the
reactor, one slot for three connections makes the main thread block in
`append()` while both workers are busy. In the event loops two descriptors and
two loops suffice for a descriptor to be closed by one loop and accepted again
for either loop before it is erased. A backlog of 1 is enough for what
follows `accept()`; for the edges of the listening socket, where clients must be
able to connect together, it is 2. On a connection, 13 symbols are what the longest
requests, with two headers and a body, fill to the last byte, and leave room for a
part of a second request behind shorter ones; a file of two blocks with four lines of headers can
be cut within the headers, between headers and file, and within the file; any
number of requests follow each other, since nothing counts them. The only counters are the queues and the
backlog; the queues are bounded by the code or by the number of descriptors,
the backlog by `MaxBacklog` (the code's `listen(fd, 5)`).

Deadlock is checked for the parser and the connection only: the pool stops after `stop()`, and a server whose
`accept()` failed for want of descriptors while the backlog is full has no event
left until a client does something, as in the code.

### What the violated runs show

- **`stop()` does not return** (`threadPool.h:56-67`). The predicate of `take()`
  is `m_queue.size() > 0` whatever `m_running` is; a worker asleep in `take()`
  sleeps again after the `notify_all()`, and the join waits for ever.
- **A worker resets another connection's socket** (`threadPool/httpConn.cc:27-35`).
  With a file of size 0 `process_write()` falls through to `default: return
  false`, and `process()` closes the connection in a worker. Between `close()`
  and `sock_fd = -1` the main thread may accept a connection with the same
  descriptor, whose `sock_fd` is then lost.
- **A pending connection is not noticed** (`threadPool/main.cc:111-123`). The
  listening socket is edge-triggered, the loop accepts once per event. The other
  server accepts until `EAGAIN`; there `PendingNoticed` holds.

- **A body that arrives in pieces may not be recognised** (`threadPool/httpConn.cc:241-287`,
  the same in `eventLoop`). When `parse_content()` finds the body incomplete,
  `process_read()` goes on with `parse_line()`, which moves `checked_index` over
  the part that is there; from then on that part is asked for again. A body that
  begins with a CR or LF out of place leaves `checked_index` where it is, and
  bytes sent beyond the body make up for those counted twice: such bodies do get
  through.
- **A short write ends or repeats an answer** (`threadPool/httpConn.cc:337-362`, the same
  in `eventLoop`). `bytes_to_send` starts as the length of the headers, and the loop
  ends when half of that is out; until then every `writev()` starts again from the
  beginning. A file that is larger than the room in the socket's buffer is cut off,
  and with keep-alive the next answer follows in the middle of it. `WholeAnswerSent`
  says that this is the only way: without a short write the client receives the
  response to what it sent, also after any number of `EAGAIN`.

`SocketOfConn` and `Exclusive` are checked in `reactor_safety` without empty
files, since that fall-through is the only way to `close_conn()` in a worker.

In the loops the same fall-through makes `process()` use the object it has deleted.
Whatever that does, `eventloop_safety` shows that nobody is forgotten, the assertions
hold and no answer waits for EPOLLIN (`AnswerNotHeldBack`). What it can spoil is
`AnswerBeforeWrite`: an `httpConn` that another loop has made in the freed memory is
armed for EPOLLOUT with nothing to send, `write()` finds `write_index = 0` and calls
`init()`, and what has been read of its request is lost. `AnswerBeforeWrite` is
therefore checked (`eventloop_liveness`) and proved without empty files.

`read()` may fill the buffer: its loop ends where `recv()` of 0 bytes gives `EAGAIN`, and
`process_read()` sees `read_index = READ_BUFFER_SIZE`. The `'\0'` that `parse_content()`
puts behind the body (line 234) then goes to the byte behind `read_buf`, which is the
lowest of `read_index` and is 0 already when that is 2048, so nothing changes.
`TerminatorAtBody` says that it never goes any further, whatever `parse_line()`
has done to `checked_index`.

### Fairness

A thread that can take a step takes it eventually, `m_mutex` starves nobody and
`process()` returns: weak fairness of each thread's steps. `epoll_wait()` is fair
only where the event does not depend on a client: a reported edge on the
listening socket or a written eventfd. No client is ever obliged to connect, send
or close, and nobody to call `append()` or `stop()`. `AppendReturns` holds for
one calling thread, which is how the server uses the pool; with several,
newcomers may overtake a woken caller for ever, since a condition variable does
not queue its waiters. In `HttpParser` only the
thread in `process_read()` is fair. `HttpConn` adds the thread that prepares and
sends the answer, and a client that reads while it waits for its answer, so that the
socket has room for all of it at last (`ConnFairness`); `AnswerGoesOut` is about such
clients. A connection whose file could not be mapped needs no client: `writev()` fails.

## Proofs

`ThreadPoolProofs` proves, for any finite non-empty set of workers, any finite
set of callers and any positive capacity (`PoolAssumption`, the condition under
which `start()` does not throw, and the way the class is used):

- `TypeCorrect`: `Spec => []TypeOK`. `TypeOK` is inductive because it says that a
  caller that is about to lock or waits in `append()` has a task in its hands.
- `NoLostNotEmptyWakeup`: `Spec => []NotEmptyWakeups`. If a worker sleeps, the
  queue is no longer than the number of workers about to look at it. A push adds
  one task and, when anybody sleeps, one awake worker; a pop removes one of each;
  a worker falls asleep only when the queue is empty. Given types and `Created`
  (a worker is unborn exactly while `start()` has not created it, so creation
  wakes nobody twice) it is inductive. `NotifyNotEmptyCounts` and `MoreTakers`
  do the counting.
- `NoLostNotFullWakeup`: the mirror image for `m_not_full` and the free slots.
- `PoolImplementsTaskQueue`: every step maps to `Put`, `Take` or `Finish` of the
  bounded FIFO or to a stutter, under the mapping that shows the queue and the
  tasks in the workers' hands.

`HttpParserProofs` proves, for any set of requests, any positive Content-Length and
any size of the buffer (`ParserAssumption`):

- `ParserTypeCorrect`: `Spec => []TypeOK`, which includes that `read()` puts nothing behind
  the buffer, which it may fill to its last byte;
- `TerminatorIsAtBody`: the action property `TerminatorAtBody`. `parse_content()` runs
  with `start_line <= checked_index`, and its test of `checked_index` carries over to
  `start_line`;
- `ParserIndexesInOrder`: `start_line <= checked_index <= read_index` for every way to
  cut the requests into pieces. The two are inductive together: `LINE_OK` needs its
  LF to be received, every other exit leaves `checked_index` at or before
  `read_index`, and `start_line` only ever takes the value of `checked_index`.

`HttpAnswerProofs` proves that the answers are right, for any set of requests, of any
length and number of headers, that are what they are said to be (`RequestsAssumption`,
which TLC evaluates for the instances):

- `AnswersAreRight`: `Spec => []AnswerIsRight`. A good request is answered when it is
  complete and keeps the connection as it asked; a bad one, or one that is out of step
  with its connection, gets a 400 that closes it; a broken one gets no answer.
- `NothingIsOverlooked`: `Spec => []NothingOverlooked`.

The inductive invariant is `Understood`. `Received` relates `read_buf` and `coming` to the
request: from `start_line` on the buffer is the request, since `parse_line()` overwrites
only what is before; `AtLine` says that the line at `start_line` has no end before
`checked_index`, and that the CR LF before it is overwritten, so that the LF branch of
`parse_line()` cannot see the end of the previous line again. `UnderstoodGood` ties
`linger_` and `content_length` to the headers before `start_line`, and puts `start_line` in
front of the empty line; `UnderstoodBad` and `UnderstoodSpoilt` keep the parser at the
first line; `UnderstoodBroken` keeps it in front of what is out of place. `InStep` carries
the assumption about what a client sends without waiting: none of it begins like a request
and is none. Without that, the rest of a request that `init()` has cut could be taken for
one. The lemmas on requests (`EndOfHeaderLine`, `LinesUpTo`, `NoLineInFront`) say what
the next CR LF is the end of; no induction over the lines is needed, since the headers
are read off positions in the request.

`HttpConnProofs` proves, for any set of requests and of files and any sizes of the
buffers that leave room for the headers (`ParserAssumption`, `WriterAssumption`):

- `ConnImplementsParser`: `ConnSpec => Spec`. Every step of the connection is one of the
  parser or leaves its variables alone, so the two theorems above hold of it.
- `WriterTypeCorrect`, `FileStaysMapped`: `[]WriterTypeOK`, `[]MappedWhileSending`.
- `NoMappingKept`, `ServerKeepsItsWord`: the action properties `MappingReturned` and
  `KeepsItsWord`.
- `WholeAnswerIsResponse`: without a short write, what is out when the answer is taken
  for sent is the response of the parser's result and `linger_`.
- `ClientGetsItsAnswer`: `[]WholeAnswerSent`, what the client receives is the response to
  the request it sent: the former with `AnswerIsRight`, which holds of the connection by
  `ConnImplementsParser`.

All rest on `WriterInvariant`. Alone, none of them is inductive: that a kept connection
has no mapping needs that the writer passes through "sent", which only happens while the
parser is at "answer"; that it keeps its word needs what `Prepared` says of the lines in
`write_buf`, which `HeadersFit` derives from `add_response()`; and that the whole answer
went out needs that nothing had gone out before a `writev()` that is not short, since
`bytes_have_send` starts again from 0 in every call.

`ReactorProofs` proves, for any set of workers and of descriptors, any capacity of the
queue and any backlog (`ReactorAssumption`):

- `ReactorTypeCorrect`: `Spec => []TypeOK`, with and without files of size 0. It says that
  a worker holds a connection exactly while it is not in `take()`.
- `OneOwner`, `ReactorForgetsNobody`, `SocketIsKept`, `ReactorAnswersFirst`: `[]Exclusive`,
  `[]NobodyForgotten`, `[]SocketOfConn` and `[]AnswerBeforeWrite` where the document root
  holds no file of size 0. The hypothesis is needed: `reactor_empty_file` shows
  `SocketOfConn` violated with such a file. The four are inductive together with
  `WorkersAnswer` (`ReactorInvariant`): a worker's `modfd()` reaches its connection because
  `sock_fd` is its socket, which is so because it is open, which it is because it has an
  owner; and the worker waits for EPOLLOUT exactly if it has prepared an answer. One
  lemma per operation moves the connection from one owner to another (`EpollWaitKeeps`,
  `ReadKeeps`, `AppendKeeps`, `TakeKeeps`, `ProcessKeeps`, `RearmKeeps`, `WriteKeeps`) or
  gives or ends its life (`AcceptKeeps`, `CloseKeeps`).
- `ServerUsesPool`: `Spec => Pool!Spec`. Every step of the server is a step of `TaskQueue`
  or leaves the pool alone; that it may be is the shape of the model, that nothing else
  touches the pool is what the proof adds. With `PoolImplementsTaskQueue` it joins the two
  models at the interface.

`EventLoopProofs` proves, for any number of loops, any set of descriptors and any backlog,
with and without files of size 0 (`EventLoopAssumption`):

- `LoopTypeCorrect`: `Spec => []TypeOK`.
- `PendingIsNoticed`: `[]PendingNoticed`, inductive with the types alone: the main thread
  leaves its loop over `accept()` only with an empty backlog or without a descriptor.
- `HandoverIsNoticed`: `[]HandoverNoticed`. It is inductive given the types,
  because a loop drains its queue after it has read its eventfd and not the other way
  round.
- `ConnectionsInOnePlace`, `LoopForgetsNobody`, `LoopSendsAnswers`: `[]OnePlace`,
  `[]NobodyForgotten`, `[]AnswerNotHeldBack`, from `LoopInvariant`, which adds
  `ErasedByItsLoop` and `RightEvents`: a deleted object is in a map exactly while its loop is about to erase
  it. A descriptor may be accepted and queued again before that, for the same loop or
  another, and `OnePlace` has to say that such an entry is no place.
- `LoopAnswersFirst`: `[]AnswerBeforeWrite` where the document root holds no file of size
  0. The hypothesis is needed (see above); without such files no
  `process()` uses a deleted object (`NoStaleMod`).
- `LoopAssertionsHold`: `[]AssertionsHold` follows from `LoopInvariant` without a further
  induction.
- `LoopsImplementHandoff`: `Spec => ImplementsHandoff`. Under the refinement mapping a
  connection's abstract place is read off the main thread, the queues and the maps;
  `PlaceWellDefined` shows from `OnePlace` that there is one, and `StepImplementsHandoff`
  that each step moves at most one connection, or adopts a loop's whole queue.

Model-checked only: the liveness properties (`TaskServed`, `AppendReturns`,
`BusyWorkersExit`, `RequestsReturn`, `MainReturns`, `AcceptedIsServed`,
`ProcessReadReturns`, `AnswerGoesOut`), which are beyond the prover. They rest on
fairness. Nothing is proved of the reactor's owners where there are files of size 0; there
TLC finds them violated.

## Not modelled

- In `HttpParser`: texts, beyond what the parser tells apart; sizes count symbols;
  `do_request()` is a choice of the codes it may return; Content-Length is positive
  or absent, so what `atol()` makes of other texts is a hazard without a property.
- In `HttpWriter`: texts and byte counts; sizes count parts, and a file keeps its size
  between `stat()` and `munmap()`. `write()` with `write_index = 0` is in `ReactorServer` and
  `EventLoop`. The memory that `munmap()` of an uninitialised `file_address`
  (`eventLoop/httpConn.cc:300`) may unmap is not modelled, its address is ("stray").
- What the kernel does with bytes it has taken: the `SO_LINGER` of `{1, 0}` that accepted
  sockets inherit may discard the end of an answer at `close()`.
- The loop of `stressTest.cc` over many connections; its requests are clients of
  `HttpParser`.
- Set-up failures, signals, and the teardown of both servers: it is reached only
  when `epoll_wait()` fails with something else than `EINTR`. Two hazards there
  are recorded (`users` deleted before the pool stops; `~eventLoop()` joins a
  thread whose `running` is never cleared).
- Limits taken as not reached: `MAX_FD`, `epoll_maxevents`, an eventfd counter of
  2^64 - 2. The listening socket is assumed to raise no error event. `start()` is
  called once, by the thread that destroys the pool, and only that thread reads
  or writes `m_running` before the workers exist.
- The unsynchronised reads of `m_running` are modelled as atomic reads of its
  current value; the build (`g++ -g`, no optimisation) reads memory each time.
- In `EventLoop`, the use of the deleted `httpConn` at the end of `process()` is
  modelled by what its `mod()` may do to a registration: that of the old descriptor in
  the old epoll instance, that of an heir in the heir's, or none. That the read of
  `pEpoll`, or the call through it, crashes the server is left out.

## Plan

1. `TaskQueue`, `ThreadPool`, proofs of the pool - done.
2. `Epoll`, `ReactorServer` over the pool's abstraction - done.
3. `Handoff`, `EventLoop` and the refinement - done.
4. `HttpParser` and its proofs - done.
5. `HttpWriter`, `HttpConn`, which composes the parser and the writer, and its
   proofs - done.
6. `EventLoopProofs`, `ReactorProofs` and the lemmas they share - done.
7. `HttpAnswerProofs`: `AnswerIsRight` for every request, and `WholeAnswerSent` - done.
8. What is left for proof: what remains of the reactor's invariant in the presence of files
   of size 0, and a statement of when a body is recognised (that it is, if it comes with
   the end of the headers) where `BodyNotOverlooked` fails.
