---------------------------- MODULE ReactorServer ----------------------------
(***************************************************************************)
(* The half-sync/half-reactor server of src/threadPool: the main thread    *)
(* (main.cc) accepts, reads and writes; the workers of the pool parse and  *)
(* prepare answers (httpConn::process()).  A connection travels between    *)
(* them through the epoll interest list, one-shot, and the task queue.     *)
(*                                                                         *)
(* The pool is used through its abstract specification TaskQueue, which    *)
(* ThreadPool implements.  HTTP is abstracted to what decides who owns a   *)
(* connection next: whether process_read() found a whole request, whether  *)
(* the answer keeps the connection alive, whether write() could send it.   *)
(*                                                                         *)
(* Grain.  The main thread's handling of one event touches one connection  *)
(* and is one action, except that it may block in append().  A worker      *)
(* gives a connection up by its modfd() or its removefd(), so the steps of *)
(* process() are cut there.  close_conn() in a worker is cut between the   *)
(* close() that frees the descriptor and the assignment to sock_fd.        *)
(***************************************************************************)
EXTENDS Integers, Sequences, Epoll, Queues

CONSTANTS
  Workers,      \* the threads of the pool
  MaxRequests,  \* capacity of the task queue
  NoFd,         \* -1
  MaxBacklog,   \* connections pending on the listening socket at a time
  EmptyFiles    \* TRUE iff the document root holds files of size 0

ASSUME ReactorAssumption ==
  /\ NoFd \notin Fds
  /\ EmptyFiles \in BOOLEAN
  /\ MaxBacklog \in Nat \ {0}

VARIABLES
  backlog,      \* established connections not yet accepted
  listen_edge,  \* the edge-triggered listening socket has an event to report
  open,         \* the descriptors of the accepted connections
  interest,     \* the interest list of epollfd
  batch,        \* events[i..number-1], the connections' part
  batch_listen, \* listenfd is among them
  pending,      \* the connection main is appending to the pool, or NoFd
  queue, held,  \* the pool, as TaskQueue sees it
  wpc,          \* where each worker is in process()
  sock_fd,      \* users[fd].sock_fd
  answering     \* the fds with an answer in users[fd].write_buf: write_index > 0

main_vars == <<batch, batch_listen, pending>>
pool_vars == <<queue, held>>
listen_vars == <<backlog, listen_edge>>
conn_vars == <<open, interest, sock_fd, answering>>
vars == <<listen_vars, conn_vars, main_vars, pool_vars, wpc>>

Pool == INSTANCE TaskQueue WITH Tasks <- Fds

\* "idle": in take(); "process": in process(); "arm_in", "arm_out": before the
\* modfd() that ends process(); "remove": before the removefd() of
\* close_conn(); "reset": before its sock_fd = -1.
WorkerStates == {"idle", "process", "arm_in", "arm_out", "remove", "reset"}

TypeOK ==
  /\ backlog \in 0..MaxBacklog
  /\ listen_edge \in BOOLEAN
  /\ open \in SUBSET Fds
  /\ interest \in Interests
  /\ batch \in Batches
  /\ batch_listen \in BOOLEAN
  /\ pending \in Fds \union {NoFd}
  /\ queue \in Seq(Fds)
  /\ held \in [Workers -> {<<>>} \union {<<fd>> : fd \in Fds}]
  /\ wpc \in [Workers -> WorkerStates]
  /\ \A w \in Workers : held[w] = <<>> <=> wpc[w] = "idle"
  /\ sock_fd \in [Fds -> Fds \union {NoFd}]
  /\ answering \in SUBSET Fds

Init ==
  /\ backlog = 0
  /\ listen_edge = FALSE
  /\ open = {}
  /\ interest = NoInterest
  /\ batch = NoEvents
  /\ batch_listen = FALSE
  /\ pending = NoFd
  /\ Pool!Init
  /\ wpc = [w \in Workers |-> "idle"]
  /\ sock_fd = [fd \in Fds |-> NoFd]
  /\ answering = {}

-----------------------------------------------------------------------------
(* The clients and the kernel.                                             *)

\* A client's handshake ends: every arrival is an edge on the listening socket.
Connect ==
  /\ backlog < MaxBacklog
  /\ backlog' = backlog + 1
  /\ listen_edge' = TRUE
  /\ UNCHANGED <<conn_vars, main_vars, pool_vars, wpc>>

-----------------------------------------------------------------------------
(* The main thread.                                                        *)

AtEpollWait == batch = NoEvents /\ ~batch_listen /\ pending = NoFd

\* epoll_wait() returns some of the connections that have something to report
\* and the listening socket if it has; with nothing to report it blocks.
EpollWait ==
  /\ AtEpollWait
  /\ batch' \in Reports(interest)
  /\ batch' # NoEvents \/ listen_edge
  /\ batch_listen' = listen_edge
  /\ listen_edge' = FALSE
  /\ interest' = Disarm(interest, batch')
  /\ UNCHANGED <<backlog, open, pending, pool_vars, wpc, sock_fd, answering>>

\* The main thread is at the next event of the batch.
Dispatch(fd, event) ==
  /\ pending = NoFd
  /\ batch[fd] = event
  /\ batch' = [batch EXCEPT ![fd] = "none"]
  /\ UNCHANGED <<listen_vars, batch_listen>>

DispatchListen ==
  /\ pending = NoFd
  /\ batch_listen
  /\ batch_listen' = FALSE
  /\ UNCHANGED <<listen_edge, batch, pending, pool_vars, wpc>>

\* Mutant of Accept: init(sockfd) forgets sock_fd.
AcceptNoSocket(connfd) ==
  /\ DispatchListen
  /\ backlog > 0
  /\ connfd \notin open
  /\ backlog' = backlog - 1
  /\ open' = open \union {connfd}
  /\ interest' = Add(interest, connfd)
  /\ answering' = answering \ {connfd}
  /\ UNCHANGED sock_fd

\* accept() once, and users[connfd].init(connfd): sock_fd, addfd(), init().
Accept(connfd) ==
  /\ DispatchListen
  /\ backlog > 0
  /\ connfd \notin open
  /\ backlog' = backlog - 1
  /\ open' = open \union {connfd}
  /\ sock_fd' = [sock_fd EXCEPT ![connfd] = connfd]
  /\ interest' = Add(interest, connfd)
  /\ answering' = answering \ {connfd}

\* Mutant of AcceptFails: tries again at once.
AcceptFailsRetries ==
  /\ pending = NoFd /\ batch_listen
  /\ backlog = 0 \/ open = Fds
  /\ UNCHANGED vars

\* accept() fails: the process has no descriptor left, and the connection
\* stays where it is.
AcceptFails ==
  /\ DispatchListen
  /\ backlog = 0 \/ open = Fds
  /\ UNCHANGED <<backlog, conn_vars>>

\* Mutant of CloseConn: the socket is reset to 0, not to -1.
CloseConnZero(fd) ==
  /\ open' = open \ {sock_fd[fd]}
  /\ interest' = IF sock_fd[fd] = NoFd THEN interest ELSE Del(interest, sock_fd[fd])
  /\ sock_fd' = [sock_fd EXCEPT ![fd] = 0]

\* close_conn() of users[fd] in the main thread.
CloseConn(fd) ==
  /\ open' = open \ {sock_fd[fd]}
  /\ interest' = IF sock_fd[fd] = NoFd THEN interest ELSE Del(interest, sock_fd[fd])
  /\ sock_fd' = [sock_fd EXCEPT ![fd] = NoFd]

\* EPOLLRDHUP, EPOLLHUP or EPOLLERR.
HangUp(fd) ==
  /\ Dispatch(fd, "hup")
  /\ CloseConn(fd)
  /\ UNCHANGED <<pending, pool_vars, wpc, answering>>

\* read() got something: on to append().  It fails on a closed socket.
ReadSome(fd) ==
  /\ Dispatch(fd, "in")
  /\ sock_fd[fd] \in open
  /\ pending' = fd
  /\ UNCHANGED <<conn_vars, pool_vars, wpc>>

\* read() failed: closed by the peer, an error, or the read buffer is full.
ReadFails(fd) ==
  /\ Dispatch(fd, "in")
  /\ CloseConn(fd)
  /\ UNCHANGED <<pending, pool_vars, wpc, answering>>

\* pool->append(users + sockfd): blocks while the queue is full.
AppendTask ==
  /\ pending # NoFd
  /\ Pool!Put(pending)
  /\ pending' = NoFd
  /\ UNCHANGED <<listen_vars, conn_vars, batch, batch_listen, wpc>>

\* write() with write_index = 0.
WriteNothing(fd) ==
  /\ Dispatch(fd, "out")
  /\ fd \notin answering
  /\ interest' = Mod(interest, sock_fd[fd], "in")
  /\ UNCHANGED <<open, sock_fd, answering, pending, pool_vars, wpc>>

\* writev() would block: EAGAIN.
WriteBlocks(fd) ==
  /\ Dispatch(fd, "out")
  /\ fd \in answering /\ sock_fd[fd] \in open
  /\ interest' = Mod(interest, sock_fd[fd], "out")
  /\ UNCHANGED <<open, sock_fd, answering, pending, pool_vars, wpc>>

\* Mutant of WriteDone: modfd() to EPOLLIN without init().
WriteDoneNoInit(fd) ==
  /\ Dispatch(fd, "out")
  /\ fd \in answering /\ sock_fd[fd] \in open
  /\ interest' = Mod(interest, sock_fd[fd], "in")
  /\ UNCHANGED <<open, sock_fd, answering, pending, pool_vars, wpc>>

\* The answer is out and linger_ keeps the connection: init(), modfd().
WriteDone(fd) ==
  /\ Dispatch(fd, "out")
  /\ fd \in answering /\ sock_fd[fd] \in open
  /\ answering' = answering \ {fd}
  /\ interest' = Mod(interest, sock_fd[fd], "in")
  /\ UNCHANGED <<open, sock_fd, pending, pool_vars, wpc>>

\* write() failed, or the answer is out and the connection is not kept: the
\* modfd() of write() is undone by the removefd() of close_conn().
WriteCloses(fd) ==
  /\ Dispatch(fd, "out")
  /\ fd \in answering
  /\ CloseConn(fd)
  /\ UNCHANGED <<pending, pool_vars, wpc, answering>>

-----------------------------------------------------------------------------
(* The workers: run() and httpConn::process().                             *)

WorkerStep(w, from, to) ==
  /\ wpc[w] = from
  /\ wpc' = [wpc EXCEPT ![w] = to]
  /\ UNCHANGED <<listen_vars, main_vars>>

TakeTask(w) ==
  /\ WorkerStep(w, "idle", "process")
  /\ Pool!Take(w)
  /\ UNCHANGED conn_vars

Conn(w) == held[w][1]

\* Mutant of NoRequest: process() returns without its modfd().
NoRequestForgets(w) ==
  /\ WorkerStep(w, "process", "idle")
  /\ Pool!Finish(w)
  /\ UNCHANGED conn_vars

\* process_read() wants more input.
NoRequest(w) ==
  /\ WorkerStep(w, "process", "arm_in")
  /\ UNCHANGED <<conn_vars, pool_vars>>

\* process_write() prepares an answer.
Respond(w) ==
  /\ WorkerStep(w, "process", "arm_out")
  /\ answering' = answering \union {Conn(w)}
  /\ UNCHANGED <<open, interest, sock_fd, pool_vars>>

\* process_write() returns false: the 200 of an empty file falls through to
\* the default of the switch.
RespondFails(w) ==
  /\ WorkerStep(w, "process", "remove")
  /\ EmptyFiles
  /\ answering' = answering \union {Conn(w)}
  /\ UNCHANGED <<open, interest, sock_fd, pool_vars>>

\* close_conn(): removefd(epoll_fd, sock_fd).
RemoveFd(w) ==
  /\ WorkerStep(w, "remove", "reset")
  /\ sock_fd[Conn(w)] # NoFd
  /\ open' = open \ {sock_fd[Conn(w)]}
  /\ interest' = Del(interest, sock_fd[Conn(w)])
  /\ UNCHANGED <<sock_fd, answering, pool_vars>>

\* close_conn(): the connection is closed already.
RemoveNothing(w) ==
  /\ WorkerStep(w, "remove", "arm_out")
  /\ sock_fd[Conn(w)] = NoFd
  /\ UNCHANGED <<conn_vars, pool_vars>>

\* close_conn(): sock_fd = -1; process() goes on to its last modfd().
ResetSocket(w) ==
  /\ WorkerStep(w, "reset", "arm_out")
  /\ sock_fd' = [sock_fd EXCEPT ![Conn(w)] = NoFd]
  /\ UNCHANGED <<open, interest, answering, pool_vars>>

\* modfd(epoll_fd, sock_fd, ev), the last thing process() does.
Rearm(w) ==
  /\ \/ WorkerStep(w, "arm_in", "idle") /\ interest' = Mod(interest, sock_fd[Conn(w)], "in")
     \/ WorkerStep(w, "arm_out", "idle") /\ interest' = Mod(interest, sock_fd[Conn(w)], "out")
  /\ Pool!Finish(w)
  /\ UNCHANGED <<open, sock_fd, answering>>

-----------------------------------------------------------------------------

MainHandles ==
  \/ AcceptFails \/ AppendTask
  \/ \E fd \in Fds :
       \/ Accept(fd) \/ HangUp(fd) \/ ReadSome(fd) \/ ReadFails(fd)
       \/ WriteNothing(fd) \/ WriteBlocks(fd) \/ WriteDone(fd) \/ WriteCloses(fd)

Worker(w) ==
  \/ TakeTask(w) \/ NoRequest(w) \/ Respond(w) \/ RespondFails(w)
  \/ RemoveFd(w) \/ RemoveNothing(w) \/ ResetSocket(w) \/ Rearm(w)

Next ==
  \/ Connect
  \/ EpollWait
  \/ MainHandles
  \/ \E w \in Workers : Worker(w)

Spec == Init /\ [][Next]_vars

\* Threads that can run do run.  No client is obliged to connect, to send or
\* to hang up: only the listening socket makes epoll_wait() return for sure.
Fairness ==
  /\ WF_vars(MainHandles)
  /\ WF_vars(listen_edge /\ EpollWait)
  /\ \A w \in Workers : WF_vars(Worker(w))

FairSpec == Spec /\ Fairness

-----------------------------------------------------------------------------
(* Properties.                                                             *)

InQueue(fd) == InSeq(queue, fd)

HeldBy(w, fd) == held[w] = <<fd>>

\* The one-shot protocol: a connection is armed in the kernel, or in the batch
\* of the main thread, or about to be appended, or once in the task queue, or
\* with one worker, and never in two of these places.  It is why httpConn has
\* no lock although two threads use it.
Exclusive ==
  \A fd \in Fds :
    /\ Armed(interest, fd) =>
         batch[fd] = "none" /\ pending # fd /\ ~InQueue(fd) /\ \A w \in Workers : ~HeldBy(w, fd)
    /\ batch[fd] # "none" =>
         pending # fd /\ ~InQueue(fd) /\ \A w \in Workers : ~HeldBy(w, fd)
    /\ pending = fd => ~InQueue(fd) /\ \A w \in Workers : ~HeldBy(w, fd)
    /\ InQueue(fd) => \A w \in Workers : ~HeldBy(w, fd)
    /\ Once(queue, fd)
    /\ \A v, w \in Workers : HeldBy(v, fd) /\ HeldBy(w, fd) => v = w

\* No connection is forgotten: an accepted descriptor is registered and
\* somebody is responsible for it, the kernel, the main thread, the queue or
\* a worker; and nobody is for a descriptor that is closed.
NobodyForgotten ==
  \A fd \in Fds :
    /\ fd \in open <=> interest[fd] # "none"
    /\ fd \in open <=>
         \/ Armed(interest, fd) \/ batch[fd] # "none" \/ pending = fd
         \/ InQueue(fd) \/ \E w \in Workers : HeldBy(w, fd)

\* users[fd].sock_fd is "the socket of this HTTP connection" (httpConn.h:84)
\* as long as the connection is open.
SocketOfConn == \A fd \in open : sock_fd[fd] = fd

\* A connection waits for EPOLLOUT, or for its turn to write(), exactly when
\* it has an answer to send: read() never overwrites a request that is being
\* answered, and write() never finds write_index = 0.
AnswerBeforeWrite ==
  \A fd \in Fds :
    /\ interest[fd] = "out" \/ batch[fd] = "out" => fd \in answering
    /\ interest[fd] = "in" \/ batch[fd] = "in" \/ pending = fd \/ InQueue(fd)
         => fd \notin answering

\* A connection that was handed to the pool comes back to the kernel.
RequestsReturn ==
  \A fd \in Fds :
    (pending = fd \/ InQueue(fd)) ~> (Armed(interest, fd) \/ fd \notin open)

\* The main thread always comes back to epoll_wait(): it works through every
\* batch, however full the task queue is when it appends.
MainReturns == ~AtEpollWait ~> AtEpollWait

\* A client that waits to be accepted will be noticed: as long as connections
\* are pending there is an event for them, reported or about to be.
PendingNoticed == backlog > 0 => listen_edge \/ batch_listen

=============================================================================
