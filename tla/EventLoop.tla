------------------------------ MODULE EventLoop ------------------------------
(***************************************************************************)
(* The server of src/eventLoop: the main thread (main.cc) accepts and      *)
(* deals the connections round-robin to the event loops; each loop         *)
(* (eventLoop.cc) is a thread with an epoll instance of its own that       *)
(* adopts, reads, answers and closes its connections.  A connection is     *)
(* handed over through fd_con_queue, guarded by mx, and an eventfd that    *)
(* wakes the loop.                                                         *)
(*                                                                         *)
(* Grain.  push_new_con() and the drain of the queue are critical sections *)
(* of mx; accept(), the read() and the write() of the eventfd are system   *)
(* calls: one action each.  The rest of a loop's handling of one event     *)
(* touches its own connections and epoll instance and goes with it in one  *)
(* action, cut where close_con() has closed the descriptor (which the main *)
(* thread may then accept again) and not yet erased it from the map, while *)
(* another loop may make a connection in the memory of the deleted one.    *)
(***************************************************************************)
EXTENDS Integers, Sequences, Epoll, Queues

CONSTANTS
  NLoops,       \* vec_loops.size()
  NoFd,
  MaxBacklog,   \* connections pending on the listening socket at a time
  EmptyFiles    \* TRUE iff the document root holds files of size 0

ASSUME EventLoopAssumption ==
  /\ NLoops \in Nat \ {0}
  /\ NoFd \notin Fds
  /\ MaxBacklog \in Nat \ {0}
  /\ EmptyFiles \in BOOLEAN

Loops == 0..(NLoops - 1)

VARIABLES
  backlog,        \* established connections not yet accepted
  listen_edge,    \* the edge-triggered listening socket has an event to report
  starved,        \* the last accept loop ended with EMFILE, not with EAGAIN
  open,           \* the descriptors of the accepted connections
  mpc,            \* where the main thread is
  connfd,         \* its local variables connfd and index
  last_thread_id,
  fd_con_queue,   \* per loop: the descriptors handed over
  efd_edge,       \* per loop: the eventfd has been written and has that to report
  lpc,            \* per loop: where the thread is in loop()
  batch,          \* per loop: what epoll_wait() returned, the connections' part
  batch_efd,      \* per loop: the event of the eventfd is among it
  current,        \* per loop: the connection being closed
  heirs,          \* per loop: the httpConns made since it deleted the object that
                  \* process() still uses
  map_fd_http,    \* per loop: "none", a "live" object or a "deleted" one
  interest,       \* per loop: the interest list of its epoll instance
  answering       \* the connections whose write_buf holds an answer

listen_vars == <<backlog, listen_edge, starved>>
main_vars == <<mpc, connfd, last_thread_id>>
loop_vars == <<lpc, batch, batch_efd, current, heirs>>
conn_vars == <<map_fd_http, interest, answering>>
vars == <<listen_vars, open, main_vars, fd_con_queue, efd_edge, loop_vars, conn_vars>>

\* "wait": in epoll_wait(); "accept": in the loop around accept(); "push": has
\* a connection; "notify": before the write() to the eventfd.
MainStates == {"wait", "accept", "push", "notify"}

\* "dispatch": at the next event; "drain": has read the eventfd, before the
\* lock; "erase": has deleted current, before erase(it); "erase_mod": the same
\* in a close_con() called by process(), which goes on to its last mod().
LoopStates == {"dispatch", "drain", "erase", "erase_mod"}

Objects == {"none", "live", "deleted"}

TypeOK ==
  /\ backlog \in 0..MaxBacklog
  /\ listen_edge \in BOOLEAN /\ starved \in BOOLEAN
  /\ open \in SUBSET Fds
  /\ mpc \in MainStates
  /\ connfd \in Fds \union {NoFd}
  /\ connfd # NoFd <=> mpc = "push"
  /\ last_thread_id \in {-1} \union Loops
  /\ mpc = "notify" => last_thread_id \in Loops
  /\ fd_con_queue \in [Loops -> Seq(Fds)]
  /\ efd_edge \in [Loops -> BOOLEAN]
  /\ lpc \in [Loops -> LoopStates]
  /\ batch \in [Loops -> Batches] /\ batch_efd \in [Loops -> BOOLEAN]
  /\ current \in [Loops -> Fds \union {NoFd}]
  /\ \A l \in Loops : current[l] # NoFd <=> lpc[l] \in {"erase", "erase_mod"}
  /\ heirs \in [Loops -> SUBSET (Loops \X Fds)]
  /\ map_fd_http \in [Loops -> [Fds -> Objects]]
  /\ interest \in [Loops -> Interests]
  /\ answering \in SUBSET Fds

Init ==
  /\ backlog = 0
  /\ listen_edge = FALSE
  /\ starved = FALSE
  /\ open = {}
  /\ mpc = "wait"
  /\ connfd = NoFd
  /\ last_thread_id = -1
  /\ fd_con_queue = [l \in Loops |-> <<>>]
  /\ efd_edge = [l \in Loops |-> FALSE]
  /\ lpc = [l \in Loops |-> "dispatch"]
  /\ batch = [l \in Loops |-> NoEvents]
  /\ batch_efd = [l \in Loops |-> FALSE]
  /\ current = [l \in Loops |-> NoFd]
  /\ heirs = [l \in Loops |-> {}]
  /\ map_fd_http = [l \in Loops |-> [fd \in Fds |-> "none"]]
  /\ interest = [l \in Loops |-> NoInterest]
  /\ answering = {}

-----------------------------------------------------------------------------
(* The clients.                                                            *)

Connect ==
  /\ backlog < MaxBacklog
  /\ backlog' = backlog + 1
  /\ listen_edge' = TRUE
  /\ UNCHANGED <<starved, open, main_vars, fd_con_queue, efd_edge, loop_vars, conn_vars>>

-----------------------------------------------------------------------------
(* The main thread.                                                        *)

MainEpollWait ==
  /\ mpc = "wait"
  /\ listen_edge
  /\ listen_edge' = FALSE
  /\ starved' = FALSE
  /\ mpc' = "accept"
  /\ UNCHANGED <<backlog, open, connfd, last_thread_id, fd_con_queue,
                 efd_edge, loop_vars, conn_vars>>

\* accept() succeeds.
Accept(fd) ==
  /\ mpc = "accept"
  /\ backlog > 0
  /\ fd \notin open
  /\ backlog' = backlog - 1
  /\ open' = open \union {fd}
  /\ connfd' = fd
  /\ mpc' = "push"
  /\ UNCHANGED <<listen_edge, starved, last_thread_id, fd_con_queue, efd_edge,
                 loop_vars, conn_vars>>

\* accept() fails, with EAGAIN once all connections are accepted or with EMFILE
\* for want of descriptors: back to epoll_wait() in both cases.
AcceptFails ==
  /\ mpc = "accept"
  /\ backlog = 0 \/ open = Fds
  /\ starved' = (backlog > 0)
  /\ mpc' = "wait"
  /\ UNCHANGED <<backlog, listen_edge, open, connfd, last_thread_id, fd_con_queue,
                 efd_edge, loop_vars, conn_vars>>

\* Mutant of disPatch_con_new: the index does not wrap around.
DispatchNoWrap == last_thread_id + 1

\* disPatch_con_new(): round-robin.
disPatch_con_new == (last_thread_id + 1) % NLoops

Push(index) ==
  /\ mpc = "push"
  /\ last_thread_id' = index
  /\ fd_con_queue' = [fd_con_queue EXCEPT ![index] = Append(@, connfd)]
  /\ connfd' = NoFd
  /\ mpc' = "notify"
  /\ UNCHANGED <<listen_vars, efd_edge, loop_vars, conn_vars>>

\* Mutant of PushNewCon: the main thread closes its copy of the descriptor.
PushThenClose == Push(disPatch_con_new) /\ open' = open \ {connfd}

PushNewCon == Push(disPatch_con_new) /\ UNCHANGED open

WriteEventFd(index, next) ==
  /\ mpc = "notify"
  /\ efd_edge' = [efd_edge EXCEPT ![index] = TRUE]
  /\ mpc' = next
  /\ UNCHANGED <<listen_vars, open, connfd, last_thread_id, fd_con_queue,
                 loop_vars, conn_vars>>

\* Mutants of Notify: disPatch_con_new() once more to know whom to notify; one
\* accept() per event.
NotifyNextLoop == WriteEventFd(disPatch_con_new, "accept")
NotifyThenWait == WriteEventFd(last_thread_id, "wait")

\* write() to the eventfd of vec_loops[index], and the next accept().  The
\* counter would have to reach 2^64 - 1 for EAGAIN.
Notify == WriteEventFd(last_thread_id, "accept")

-----------------------------------------------------------------------------
(* An event loop.                                                          *)

\* The loop moves on without a look at the main thread's variables.
LoopOnly == UNCHANGED <<listen_vars, main_vars>>

AtEpollWait(l) == lpc[l] = "dispatch" /\ batch[l] = NoEvents /\ ~batch_efd[l]

EpollWait(l) ==
  /\ AtEpollWait(l)
  /\ \E reported \in Reports(interest[l]) :
       /\ reported # NoEvents \/ efd_edge[l]
       /\ batch' = [batch EXCEPT ![l] = reported]
       /\ interest' = [interest EXCEPT ![l] = Disarm(@, reported)]
  /\ batch_efd' = [batch_efd EXCEPT ![l] = efd_edge[l]]
  /\ efd_edge' = [efd_edge EXCEPT ![l] = FALSE]
  /\ LoopOnly
  /\ UNCHANGED <<open, fd_con_queue, lpc, current, heirs, map_fd_http, answering>>

\* read(event_fd, ...), before the lock is taken, sets the counter to 0: an
\* eventfd written meanwhile has nothing to report any more.
ReadEventFd(l) ==
  /\ lpc[l] = "dispatch"
  /\ batch_efd[l]
  /\ batch_efd' = [batch_efd EXCEPT ![l] = FALSE]
  /\ efd_edge' = [efd_edge EXCEPT ![l] = FALSE]
  /\ lpc' = [lpc EXCEPT ![l] = "drain"]
  /\ LoopOnly
  /\ UNCHANGED <<open, fd_con_queue, batch, current, heirs, conn_vars>>

\* new httpConn for each of fds.  Any of these objects may get the memory of one
\* that another loop has deleted and process() there is still to use.
MakeHeirs(l, fds) ==
  heirs' = [k \in Loops |->
              IF lpc[k] = "erase_mod" THEN heirs[k] \union ({l} \X fds) ELSE heirs[k]]

\* Mutant of DrainAndAdopt: if(!empty()) for while(!empty()).
DrainOne(l) ==
  /\ lpc[l] = "drain"
  /\ IF fd_con_queue[l] = <<>> THEN UNCHANGED <<fd_con_queue, heirs, conn_vars>>
     ELSE LET fd == Head(fd_con_queue[l]) IN
            /\ map_fd_http' = [map_fd_http EXCEPT ![l][fd] = "live"]
            /\ interest' = [interest EXCEPT ![l] = Add(Add(@, fd), fd)]
            /\ answering' = answering \ {fd}
            /\ MakeHeirs(l, {fd})
            /\ fd_con_queue' = [fd_con_queue EXCEPT ![l] = Tail(@)]
  /\ lpc' = [lpc EXCEPT ![l] = "dispatch"]
  /\ LoopOnly
  /\ UNCHANGED <<open, efd_edge, batch, batch_efd, current>>

\* The critical section takes the whole queue; then, for each descriptor, new
\* httpConn, whose constructor adds it to the epoll instance, and a second
\* add() that fails.
DrainAndAdopt(l) ==
  /\ lpc[l] = "drain"
  /\ LET Taken(fd) == InSeq(fd_con_queue[l], fd) IN
       /\ map_fd_http' =
            [map_fd_http EXCEPT ![l] = [fd \in Fds |-> IF Taken(fd) THEN "live" ELSE @[fd]]]
       /\ interest' =
            [interest EXCEPT ![l] = [fd \in Fds |-> IF Taken(fd) THEN Add(Add(@, fd), fd)[fd] ELSE @[fd]]]
       /\ answering' = {fd \in answering : ~Taken(fd)}
       /\ MakeHeirs(l, {fd \in Fds : Taken(fd)})
  /\ fd_con_queue' = [fd_con_queue EXCEPT ![l] = <<>>]
  /\ lpc' = [lpc EXCEPT ![l] = "dispatch"]
  /\ LoopOnly
  /\ UNCHANGED <<open, efd_edge, batch, batch_efd, current>>

\* The loop is at the next event of the batch, of connection fd.
Dispatch(l, fd, event) ==
  /\ lpc[l] = "dispatch"
  /\ batch[l][fd] = event
  /\ batch' = [batch EXCEPT ![l][fd] = "none"]
  /\ LoopOnly
  /\ UNCHANGED <<fd_con_queue, efd_edge, batch_efd, heirs>>

Rearm(l, fd, ev) ==
  /\ interest' = [interest EXCEPT ![l] = Mod(@, fd, ev)]
  /\ UNCHANGED <<open, lpc, current, map_fd_http>>

\* Mutant of CloseCon: ~httpConn() does not close the descriptor.
CloseConLeaks(l, fd, next) ==
  /\ map_fd_http' = [map_fd_http EXCEPT ![l][fd] = "deleted"]
  /\ answering' = answering \ {fd}
  /\ current' = [current EXCEPT ![l] = fd]
  /\ lpc' = [lpc EXCEPT ![l] = next]
  /\ UNCHANGED <<open, interest>>

\* close_con() up to the end of delete: ~httpConn() closes the descriptor, and
\* the buffers are gone with the object.
CloseCon(l, fd, next) ==
  /\ open' = open \ {fd}
  /\ interest' = [interest EXCEPT ![l] = Del(@, fd)]
  /\ map_fd_http' = [map_fd_http EXCEPT ![l][fd] = "deleted"]
  /\ answering' = answering \ {fd}
  /\ current' = [current EXCEPT ![l] = fd]
  /\ lpc' = [lpc EXCEPT ![l] = next]

\* read() and process(), which wants more input or has an answer to send.
HandleRead(l, fd) ==
  /\ Dispatch(l, fd, "in")
  /\ \/ Rearm(l, fd, "in") /\ UNCHANGED answering
     \/ Rearm(l, fd, "out") /\ answering' = answering \union {fd}

\* read() and process(), where process_write() fails: the 200 of an empty file
\* falls through to the default of the switch.
HandleReadEmptyFile(l, fd) ==
  /\ EmptyFiles
  /\ Dispatch(l, fd, "in")
  /\ CloseCon(l, fd, "erase_mod")

\* writev() would block.
WriteBlocks(l, fd) == fd \in answering /\ Rearm(l, fd, "out") /\ UNCHANGED answering

\* Mutants of HandleWrite: after the answer no mod(), or one for EPOLLOUT, or no
\* init().
HandleWriteNoMod(l, fd) ==
  /\ Dispatch(l, fd, "out")
  /\ \/ WriteBlocks(l, fd)
     \/ answering' = answering \ {fd} /\ UNCHANGED <<open, lpc, current, map_fd_http, interest>>
HandleWriteOutAgain(l, fd) ==
  /\ Dispatch(l, fd, "out")
  /\ \/ WriteBlocks(l, fd)
     \/ Rearm(l, fd, "out") /\ answering' = answering \ {fd}
HandleWriteNoInit(l, fd) ==
  /\ Dispatch(l, fd, "out")
  /\ \/ WriteBlocks(l, fd)
     \/ Rearm(l, fd, "in") /\ UNCHANGED answering

\* write(): writev() would block, or the answer is out and the connection is
\* kept alive (or there was no answer, write_index = 0, with the same effect).
HandleWrite(l, fd) ==
  /\ Dispatch(l, fd, "out")
  /\ \/ WriteBlocks(l, fd)
     \/ Rearm(l, fd, "in") /\ answering' = answering \ {fd}

\* read() or write() returns false, or the event is an error or a hang-up.
HandleClose(l, fd) ==
  /\ \E event \in Events \ {"none"} : Dispatch(l, fd, event)
  /\ CloseCon(l, fd, "erase")

\* The last line of process() reads pEpoll and sock_fd of the object it has
\* deleted.  Where the freed memory has kept them this is a mod() of the
\* descriptor; where it holds the httpConn another loop has made since, one of
\* that connection in the epoll instance of that loop; where free() or something
\* else has overwritten them, one of no epoll instance, and nothing happens.
StaleMod(l) ==
  \/ UNCHANGED interest
  \/ \E k \in Loops, fd \in Fds :
       /\ <<k, fd>> = <<l, current[l]>> \/ <<k, fd>> \in heirs[l]
       /\ interest' = [interest EXCEPT ![k] = Mod(@, fd, "out")]

EraseTo(l, object) ==
  /\ \/ lpc[l] = "erase" /\ UNCHANGED interest
     \/ lpc[l] = "erase_mod" /\ StaleMod(l)
  /\ map_fd_http' = [map_fd_http EXCEPT ![l][current[l]] = object]
  /\ lpc' = [lpc EXCEPT ![l] = "dispatch"]
  /\ current' = [current EXCEPT ![l] = NoFd]
  /\ heirs' = [heirs EXCEPT ![l] = {}]
  /\ LoopOnly
  /\ UNCHANGED <<open, fd_con_queue, efd_edge, batch, batch_efd, answering>>

\* Mutant of Erase: the entry of the deleted object stays in the map.
EraseNothing(l) == EraseTo(l, "deleted")

\* close_con(): map_fd_http.erase(it), and the end of process() if it is the
\* caller.
Erase(l) == EraseTo(l, "none")

-----------------------------------------------------------------------------

Main ==
  MainEpollWait \/ AcceptFails \/ PushNewCon \/ Notify \/ \E fd \in Fds : Accept(fd)

\* What loop l does by itself, without waiting for a client.
LoopRuns(l) ==
  \/ ReadEventFd(l) \/ DrainAndAdopt(l) \/ Erase(l)
  \/ \E fd \in Fds :
       \/ HandleRead(l, fd) \/ HandleReadEmptyFile(l, fd)
       \/ HandleWrite(l, fd) \/ HandleClose(l, fd)

Next ==
  \/ Connect
  \/ Main
  \/ \E l \in Loops : EpollWait(l) \/ LoopRuns(l)

Spec == Init /\ [][Next]_vars

\* Threads that can run do run; epoll_wait() returns for sure when the eventfd
\* has an event.  No client is obliged to connect, to send or to hang up.
Fairness ==
  /\ WF_vars(Main)
  /\ \A l \in Loops : WF_vars(LoopRuns(l)) /\ WF_vars(efd_edge[l] /\ EpollWait(l))

FairSpec == Spec /\ Fairness

-----------------------------------------------------------------------------
(* Properties.                                                             *)

\* No handover is lost: a loop whose queue is not empty has an eventfd event
\* coming (the eventfd is written after the push, the counter is read before
\* the drain), or is about to drain, or the main thread is about to notify it.
HandoverNoticed ==
  \A l \in Loops :
    fd_con_queue[l] # <<>> =>
      \/ mpc = "notify" /\ last_thread_id = l
      \/ efd_edge[l] \/ batch_efd[l]
      \/ lpc[l] = "drain"

Waiting(l, fd) == InSeq(fd_con_queue[l], fd)
Serves(l, fd) == map_fd_http[l][fd] = "live"

\* Every accepted descriptor is in one place: with the main thread, once in
\* the queue of one loop, or served by one loop; a closed one is nowhere.  The
\* loops need no lock on their maps because of it.
OnePlace ==
  \A fd \in Fds :
    /\ fd \in open <=> connfd = fd \/ \E l \in Loops : Waiting(l, fd) \/ Serves(l, fd)
    /\ connfd = fd => \A l \in Loops : ~Waiting(l, fd) /\ ~Serves(l, fd)
    /\ \A l \in Loops :
         /\ Waiting(l, fd) => ~Serves(l, fd)
         /\ Once(fd_con_queue[l], fd)
    /\ \A k, l \in Loops :
         (Waiting(k, fd) \/ Serves(k, fd)) /\ (Waiting(l, fd) \/ Serves(l, fd)) => k = l

\* A connection that is served can still make itself heard: it is armed in the
\* epoll instance of its loop or in the loop's batch, and no other descriptor
\* is in that instance.
NobodyForgotten ==
  \A l \in Loops, fd \in Fds :
    /\ Serves(l, fd) <=> interest[l][fd] # "none"
    /\ Serves(l, fd) <=> Armed(interest[l], fd) \/ batch[l][fd] # "none"

\* The assertions of loop(), eventLoop.cc:56, 64 and 76: a descriptor that is
\* adopted is not in the map although the main thread reuses descriptors
\* before close_con() erases them, and one that reports an event is.
AssertionsHold ==
  \A l \in Loops :
    /\ lpc[l] = "drain" => \A fd \in Fds : Waiting(l, fd) => map_fd_http[l][fd] = "none"
    /\ \A fd \in Fds : batch[l][fd] \in {"in", "out"} => map_fd_http[l][fd] # "none"

\* A connection that has an answer to send does not wait for a request: neither
\* the client nor the loop would do anything.
AnswerNotHeldBack ==
  \A l \in Loops, fd \in Fds :
    interest[l][fd] = "in" \/ batch[l][fd] = "in" => fd \notin answering

\* A connection that waits for EPOLLOUT has an answer to send: write() without one
\* calls init(), which drops the part of a request that has been read.
\* It fails where EmptyFiles: the last mod() of process() arms an heir.
AnswerBeforeWrite ==
  \A l \in Loops, fd \in Fds :
    interest[l][fd] = "out" \/ batch[l][fd] = "out" => fd \in answering

\* A client that waits to be accepted will be noticed: "a notification on the
\* listening socket means one or more incoming connections" (main.cc:149), and
\* the main thread accepts them all, unless it ran out of descriptors.
PendingNoticed == backlog > 0 => listen_edge \/ mpc # "wait" \/ starved

\* Every accepted connection is adopted by a loop.
AcceptedIsServed ==
  \A fd \in Fds : connfd = fd ~> \E l \in Loops : Serves(l, fd)

\* Queues, eventfds and epoll instances are invisible: a connection goes from
\* the main thread to one loop, which alone serves and closes it.
Place ==
  [fd \in Fds |->
     IF fd \notin open THEN <<"free">>
     ELSE IF connfd = fd THEN <<"accepted">>
     ELSE IF \E l \in Loops : Serves(l, fd)
     THEN <<"served", CHOOSE l \in Loops : Serves(l, fd)>>
     ELSE <<"queued", CHOOSE l \in Loops : Waiting(l, fd)>>]

Abstract == INSTANCE Handoff WITH place <- Place

ImplementsHandoff == Abstract!Spec

=============================================================================
