---------------------------- MODULE ReactorProofs ----------------------------
(***************************************************************************)
(* Theorems about ReactorServer for every set of workers and descriptors,  *)
(* every capacity of the task queue and every length of the backlog.       *)
(***************************************************************************)
EXTENDS ReactorServer, ServerLemmas

-----------------------------------------------------------------------------
(* Type correctness.                                                       *)

\* What a worker may hold.
Hands == {<<>>} \union {<<fd>> : fd \in Fds}

LEMMA HandTypes ==
  /\ <<>> \in Hands
  /\ \A fd \in Fds : <<fd>> \in Hands /\ <<fd>> # <<>> /\ <<fd>>[1] = fd
  /\ \A h \in Hands : h # <<>> => h[1] \in Fds /\ h = <<h[1]>>
  /\ \A x, y : <<x>> = <<y>> => x = y
BY DEF Hands

\* close_conn() and modfd() leave a list of descriptors, and a list of
\* registrations, whatever sock_fd is.
LEMMA ClosesTypes ==
  ASSUME TypeOK, NEW fd \in Fds
  PROVE  /\ CloseConn(fd) => /\ open' \in SUBSET Fds /\ interest' \in Interests
                             /\ sock_fd' \in [Fds -> Fds \union {NoFd}]
         /\ \A ev \in Registrations : Mod(interest, sock_fd[fd], ev) \in Interests
<1>1. sock_fd[fd] \in Fds \union {NoFd} /\ interest \in Interests
  BY DEF TypeOK
<1>2. sock_fd[fd] # NoFd => Del(interest, sock_fd[fd]) \in Interests
  BY <1>1, InterestOperators
<1>3. \A ev \in Registrations : Mod(interest, sock_fd[fd], ev) \in Interests
  BY <1>1, InterestOperators, ReactorAssumption DEF Mod
<1>4. QED
  BY <1>1, <1>2, <1>3 DEF CloseConn, TypeOK

\* A worker's state after a step, and that the main thread's is as before.
LEMMA WorkerStepTypes ==
  ASSUME TypeOK, NEW w \in Workers, NEW from \in WorkerStates, NEW to \in WorkerStates,
         WorkerStep(w, from, to)
  PROVE  /\ wpc' \in [Workers -> WorkerStates]
         /\ wpc[w] = from /\ wpc'[w] = to /\ \A v \in Workers \ {w} : wpc'[v] = wpc[v]
         /\ UNCHANGED <<backlog, listen_edge, batch, batch_listen, pending>>
BY DEF WorkerStep, TypeOK, listen_vars, main_vars

\* The variables keep their types, with and without files of size 0, and a worker
\* is in take() exactly while it holds no connection.
THEOREM ReactorTypeCorrect == Spec => []TypeOK
<1>1. Init => TypeOK
  <2> SUFFICES ASSUME Init
               PROVE  TypeOK
    OBVIOUS
  <2>1. batch \in Batches /\ interest \in Interests
    BY DEF Init, Batches, Events, NoEvents, Interests, Registrations, NoInterest
  <2>2. /\ queue \in Seq(Fds) /\ held \in [Workers -> {<<>>} \union {<<fd>> : fd \in Fds}]
        /\ \A w \in Workers : held[w] = <<>>
    BY DEF Init, Pool!Init
  <2>3. wpc \in [Workers -> WorkerStates] /\ \A w \in Workers : wpc[w] = "idle"
    BY DEF Init, WorkerStates
  <2>4. sock_fd \in [Fds -> Fds \union {NoFd}] /\ backlog \in 0..MaxBacklog
    BY ReactorAssumption DEF Init
  <2>5. QED
    BY <2>1, <2>2, <2>3, <2>4 DEF Init, TypeOK
<1>2. TypeOK /\ [Next]_vars => TypeOK'
  <2> SUFFICES ASSUME TypeOK, [Next]_vars
               PROVE  TypeOK'
    OBVIOUS
  <2>1. CASE Connect
    BY <2>1, ReactorAssumption DEF Connect, TypeOK, conn_vars, main_vars, pool_vars
  <2>2. CASE EpollWait
    <3>1. interest' \in Interests /\ batch' \in Batches
      BY <2>2, ReportTypes DEF EpollWait, TypeOK
    <3>2. QED
      BY <2>2, <3>1 DEF EpollWait, TypeOK, pool_vars
  <2>3. CASE AcceptFails
    BY <2>3 DEF AcceptFails, DispatchListen, TypeOK, conn_vars, pool_vars
  <2>4. CASE AppendTask
    <3>1. pending \in Fds /\ queue' = Append(queue, pending) /\ UNCHANGED held
      BY <2>4 DEF AppendTask, Pool!Put, TypeOK
    <3>2. queue' \in Seq(Fds)
      BY <3>1 DEF TypeOK
    <3>3. QED
      BY <2>4, <3>1, <3>2 DEF AppendTask, TypeOK, listen_vars, conn_vars
  <2>5. ASSUME NEW fd \in Fds, Accept(fd)
        PROVE  TypeOK'
    <3>1. interest' \in Interests
      BY <2>5, InterestOperators DEF Accept, TypeOK
    <3>2. backlog' \in 0..MaxBacklog
      BY <2>5, ReactorAssumption DEF Accept, TypeOK
    <3>3. sock_fd' \in [Fds -> Fds \union {NoFd}]
      BY <2>5 DEF Accept, TypeOK
    <3>4. QED
      BY <2>5, <3>1, <3>2, <3>3 DEF Accept, DispatchListen, TypeOK, pool_vars
  <2>6. ASSUME NEW fd \in Fds, NEW event \in Events, Dispatch(fd, event)
        PROVE  /\ batch' \in Batches
               /\ UNCHANGED <<backlog, listen_edge, batch_listen>>
    BY <2>6 DEF Dispatch, TypeOK, Batches, Events, listen_vars
  <2>7. ASSUME NEW fd \in Fds, HangUp(fd) \/ ReadFails(fd) \/ WriteCloses(fd)
        PROVE  TypeOK'
    <3>1. /\ CloseConn(fd) /\ UNCHANGED <<pending, queue, held, wpc, answering>>
          /\ \E event \in Events : Dispatch(fd, event)
      BY <2>7 DEF HangUp, ReadFails, WriteCloses, pool_vars, Events
    <3>2. QED
      BY <2>6, <3>1, ClosesTypes DEF TypeOK
  <2>8. ASSUME NEW fd \in Fds, ReadSome(fd)
        PROVE  TypeOK'
    BY <2>6, <2>8 DEF ReadSome, TypeOK, conn_vars, pool_vars, Events
  <2>9. ASSUME NEW fd \in Fds, WriteNothing(fd) \/ WriteBlocks(fd) \/ WriteDone(fd)
        PROVE  TypeOK'
    <3>1. /\ UNCHANGED <<open, sock_fd, pending, queue, held, wpc>>
          /\ answering' \in SUBSET Fds
          /\ Dispatch(fd, "out")
          /\ \E ev \in Registrations : interest' = Mod(interest, sock_fd[fd], ev)
      BY <2>9 DEF WriteNothing, WriteBlocks, WriteDone, pool_vars, Registrations, TypeOK
    <3>2. QED
      BY <2>6, <3>1, ClosesTypes DEF TypeOK, Events
  <2>10. ASSUME NEW w \in Workers, TakeTask(w)
         PROVE  TypeOK'
    <3>1. /\ queue # <<>> /\ queue' = Tail(queue)
          /\ held' = [held EXCEPT ![w] = <<Head(queue)>>]
      BY <2>10 DEF TakeTask, Pool!Take
    <3>2. Head(queue) \in Fds /\ queue' \in Seq(Fds)
      BY <3>1, HeadTailProperties DEF TypeOK
    <3>3. /\ held' \in [Workers -> {<<>>} \union {<<fd>> : fd \in Fds}]
          /\ held'[w] # <<>> /\ \A v \in Workers \ {w} : held'[v] = held[v]
      BY <3>1, <3>2, HandTypes DEF TypeOK, Hands
    <3>4. QED
      BY <2>10, <3>2, <3>3, WorkerStepTypes DEF TakeTask, TypeOK, WorkerStates, conn_vars
  <2>11. ASSUME NEW w \in Workers, wpc[w] # "idle"
         PROVE  Conn(w) \in Fds
    BY <2>11, HandTypes DEF Conn, TypeOK, Hands
  <2>12. ASSUME NEW w \in Workers, NoRequest(w) \/ Respond(w) \/ RespondFails(w)
         PROVE  TypeOK'
    <3>1. /\ \E to \in WorkerStates \ {"idle"} : WorkerStep(w, "process", to)
          /\ UNCHANGED <<open, interest, sock_fd, queue, held>>
          /\ answering' \in SUBSET Fds
      BY <2>11, <2>12
      DEF NoRequest, Respond, RespondFails, WorkerStates, conn_vars, pool_vars, TypeOK, WorkerStep
    <3>2. QED
      BY <3>1, WorkerStepTypes DEF TypeOK, WorkerStates
  <2>13. ASSUME NEW w \in Workers, RemoveFd(w) \/ RemoveNothing(w) \/ ResetSocket(w)
         PROVE  TypeOK'
    <3>1. /\ \E from \in WorkerStates \ {"idle"}, to \in WorkerStates \ {"idle"} :
               WorkerStep(w, from, to)
          /\ UNCHANGED <<queue, held, answering>>
      BY <2>13 DEF RemoveFd, RemoveNothing, ResetSocket, WorkerStates, conn_vars, pool_vars
    <3>2. Conn(w) \in Fds
      BY <2>11, <3>1 DEF WorkerStep
    <3>3. open' \in SUBSET Fds /\ sock_fd' \in [Fds -> Fds \union {NoFd}]
      BY <2>13, <3>2 DEF RemoveFd, RemoveNothing, ResetSocket, TypeOK, conn_vars
    <3>4. interest' \in Interests
      <4>1. sock_fd[Conn(w)] # NoFd => Del(interest, sock_fd[Conn(w)]) \in Interests
        BY <3>2, InterestOperators DEF TypeOK
      <4>2. QED
        BY <2>13, <4>1 DEF RemoveFd, RemoveNothing, ResetSocket, TypeOK, conn_vars
    <3>5. QED
      BY <3>1, <3>3, <3>4, WorkerStepTypes DEF TypeOK
  <2>14. ASSUME NEW w \in Workers, Rearm(w)
         PROVE  TypeOK'
    <3>1. /\ \E from \in WorkerStates \ {"idle"} : WorkerStep(w, from, "idle")
          /\ \E ev \in Registrations : interest' = Mod(interest, sock_fd[Conn(w)], ev)
          /\ held' = [held EXCEPT ![w] = <<>>] /\ UNCHANGED <<queue, open, sock_fd, answering>>
      BY <2>14 DEF Rearm, Pool!Finish, WorkerStates, Registrations
    <3>2. Conn(w) \in Fds
      BY <2>11, <3>1 DEF WorkerStep
    <3>3. interest' \in Interests
      BY <3>1, <3>2, ClosesTypes
    <3>4. /\ held' \in [Workers -> {<<>>} \union {<<fd>> : fd \in Fds}]
          /\ held'[w] = <<>> /\ \A v \in Workers \ {w} : held'[v] = held[v]
      BY <3>1 DEF TypeOK
    <3>5. QED
      BY <3>1, <3>3, <3>4, WorkerStepTypes DEF TypeOK, WorkerStates
  <2>15. CASE UNCHANGED vars
    BY <2>15 DEF vars, TypeOK, listen_vars, conn_vars, main_vars, pool_vars
  <2>16. QED
    BY <2>1, <2>2, <2>3, <2>4, <2>5, <2>7, <2>8, <2>9, <2>10, <2>12, <2>13, <2>14, <2>15
    DEF Next, MainHandles, Worker
<1>3. QED
  BY <1>1, <1>2, PTL DEF Spec

-----------------------------------------------------------------------------
(* One owner at a time.                                                    *)

\* What a worker has of its connection: it never closes it, and it has prepared
\* an answer exactly when it is about to wait for EPOLLOUT.
WorkersAnswer ==
  \A w \in Workers, fd \in Fds :
    HeldBy(w, fd) => /\ wpc[w] \in {"process", "arm_in", "arm_out"}
                     /\ fd \in answering <=> wpc[w] = "arm_out"

\* The owners of all connections.  None of the properties is inductive alone: a
\* worker gives a connection back to the kernel by sock_fd, which is the
\* connection's because it is open, which it is because it has an owner.
ReactorInvariant ==
  /\ Exclusive
  /\ NobodyForgotten
  /\ SocketOfConn
  /\ AnswerBeforeWrite
  /\ WorkersAnswer

\* The connection of a worker is the one it holds.
LEMMA HeldConn ==
  ASSUME TypeOK, NEW w \in Workers, held[w] # <<>>
  PROVE  Conn(w) \in Fds /\ HeldBy(w, Conn(w))
BY HandTypes DEF Conn, HeldBy, TypeOK, Hands

\* A worker holds one connection.
LEMMA OneInHand ==
  ASSUME NEW w \in Workers, NEW x, NEW y, HeldBy(w, x), HeldBy(w, y)
  PROVE  x = y
BY HandTypes DEF HeldBy

\* A step that leaves every connection where it is.
LEMMA SameOwners ==
  ASSUME ReactorInvariant, UNCHANGED <<conn_vars, batch, pending, queue, held, wpc>>
  PROVE  ReactorInvariant'
BY DEF ReactorInvariant, Exclusive, NobodyForgotten, SocketOfConn, AnswerBeforeWrite,
       WorkersAnswer, Armed, InQueue, HeldBy, conn_vars

\* Of the connections that epoll_wait() reports the main thread becomes the owner.
LEMMA EpollWaitKeeps ==
  ASSUME TypeOK, ReactorInvariant, EpollWait
  PROVE  ReactorInvariant'
<1> USE DEF ReactorInvariant
<1>1. \A fd \in Fds :
        /\ batch[fd] = "none"
        /\ batch'[fd] # "none" => Armed(interest, fd) /\ batch'[fd] \in {interest[fd], "hup"}
        /\ interest'[fd] = IF batch'[fd] = "none" THEN interest[fd] ELSE "off"
  BY ReportTypes DEF EpollWait, AtEpollWait, NoEvents, TypeOK
<1>2. /\ UNCHANGED <<open, pending, queue, held, wpc, sock_fd, answering>>
      /\ \A w \in Workers, fd \in Fds : HeldBy(w, fd)' <=> HeldBy(w, fd)
      /\ \A fd \in Fds : /\ InQueue(fd)' <=> InQueue(fd)
                         /\ Once(queue, fd)' <=> Once(queue, fd)
  BY DEF EpollWait, pool_vars, HeldBy, InQueue
<1>3. Exclusive'
  BY <1>1, <1>2 DEF Exclusive, Armed
<1>4. NobodyForgotten'
  BY <1>1, <1>2 DEF NobodyForgotten, Armed
<1>5. SocketOfConn' /\ WorkersAnswer'
  BY <1>2 DEF SocketOfConn, WorkersAnswer
<1>6. AnswerBeforeWrite'
  BY <1>1, <1>2 DEF AnswerBeforeWrite
<1>7. QED
  BY <1>3, <1>4, <1>5, <1>6

\* A descriptor that accept() returns has no owner, and the kernel becomes it.
LEMMA AcceptKeeps ==
  ASSUME TypeOK, ReactorInvariant, NEW fd \in Fds, Accept(fd)
  PROVE  ReactorInvariant'
<1> USE DEF ReactorInvariant
<1>1. /\ fd \notin open /\ interest[fd] = "none"
      /\ batch[fd] = "none" /\ pending # fd /\ ~InQueue(fd) /\ \A w \in Workers : ~HeldBy(w, fd)
  BY DEF Accept, NobodyForgotten
<1>2. /\ open' = open \union {fd} /\ answering' = answering \ {fd}
      /\ UNCHANGED <<batch, pending, queue, held, wpc>>
      /\ \A x \in Fds : /\ interest'[x] = IF x = fd THEN "in" ELSE interest[x]
                        /\ sock_fd'[x] = IF x = fd THEN fd ELSE sock_fd[x]
  BY <1>1 DEF Accept, DispatchListen, Add, pool_vars, TypeOK, Interests
<1>3. /\ \A w \in Workers, x \in Fds : HeldBy(w, x)' <=> HeldBy(w, x)
      /\ \A x \in Fds : /\ InQueue(x)' <=> InQueue(x)
                        /\ Once(queue, x)' <=> Once(queue, x)
  BY <1>2 DEF HeldBy, InQueue
<1>4. Exclusive'
  BY <1>1, <1>2, <1>3 DEF Exclusive, Armed
<1>5. NobodyForgotten'
  BY <1>1, <1>2, <1>3 DEF NobodyForgotten, Armed
<1>6. SocketOfConn'
  BY <1>2 DEF SocketOfConn, TypeOK
<1>7. AnswerBeforeWrite'
  BY <1>1, <1>2, <1>3 DEF AnswerBeforeWrite
<1>8. WorkersAnswer'
  BY <1>1, <1>2, <1>3 DEF WorkersAnswer
<1>9. QED
  BY <1>4, <1>5, <1>6, <1>7, <1>8

\* What is known of a connection whose event the main thread is at.
LEMMA MainOwns ==
  ASSUME TypeOK, ReactorInvariant, NEW fd \in Fds, NEW event \in Events \ {"none"},
         Dispatch(fd, event)
  PROVE  /\ fd \in open /\ sock_fd[fd] = fd /\ interest[fd] = "off"
         /\ pending = NoFd /\ ~InQueue(fd) /\ \A w \in Workers : ~HeldBy(w, fd)
         /\ batch[fd] = event
         /\ \A x \in Fds : batch'[x] = IF x = fd THEN "none" ELSE batch[x]
<1>1. batch[fd] = event /\ pending = NoFd /\ batch' = [batch EXCEPT ![fd] = "none"]
  BY DEF Dispatch
<1>2. fd \in open /\ interest[fd] # "none" /\ ~Armed(interest, fd)
  BY <1>1 DEF ReactorInvariant, Exclusive, NobodyForgotten
<1>3. interest[fd] = "off"
  BY <1>2 DEF Armed, TypeOK, Interests, Registrations
<1>4. ~InQueue(fd) /\ \A w \in Workers : ~HeldBy(w, fd)
  BY <1>1 DEF ReactorInvariant, Exclusive
<1>5. sock_fd[fd] = fd
  BY <1>2 DEF ReactorInvariant, SocketOfConn
<1>6. QED
  BY <1>1, <1>2, <1>3, <1>4, <1>5 DEF TypeOK, Batches

\* close_conn() in the main thread: the connection has no owner any more.
LEMMA CloseKeeps ==
  ASSUME TypeOK, ReactorInvariant, NEW fd \in Fds, NEW event \in Events \ {"none"},
         Dispatch(fd, event), CloseConn(fd), UNCHANGED <<pending, pool_vars, wpc, answering>>
  PROVE  ReactorInvariant'
<1> USE DEF ReactorInvariant
<1>1. /\ fd \in open /\ sock_fd[fd] = fd /\ ~InQueue(fd) /\ pending # fd
      /\ \A w \in Workers : ~HeldBy(w, fd)
      /\ \A x \in Fds : batch'[x] = IF x = fd THEN "none" ELSE batch[x]
  BY MainOwns, ReactorAssumption
<1>2. /\ open' = open \ {fd}
      /\ \A x \in Fds : /\ interest'[x] = IF x = fd THEN "none" ELSE interest[x]
                        /\ x # fd => sock_fd'[x] = sock_fd[x]
  BY <1>1, ReactorAssumption DEF CloseConn, Del, TypeOK, Interests
<1>3. /\ \A w \in Workers, x \in Fds : HeldBy(w, x)' <=> HeldBy(w, x)
      /\ \A x \in Fds : /\ InQueue(x)' <=> InQueue(x)
                        /\ Once(queue, x)' <=> Once(queue, x)
      /\ UNCHANGED <<pending, wpc, answering>>
  BY DEF HeldBy, InQueue, pool_vars
<1>4. Exclusive'
  BY <1>1, <1>2, <1>3 DEF Exclusive, Armed
<1>5. NobodyForgotten'
  BY <1>1, <1>2, <1>3 DEF NobodyForgotten, Armed
<1>6. SocketOfConn'
  BY <1>2 DEF SocketOfConn, TypeOK
<1>7. AnswerBeforeWrite' /\ WorkersAnswer'
  BY <1>1, <1>2, <1>3 DEF AnswerBeforeWrite, WorkersAnswer
<1>8. QED
  BY <1>4, <1>5, <1>6, <1>7

\* read() got something: the main thread is about to append the connection.
LEMMA ReadKeeps ==
  ASSUME TypeOK, ReactorInvariant, NEW fd \in Fds, ReadSome(fd)
  PROVE  ReactorInvariant'
<1> USE DEF ReactorInvariant
<1>1. /\ fd \in open /\ interest[fd] = "off" /\ ~InQueue(fd) /\ pending = NoFd
      /\ batch[fd] = "in" /\ \A w \in Workers : ~HeldBy(w, fd)
      /\ \A x \in Fds : batch'[x] = IF x = fd THEN "none" ELSE batch[x]
  BY MainOwns DEF ReadSome, Events
<1>2. pending' = fd /\ fd # NoFd /\ UNCHANGED <<open, interest, sock_fd, answering, wpc>>
  BY ReactorAssumption DEF ReadSome, conn_vars
<1>3. /\ \A w \in Workers, x \in Fds : HeldBy(w, x)' <=> HeldBy(w, x)
      /\ \A x \in Fds : /\ InQueue(x)' <=> InQueue(x)
                        /\ Once(queue, x)' <=> Once(queue, x)
  BY DEF ReadSome, HeldBy, InQueue, pool_vars
<1>4. Exclusive'
  BY <1>1, <1>2, <1>3 DEF Exclusive, Armed
<1>5. NobodyForgotten'
  BY <1>1, <1>2, <1>3, ReactorAssumption DEF NobodyForgotten, Armed
<1>6. SocketOfConn' /\ WorkersAnswer'
  BY <1>2, <1>3 DEF SocketOfConn, WorkersAnswer
<1>7. AnswerBeforeWrite'
  BY <1>1, <1>2, <1>3 DEF AnswerBeforeWrite
<1>8. QED
  BY <1>4, <1>5, <1>6, <1>7

\* append(): from the main thread to the queue.
LEMMA AppendKeeps ==
  ASSUME TypeOK, ReactorInvariant, AppendTask
  PROVE  ReactorInvariant'
<1> USE DEF ReactorInvariant
<1>1. /\ pending \in Fds /\ pending' = NoFd /\ queue' = Append(queue, pending)
      /\ UNCHANGED <<open, interest, sock_fd, answering, batch, held, wpc>>
  BY DEF AppendTask, Pool!Put, conn_vars, TypeOK
<1>2. ~InQueue(pending) /\ ~Armed(interest, pending) /\ batch[pending] = "none"
      /\ \A w \in Workers : ~HeldBy(w, pending)
  BY <1>1 DEF Exclusive
<1>3. /\ \A w \in Workers, x \in Fds : HeldBy(w, x)' <=> HeldBy(w, x)
      /\ \A x \in Fds : /\ InQueue(x)' <=> InQueue(x) \/ x = pending
                        /\ Once(queue, x) => Once(queue, x)'
  <2>1. queue \in Seq(Fds)
    BY DEF TypeOK
  <2>2. \A x \in Fds : InSeq(queue', x) <=> InSeq(queue, x) \/ x = pending
    BY <1>1, <2>1, InSeqAppend
  <2>3. \A x \in Fds : Once(queue, x) => Once(queue', x)
    BY <1>1, <1>2, <2>1, OnceAppend DEF InQueue
  <2>4. QED
    BY <1>1, <2>2, <2>3 DEF HeldBy, InQueue
<1>4. Exclusive'
  BY <1>1, <1>2, <1>3, ReactorAssumption DEF Exclusive
<1>5. NobodyForgotten'
  BY <1>1, <1>2, <1>3, ReactorAssumption DEF NobodyForgotten
<1>6. SocketOfConn' /\ WorkersAnswer'
  BY <1>1, <1>3 DEF SocketOfConn, WorkersAnswer
<1>7. AnswerBeforeWrite'
  BY <1>1, <1>3, ReactorAssumption DEF AnswerBeforeWrite
<1>8. QED
  BY <1>4, <1>5, <1>6, <1>7

\* write() arms the connection again: for EPOLLOUT if the answer is not out yet.
LEMMA WriteKeeps ==
  ASSUME TypeOK, ReactorInvariant, NEW fd \in Fds,
         WriteNothing(fd) \/ WriteBlocks(fd) \/ WriteDone(fd)
  PROVE  ReactorInvariant'
<1> USE DEF ReactorInvariant
<1>1. Dispatch(fd, "out")
  BY DEF WriteNothing, WriteBlocks, WriteDone
<1>2. /\ fd \in open /\ sock_fd[fd] = fd /\ interest[fd] = "off" /\ ~InQueue(fd)
      /\ pending = NoFd /\ batch[fd] = "out" /\ \A w \in Workers : ~HeldBy(w, fd)
      /\ \A x \in Fds : batch'[x] = IF x = fd THEN "none" ELSE batch[x]
  BY <1>1, MainOwns DEF Events
<1>3. fd \in answering
  BY <1>2 DEF AnswerBeforeWrite
<1>4. /\ UNCHANGED <<open, sock_fd, pending, wpc>>
      /\ \A w \in Workers, x \in Fds : HeldBy(w, x)' <=> HeldBy(w, x)
      /\ \A x \in Fds : /\ InQueue(x)' <=> InQueue(x)
                        /\ Once(queue, x)' <=> Once(queue, x)
  BY DEF WriteNothing, WriteBlocks, WriteDone, HeldBy, InQueue, pool_vars
<1>5. PICK ev \in {"in", "out"} :
        /\ interest' = Mod(interest, sock_fd[fd], ev)
        /\ answering' = IF ev = "out" THEN answering ELSE answering \ {fd}
  BY <1>3 DEF WriteNothing, WriteBlocks, WriteDone
<1>6. \A x \in Fds : interest'[x] = IF x = fd THEN ev ELSE interest[x]
  BY <1>2, <1>5 DEF Mod, TypeOK, Interests
<1>7. Exclusive'
  BY <1>2, <1>4, <1>6, ReactorAssumption DEF Exclusive, Armed
<1>8. NobodyForgotten'
  BY <1>2, <1>4, <1>6 DEF NobodyForgotten, Armed
<1>9. SocketOfConn'
  BY <1>4 DEF SocketOfConn
<1>10. AnswerBeforeWrite'
  BY <1>2, <1>3, <1>4, <1>5, <1>6, ReactorAssumption DEF AnswerBeforeWrite
<1>11. WorkersAnswer'
  BY <1>2, <1>4, <1>5 DEF WorkersAnswer
<1>12. QED
  BY <1>7, <1>8, <1>9, <1>10, <1>11

\* take(): from the queue to a worker, which is idle and holds nothing.
LEMMA TakeKeeps ==
  ASSUME TypeOK, ReactorInvariant, NEW w \in Workers, TakeTask(w)
  PROVE  ReactorInvariant'
<1> USE DEF ReactorInvariant
<1> DEFINE taken == Head(queue)
<1>1. /\ queue \in Seq(Fds) /\ queue # <<>> /\ queue' = Tail(queue)
      /\ taken \in Fds /\ held[w] = <<>>
      /\ held'[w] = <<taken>> /\ \A v \in Workers \ {w} : held'[v] = held[v]
  BY HeadTailProperties DEF TakeTask, Pool!Take, TypeOK
<1>2. /\ UNCHANGED <<open, interest, sock_fd, answering, batch, pending>>
      /\ wpc'[w] = "process" /\ \A v \in Workers \ {w} : wpc'[v] = wpc[v]
  BY DEF TakeTask, WorkerStep, TypeOK, conn_vars, main_vars
<1>3. \A x \in Fds : /\ InQueue(x) <=> x = taken \/ InQueue(x)'
                     /\ Once(queue, x) => Once(queue, x)' /\ (InQueue(x)' => x # taken)
  <2>1. \A x \in Fds :
          /\ InSeq(queue, x) <=> x = taken \/ InSeq(queue', x)
          /\ Once(queue, x) => Once(queue', x) /\ (InSeq(queue', x) => x # taken)
    BY <1>1, InSeqHeadTail
  <2>2. QED
    BY <2>1 DEF InQueue
<1>4. \A x \in Fds : /\ HeldBy(w, x)' <=> x = taken
                     /\ \A v \in Workers \ {w} : HeldBy(v, x)' <=> HeldBy(v, x)
                     /\ ~HeldBy(w, x)
  BY <1>1, HandTypes DEF HeldBy
<1>5. /\ InQueue(taken) /\ ~Armed(interest, taken) /\ batch[taken] = "none" /\ pending # taken
      /\ \A v \in Workers : ~HeldBy(v, taken)
  BY <1>1, <1>3 DEF Exclusive
<1>6. Exclusive'
  <2> SUFFICES ASSUME NEW x \in Fds
               PROVE  /\ Armed(interest, x) =>
                           batch[x] = "none" /\ pending # x /\ ~InQueue(x)'
                             /\ \A v \in Workers : ~HeldBy(v, x)'
                      /\ batch[x] # "none" =>
                           pending # x /\ ~InQueue(x)' /\ \A v \in Workers : ~HeldBy(v, x)'
                      /\ pending = x => ~InQueue(x)' /\ \A v \in Workers : ~HeldBy(v, x)'
                      /\ InQueue(x)' => \A v \in Workers : ~HeldBy(v, x)'
                      /\ Once(queue, x)'
                      /\ \A u, v \in Workers : HeldBy(u, x)' /\ HeldBy(v, x)' => u = v
    BY <1>2 DEF Exclusive, Armed
  <2>1. CASE x = taken
    BY <2>1, <1>3, <1>4, <1>5 DEF Exclusive
  <2>2. CASE x # taken
    BY <2>2, <1>3, <1>4 DEF Exclusive
  <2>3. QED
    BY <2>1, <2>2
<1>7. NobodyForgotten'
  BY <1>2, <1>3, <1>4, <1>5 DEF NobodyForgotten, Armed
<1>8. SocketOfConn'
  BY <1>2 DEF SocketOfConn
<1>9. AnswerBeforeWrite'
  BY <1>2, <1>3 DEF AnswerBeforeWrite
<1>10. WorkersAnswer'
  <2>1. taken \notin answering
    BY <1>1, <1>5 DEF AnswerBeforeWrite
  <2>2. QED
    BY <2>1, <1>2, <1>4 DEF WorkersAnswer
<1>11. QED
  BY <1>6, <1>7, <1>8, <1>9, <1>10

\* process() up to its modfd(): the worker prepares an answer or it does not.
LEMMA ProcessKeeps ==
  ASSUME TypeOK, ReactorInvariant, NEW w \in Workers, NoRequest(w) \/ Respond(w)
  PROVE  ReactorInvariant'
<1> USE DEF ReactorInvariant
<1> DEFINE fd == Conn(w)
<1>1. /\ fd \in Fds /\ HeldBy(w, fd)
      /\ \A x \in Fds : HeldBy(w, x) => x = fd
      /\ wpc[w] = "process"
  BY HeldConn, OneInHand DEF NoRequest, Respond, WorkerStep, TypeOK
<1>2. /\ UNCHANGED <<open, interest, sock_fd, batch, pending, queue, held>>
      /\ \A v \in Workers \ {w} : wpc'[v] = wpc[v]
      /\ \/ wpc'[w] = "arm_in" /\ answering' = answering
         \/ wpc'[w] = "arm_out" /\ answering' = answering \union {fd}
  BY DEF NoRequest, Respond, WorkerStep, TypeOK, conn_vars, main_vars, pool_vars
<1>3. /\ \A v \in Workers, x \in Fds : HeldBy(v, x)' <=> HeldBy(v, x)
      /\ \A x \in Fds : /\ InQueue(x)' <=> InQueue(x)
                        /\ Once(queue, x)' <=> Once(queue, x)
  BY <1>2 DEF HeldBy, InQueue
<1>4. /\ ~Armed(interest, fd) /\ batch[fd] = "none" /\ pending # fd /\ ~InQueue(fd)
      /\ \A v \in Workers \ {w} : ~HeldBy(v, fd)
      /\ fd \notin answering
  BY <1>1 DEF Exclusive, WorkersAnswer
<1>5. Exclusive' /\ NobodyForgotten' /\ SocketOfConn'
  BY <1>2, <1>3 DEF Exclusive, NobodyForgotten, SocketOfConn, Armed
<1>6. AnswerBeforeWrite'
  BY <1>2, <1>3, <1>4 DEF AnswerBeforeWrite, Armed
<1>7. WorkersAnswer'
  BY <1>1, <1>2, <1>3, <1>4 DEF WorkersAnswer
<1>8. QED
  BY <1>5, <1>6, <1>7

\* The modfd() that ends process() gives the connection back to the kernel.
LEMMA RearmKeeps ==
  ASSUME TypeOK, ReactorInvariant, NEW w \in Workers, Rearm(w)
  PROVE  ReactorInvariant'
<1> USE DEF ReactorInvariant
<1> DEFINE fd == Conn(w)
<1>1. PICK ev \in {"in", "out"} :
        /\ wpc[w] = IF ev = "in" THEN "arm_in" ELSE "arm_out"
        /\ interest' = Mod(interest, sock_fd[fd], ev)
  BY DEF Rearm, WorkerStep
<1>2. /\ UNCHANGED <<open, sock_fd, answering, batch, pending, queue>>
      /\ held'[w] = <<>> /\ \A v \in Workers \ {w} : held'[v] = held[v] /\ wpc'[v] = wpc[v]
  BY DEF Rearm, Pool!Finish, WorkerStep, TypeOK, main_vars
<1>3. fd \in Fds /\ HeldBy(w, fd) /\ \A x \in Fds : HeldBy(w, x) => x = fd
  BY <1>1, HeldConn, OneInHand DEF TypeOK
<1>4. /\ batch[fd] = "none" /\ pending # fd /\ ~InQueue(fd)
      /\ \A v \in Workers \ {w} : ~HeldBy(v, fd)
  BY <1>3 DEF Exclusive
<1>5. fd \in open /\ interest[fd] # "none" /\ sock_fd[fd] = fd
  BY <1>3 DEF NobodyForgotten, SocketOfConn
<1>6. \A x \in Fds : interest'[x] = IF x = fd THEN ev ELSE interest[x]
  BY <1>1, <1>3, <1>5 DEF Mod, TypeOK, Interests
<1>7. /\ \A x \in Fds : /\ ~HeldBy(w, x)'
                        /\ \A v \in Workers \ {w} : HeldBy(v, x)' <=> HeldBy(v, x)
      /\ \A x \in Fds : /\ InQueue(x)' <=> InQueue(x)
                        /\ Once(queue, x)' <=> Once(queue, x)
  BY <1>2, HandTypes DEF HeldBy, InQueue
<1>8. Exclusive'
  BY <1>2, <1>3, <1>4, <1>6, <1>7 DEF Exclusive, Armed
<1>9. NobodyForgotten'
  BY <1>2, <1>3, <1>4, <1>5, <1>6, <1>7 DEF NobodyForgotten, Armed
<1>10. SocketOfConn'
  BY <1>2 DEF SocketOfConn
<1>11. AnswerBeforeWrite'
  <2>1. fd \in answering <=> ev = "out"
    BY <1>1, <1>3 DEF WorkersAnswer
  <2>2. QED
    BY <2>1, <1>2, <1>4, <1>6, <1>7 DEF AnswerBeforeWrite
<1>12. WorkersAnswer'
  BY <1>2, <1>7 DEF WorkersAnswer
<1>13. QED
  BY <1>8, <1>9, <1>10, <1>11, <1>12

\* Without files of size 0 process_write() never fails, so no worker closes a
\* connection, and the owners stay what they are.
LEMMA OwnersKept ==
  ASSUME ~EmptyFiles
  PROVE  Spec => []ReactorInvariant
<1>1. Init => ReactorInvariant
  <2> SUFFICES ASSUME Init
               PROVE  ReactorInvariant
    OBVIOUS
  <2>1. /\ open = {} /\ pending = NoFd /\ NoFd \notin Fds
        /\ \A fd \in Fds : interest[fd] = "none" /\ batch[fd] = "none"
    BY ReactorAssumption DEF Init, NoInterest, NoEvents
  <2>2. \A fd \in Fds : /\ ~InQueue(fd) /\ Once(queue, fd)
                        /\ \A w \in Workers : ~HeldBy(w, fd)
    <3>1. queue = <<>> /\ \A w \in Workers : held[w] = <<>>
      BY DEF Init, Pool!Init
    <3>2. \A fd \in Fds : ~InQueue(fd) /\ Once(queue, fd)
      BY <3>1 DEF InQueue, InSeq, Once
    <3>3. \A fd \in Fds, w \in Workers : ~HeldBy(w, fd)
      BY <3>1, HandTypes DEF HeldBy
    <3>4. QED
      BY <3>2, <3>3
  <2>3. QED
    BY <2>1, <2>2 DEF ReactorInvariant, Exclusive, NobodyForgotten, SocketOfConn,
                      AnswerBeforeWrite, WorkersAnswer, Armed
<1>2. TypeOK /\ ReactorInvariant /\ [Next]_vars => ReactorInvariant'
  <2> SUFFICES ASSUME TypeOK, ReactorInvariant, [Next]_vars
               PROVE  ReactorInvariant'
    OBVIOUS
  <2>1. CASE Connect \/ AcceptFails \/ UNCHANGED vars
    <3>1. UNCHANGED <<conn_vars, batch, pending, queue, held, wpc>>
      BY <2>1 DEF Connect, AcceptFails, DispatchListen, vars, main_vars, pool_vars
    <3>2. QED
      BY <3>1, SameOwners
  <2>2. CASE EpollWait
    BY <2>2, EpollWaitKeeps
  <2>3. ASSUME NEW fd \in Fds, Accept(fd)
        PROVE  ReactorInvariant'
    BY <2>3, AcceptKeeps
  <2>4. ASSUME NEW fd \in Fds, HangUp(fd) \/ ReadFails(fd) \/ WriteCloses(fd)
        PROVE  ReactorInvariant'
    <3>1. PICK event \in Events \ {"none"} : Dispatch(fd, event)
      BY <2>4 DEF HangUp, ReadFails, WriteCloses, Events
    <3>2. CloseConn(fd) /\ UNCHANGED <<pending, pool_vars, wpc, answering>>
      BY <2>4 DEF HangUp, ReadFails, WriteCloses
    <3>3. QED
      BY <3>1, <3>2, CloseKeeps
  <2>5. ASSUME NEW fd \in Fds, ReadSome(fd)
        PROVE  ReactorInvariant'
    BY <2>5, ReadKeeps
  <2>6. CASE AppendTask
    BY <2>6, AppendKeeps
  <2>7. ASSUME NEW fd \in Fds, WriteNothing(fd) \/ WriteBlocks(fd) \/ WriteDone(fd)
        PROVE  ReactorInvariant'
    BY <2>7, WriteKeeps
  <2>8. ASSUME NEW w \in Workers, TakeTask(w)
        PROVE  ReactorInvariant'
    BY <2>8, TakeKeeps
  <2>9. ASSUME NEW w \in Workers, NoRequest(w) \/ Respond(w)
        PROVE  ReactorInvariant'
    BY <2>9, ProcessKeeps
  <2>10. ASSUME NEW w \in Workers, RespondFails(w) \/ RemoveFd(w) \/ RemoveNothing(w) \/ ResetSocket(w)
         PROVE  FALSE
    <3>1. wpc[w] \in {"remove", "reset"}
      BY <2>10 DEF RespondFails, RemoveFd, RemoveNothing, ResetSocket, WorkerStep
    <3>2. Conn(w) \in Fds /\ HeldBy(w, Conn(w))
      BY <3>1, HeldConn DEF TypeOK
    <3>3. QED
      BY <3>1, <3>2 DEF ReactorInvariant, WorkersAnswer
  <2>11. ASSUME NEW w \in Workers, Rearm(w)
         PROVE  ReactorInvariant'
    BY <2>11, RearmKeeps
  <2>12. QED
    BY <2>1, <2>2, <2>3, <2>4, <2>5, <2>6, <2>7, <2>8, <2>9, <2>10, <2>11
    DEF Next, MainHandles, Worker
<1>3. QED
  BY <1>1, <1>2, ReactorTypeCorrect, PTL DEF Spec

\* The one-shot protocol needs no lock in httpConn: a connection is with the
\* kernel, the main thread, the task queue or one worker, never with two.
THEOREM OneOwner ==
  ASSUME ~EmptyFiles
  PROVE  Spec => []Exclusive
BY OwnersKept, PTL DEF ReactorInvariant

\* No accepted connection is left without an owner, and no closed one has one.
THEOREM ReactorForgetsNobody ==
  ASSUME ~EmptyFiles
  PROVE  Spec => []NobodyForgotten
BY OwnersKept, PTL DEF ReactorInvariant

\* An open connection's sock_fd is its socket: the workers' modfd() and the main
\* thread's close_conn() reach the right registration.
THEOREM SocketIsKept ==
  ASSUME ~EmptyFiles
  PROVE  Spec => []SocketOfConn
BY OwnersKept, PTL DEF ReactorInvariant

\* read() never gets at a connection that is being answered, and write() never at
\* one without an answer: the branch for write_index = 0 is never taken.
THEOREM ReactorAnswersFirst ==
  ASSUME ~EmptyFiles
  PROVE  Spec => []AnswerBeforeWrite
BY OwnersKept, PTL DEF ReactorInvariant

-----------------------------------------------------------------------------
(* The server and its thread pool.                                         *)

\* Between them the main thread and the workers use the pool as TaskQueue says it
\* may be used: one task is put, taken or finished at a time, and a worker takes
\* one only after it has finished the one before.  TaskQueue is also what
\* ThreadPool, the pool in detail, implements (PoolImplementsTaskQueue).
THEOREM ServerUsesPool == Spec => Pool!Spec
<1>1. Init => Pool!Init
  BY DEF Init
<1>2. TypeOK /\ [Next]_vars => [Pool!Next]_(Pool!vars)
  <2> SUFFICES ASSUME TypeOK, [Next]_vars
               PROVE  Pool!Next \/ UNCHANGED <<queue, held>>
    BY DEF Pool!vars
  <2>1. CASE AppendTask
    <3>1. pending \in Fds /\ Pool!Put(pending)
      BY <2>1 DEF AppendTask, TypeOK
    <3>2. QED
      BY <3>1 DEF Pool!Next
  <2>2. CASE \/ Connect \/ EpollWait \/ AcceptFails \/ UNCHANGED vars
             \/ \E fd \in Fds : \/ Accept(fd) \/ HangUp(fd) \/ ReadSome(fd) \/ ReadFails(fd)
                                \/ WriteNothing(fd) \/ WriteBlocks(fd) \/ WriteDone(fd)
                                \/ WriteCloses(fd)
    BY <2>2 DEF Connect, EpollWait, AcceptFails, Accept, DispatchListen, HangUp, ReadSome,
                ReadFails, WriteNothing, WriteBlocks, WriteDone, WriteCloses, vars, pool_vars
  <2>3. ASSUME NEW w \in Workers, TakeTask(w)
        PROVE  Pool!Next
    BY <2>3 DEF TakeTask, Pool!Next
  <2>4. ASSUME NEW w \in Workers, Rearm(w)
        PROVE  Pool!Next
    BY <2>4 DEF Rearm, Pool!Next
  <2>5. ASSUME NEW w \in Workers, \/ NoRequest(w) \/ Respond(w) \/ RespondFails(w)
                                  \/ RemoveFd(w) \/ RemoveNothing(w) \/ ResetSocket(w)
        PROVE  UNCHANGED <<queue, held>>
    BY <2>5 DEF NoRequest, Respond, RespondFails, RemoveFd, RemoveNothing, ResetSocket, pool_vars
  <2>6. QED
    BY <2>1, <2>2, <2>3, <2>4, <2>5 DEF Next, MainHandles, Worker
<1>3. QED
  BY <1>1, <1>2, ReactorTypeCorrect, PTL DEF Spec, Pool!Spec

=============================================================================
