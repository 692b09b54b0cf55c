--------------------------- MODULE EventLoopProofs ---------------------------
(***************************************************************************)
(* Theorems about EventLoop for every number of loops, every set of        *)
(* descriptors and every length of the backlog, with and without files of  *)
(* size 0.                                                                 *)
(***************************************************************************)
EXTENDS EventLoop, ServerLemmas

-----------------------------------------------------------------------------
(* Operators of the model.                                                 *)

\* disPatch_con_new() names a loop.
LEMMA DispatchedLoop ==
  ASSUME last_thread_id \in {-1} \union Loops
  PROVE  disPatch_con_new \in Loops
BY EventLoopAssumption DEF disPatch_con_new, Loops

\* What the new httpConns of a loop make of its interest list.
Adopted(list, seq) ==
  [fd \in Fds |-> IF InSeq(seq, fd) THEN Add(Add(list, fd), fd)[fd] ELSE list[fd]]

LEMMA AdoptedInterest ==
  ASSUME NEW list \in Interests, NEW seq
  PROVE  /\ Adopted(list, seq) \in Interests
         /\ \A fd \in Fds :
              Adopted(list, seq)[fd]
                = IF InSeq(seq, fd) /\ list[fd] = "none" THEN "in" ELSE list[fd]
<1>1. \A fd \in Fds :
        Adopted(list, seq)[fd]
          = IF InSeq(seq, fd) /\ list[fd] = "none" THEN "in" ELSE list[fd]
  BY DEF Adopted, Add, Interests, Registrations
<1>2. \A fd \in Fds : Adopted(list, seq)[fd] \in Registrations
  BY <1>1 DEF Interests, Registrations
<1>3. Adopted(list, seq) \in Interests
  BY <1>2 DEF Interests, Adopted
<1>4. QED
  BY <1>1, <1>3

\* The last mod() of process() does nothing, or it is one for EPOLLOUT of some
\* descriptor in the epoll instance of some loop.
LEMMA StaleModTargets ==
  ASSUME NEW l \in Loops, StaleMod(l)
  PROVE  \/ UNCHANGED interest
         \/ \E k \in Loops, fd \in Fds :
              interest' = [interest EXCEPT ![k] = Mod(interest[k], fd, "out")]
BY DEF StaleMod

-----------------------------------------------------------------------------
(* Type correctness.                                                       *)

\* The variables keep their types: the main thread holds a descriptor exactly
\* while it is about to push it, and has dispatched it when it notifies; a loop
\* names a connection exactly while it is closing it.
THEOREM LoopTypeCorrect == Spec => []TypeOK
<1>1. Init => TypeOK
  <2> SUFFICES ASSUME Init
               PROVE  TypeOK
    OBVIOUS
  <2>1. batch \in [Loops -> Batches] /\ interest \in [Loops -> Interests]
    BY DEF Init, Batches, Events, NoEvents, Interests, Registrations, NoInterest
  <2>2. fd_con_queue \in [Loops -> Seq(Fds)] /\ map_fd_http \in [Loops -> [Fds -> Objects]]
    BY DEF Init, Objects
  <2>3. lpc \in [Loops -> LoopStates] /\ mpc \in MainStates
    BY DEF Init, LoopStates, MainStates
  <2>4. \A l \in Loops : current[l] # NoFd <=> lpc[l] \in {"erase", "erase_mod"}
    BY DEF Init
  <2>5. /\ efd_edge \in [Loops -> BOOLEAN] /\ batch_efd \in [Loops -> BOOLEAN]
        /\ current \in [Loops -> Fds \union {NoFd}]
    BY DEF Init
  <2>6. backlog \in 0..MaxBacklog
    BY EventLoopAssumption DEF Init
  <2>7. QED
    BY <2>1, <2>2, <2>3, <2>4, <2>5, <2>6 DEF Init, TypeOK
<1>2. TypeOK /\ [Next]_vars => TypeOK'
  <2> SUFFICES ASSUME TypeOK, [Next]_vars
               PROVE  TypeOK'
    OBVIOUS
  <2> USE EventLoopAssumption DEF TypeOK
  <2>1. CASE Connect
    BY <2>1 DEF Connect, main_vars, loop_vars, conn_vars
  <2>2. CASE MainEpollWait
    BY <2>2 DEF MainEpollWait, MainStates, loop_vars, conn_vars
  <2>3. ASSUME NEW fd \in Fds, Accept(fd)
        PROVE  TypeOK'
    BY <2>3 DEF Accept, MainStates, loop_vars, conn_vars
  <2>4. CASE AcceptFails
    BY <2>4 DEF AcceptFails, MainStates, loop_vars, conn_vars
  <2>5. CASE PushNewCon
    <3>1. disPatch_con_new \in Loops
      BY DispatchedLoop
    <3>2. fd_con_queue' \in [Loops -> Seq(Fds)]
      BY <2>5, <3>1 DEF PushNewCon, Push
    <3>3. QED
      BY <2>5, <3>1, <3>2 DEF PushNewCon, Push, MainStates, listen_vars, loop_vars, conn_vars
  <2>6. CASE Notify
    BY <2>6 DEF Notify, WriteEventFd, MainStates, listen_vars, loop_vars, conn_vars
  <2>7. ASSUME NEW l \in Loops, EpollWait(l)
        PROVE  TypeOK'
    <3>1. PICK reported \in Reports(interest[l]) :
            /\ batch' = [batch EXCEPT ![l] = reported]
            /\ interest' = [interest EXCEPT ![l] = Disarm(@, reported)]
      BY <2>7 DEF EpollWait
    <3>2. reported \in Batches /\ Disarm(interest[l], reported) \in Interests
      BY ReportTypes
    <3>3. batch' \in [Loops -> Batches] /\ interest' \in [Loops -> Interests]
      BY <3>1, <3>2
    <3>4. QED
      BY <2>7, <3>3 DEF EpollWait, LoopOnly, listen_vars, main_vars
  <2>8. ASSUME NEW l \in Loops, ReadEventFd(l)
        PROVE  TypeOK'
    BY <2>8 DEF ReadEventFd, LoopStates, LoopOnly, listen_vars, main_vars, conn_vars
  <2>9. ASSUME NEW l \in Loops, DrainAndAdopt(l)
        PROVE  TypeOK'
    <3>1. interest' \in [Loops -> Interests]
      <4>1. Adopted(interest[l], fd_con_queue[l]) \in Interests
        BY AdoptedInterest
      <4>2. interest' = [interest EXCEPT ![l] = Adopted(interest[l], fd_con_queue[l])]
        BY <2>9 DEF DrainAndAdopt, Adopted
      <4>3. QED
        BY <4>1, <4>2
    <3>2. map_fd_http' \in [Loops -> [Fds -> Objects]]
      BY <2>9 DEF DrainAndAdopt, Objects
    <3>3. fd_con_queue' \in [Loops -> Seq(Fds)]
      BY <2>9 DEF DrainAndAdopt
    <3>4. heirs' \in [Loops -> SUBSET (Loops \X Fds)]
      BY <2>9 DEF DrainAndAdopt, MakeHeirs
    <3>5. QED
      BY <2>9, <3>1, <3>2, <3>3, <3>4
      DEF DrainAndAdopt, LoopStates, LoopOnly, listen_vars, main_vars
  <2>10. ASSUME NEW l \in Loops, NEW fd \in Fds, NEW event \in Events, Dispatch(l, fd, event)
         PROVE  batch' \in [Loops -> Batches]
    BY <2>10 DEF Dispatch, Batches, Events
  <2>11. ASSUME NEW l \in Loops, NEW fd \in Fds, NEW event \in Events, Dispatch(l, fd, event),
                NEW ev \in {"in", "out"}, Rearm(l, fd, ev), answering' \in SUBSET Fds
         PROVE  TypeOK'
    <3>1. interest' \in [Loops -> Interests]
      BY <2>11, InterestOperators DEF Rearm, Registrations
    <3>2. QED
      BY <2>10, <2>11, <3>1 DEF Dispatch, Rearm, LoopOnly, listen_vars, main_vars
  <2>12. ASSUME NEW l \in Loops, NEW fd \in Fds, NEW event \in Events, Dispatch(l, fd, event),
                NEW next \in {"erase", "erase_mod"}, CloseCon(l, fd, next)
         PROVE  TypeOK'
    <3>1. interest' \in [Loops -> Interests]
      BY <2>12, InterestOperators DEF CloseCon
    <3>2. map_fd_http' \in [Loops -> [Fds -> Objects]]
      BY <2>12 DEF CloseCon, Objects
    <3>3. lpc' \in [Loops -> LoopStates] /\ current' \in [Loops -> Fds \union {NoFd}]
      BY <2>12 DEF CloseCon, LoopStates
    <3>4. \A k \in Loops : current'[k] # NoFd <=> lpc'[k] \in {"erase", "erase_mod"}
      BY <2>12 DEF CloseCon
    <3>5. QED
      BY <2>10, <2>12, <3>1, <3>2, <3>3, <3>4
      DEF Dispatch, CloseCon, LoopOnly, listen_vars, main_vars
  <2>13. ASSUME NEW l \in Loops, NEW fd \in Fds, HandleRead(l, fd) \/ HandleWrite(l, fd)
         PROVE  TypeOK'
    BY <2>11, <2>13 DEF HandleRead, HandleWrite, WriteBlocks, Events
  <2>14. ASSUME NEW l \in Loops, NEW fd \in Fds, HandleReadEmptyFile(l, fd) \/ HandleClose(l, fd)
         PROVE  TypeOK'
    BY <2>12, <2>14 DEF HandleReadEmptyFile, HandleClose, Events
  <2>15. ASSUME NEW l \in Loops, Erase(l)
         PROVE  TypeOK'
    <3>1. current[l] \in Fds
      BY <2>15 DEF Erase, EraseTo
    <3>2. interest' \in [Loops -> Interests]
      <4>1. \A k \in Loops, fd \in Fds : Mod(interest[k], fd, "out") \in Interests
        BY InterestOperators DEF Registrations
      <4>2. CASE UNCHANGED interest
        BY <4>2
      <4>3. CASE StaleMod(l) /\ interest' # interest
        <5>1. PICK k \in Loops, fd \in Fds :
                interest' = [interest EXCEPT ![k] = Mod(interest[k], fd, "out")]
          BY <4>3, StaleModTargets
        <5>2. QED
          BY <4>1, <5>1
      <4>4. QED
        BY <2>15, <4>2, <4>3 DEF Erase, EraseTo
    <3>3. QED
      BY <2>15, <3>1, <3>2
      DEF Erase, EraseTo, Objects, LoopStates, LoopOnly, listen_vars, main_vars
  <2>16. CASE UNCHANGED vars
    BY <2>16 DEF vars, listen_vars, main_vars, loop_vars, conn_vars
  <2>17. QED
    BY <2>1, <2>2, <2>3, <2>4, <2>5, <2>6, <2>7, <2>8, <2>9, <2>13, <2>14, <2>15, <2>16
    DEF Next, Main, LoopRuns
<1>3. QED
  BY <1>1, <1>2, PTL DEF Spec

-----------------------------------------------------------------------------
(* Nothing is overlooked: the listening socket and the eventfds.           *)

\* The main thread accepts until EAGAIN, so a connection that is pending has an
\* event to come, however many arrived for one event.
THEOREM PendingIsNoticed == Spec => []PendingNoticed
<1>1. Init => PendingNoticed
  BY DEF Init, PendingNoticed
<1>2. PendingNoticed /\ [Next]_vars => PendingNoticed'
  <2> SUFFICES ASSUME PendingNoticed, [Next]_vars
               PROVE  PendingNoticed'
    OBVIOUS
  <2> USE DEF PendingNoticed
  <2>1. CASE Connect
    BY <2>1 DEF Connect
  <2>2. CASE MainEpollWait
    BY <2>2 DEF MainEpollWait
  <2>3. ASSUME NEW fd \in Fds, Accept(fd)
        PROVE  PendingNoticed'
    BY <2>3 DEF Accept
  <2>4. CASE AcceptFails
    BY <2>4 DEF AcceptFails
  <2>5. CASE PushNewCon \/ Notify
    BY <2>5 DEF PushNewCon, Push, Notify, WriteEventFd
  <2>6. CASE UNCHANGED <<listen_vars, main_vars>>
    BY <2>6 DEF listen_vars, main_vars
  <2>7. ASSUME NEW l \in Loops, EpollWait(l) \/ LoopRuns(l)
        PROVE  UNCHANGED <<listen_vars, main_vars>>
    BY <2>7
    DEF EpollWait, LoopRuns, ReadEventFd, DrainAndAdopt, Erase, EraseTo, HandleRead,
        HandleReadEmptyFile, HandleWrite, HandleClose, Dispatch, LoopOnly
  <2>8. QED
    BY <2>1, <2>2, <2>3, <2>4, <2>5, <2>6, <2>7 DEF Next, Main, vars
<1>3. QED
  BY <1>1, <1>2, PTL DEF Spec

\* What a loop does with its connections is of no concern to the handover.
LEMMA HandlingKeepsHandover ==
  ASSUME TypeOK, NEW l \in Loops,
         \/ Erase(l)
         \/ \E fd \in Fds : \/ HandleRead(l, fd) \/ HandleReadEmptyFile(l, fd)
                           \/ HandleWrite(l, fd) \/ HandleClose(l, fd)
  PROVE  /\ UNCHANGED <<main_vars, fd_con_queue, efd_edge, batch_efd>>
         /\ \A k \in Loops : lpc[k] = "drain" => lpc'[k] = "drain"
<1>1. UNCHANGED <<main_vars, fd_con_queue, efd_edge, batch_efd>>
  BY DEF HandleRead, HandleReadEmptyFile, HandleWrite, HandleClose, Dispatch,
         Erase, EraseTo, LoopOnly
<1>2. lpc[l] # "drain"
  BY DEF HandleRead, HandleReadEmptyFile, HandleWrite, HandleClose, Dispatch, Erase, EraseTo
<1>3. UNCHANGED lpc \/ \E s \in LoopStates : lpc' = [lpc EXCEPT ![l] = s]
  BY DEF HandleRead, HandleReadEmptyFile, HandleWrite, WriteBlocks, HandleClose, Rearm,
         CloseCon, Erase, EraseTo, LoopStates
<1>4. QED
  BY <1>1, <1>2, <1>3 DEF TypeOK

\* No handover is lost, in whatever order push, drain, and the write and the read
\* of the eventfd come: the eventfd is written after the push, and the loop reads
\* it before it takes the lock.
THEOREM HandoverIsNoticed == Spec => []HandoverNoticed
<1>1. Init => HandoverNoticed
  BY DEF Init, HandoverNoticed
<1>2. TypeOK /\ HandoverNoticed /\ [Next]_vars => HandoverNoticed'
  <2> SUFFICES ASSUME TypeOK, HandoverNoticed, [Next]_vars
               PROVE  HandoverNoticed'
    OBVIOUS
  <2> USE DEF HandoverNoticed
  <2>1. CASE Connect
    BY <2>1 DEF Connect, main_vars, loop_vars
  <2>2. CASE MainEpollWait \/ AcceptFails \/ \E fd \in Fds : Accept(fd)
    BY <2>2 DEF MainEpollWait, AcceptFails, Accept, loop_vars
  <2>3. CASE PushNewCon
    <3>1. disPatch_con_new \in Loops
      BY DispatchedLoop DEF TypeOK
    <3>2. /\ mpc' = "notify" /\ last_thread_id' = disPatch_con_new
          /\ \A l \in Loops \ {disPatch_con_new} : fd_con_queue'[l] = fd_con_queue[l]
      BY <2>3, <3>1 DEF PushNewCon, Push, TypeOK
    <3>3. mpc # "notify" /\ UNCHANGED <<efd_edge, loop_vars>>
      BY <2>3 DEF PushNewCon, Push
    <3>4. QED
      BY <3>2, <3>3 DEF loop_vars
  <2>4. CASE Notify
    <3>1. efd_edge' = [efd_edge EXCEPT ![last_thread_id] = TRUE]
      BY <2>4 DEF Notify, WriteEventFd
    <3>2. UNCHANGED <<fd_con_queue, loop_vars>>
      BY <2>4 DEF Notify, WriteEventFd
    <3>3. QED
      BY <3>1, <3>2 DEF loop_vars, TypeOK
  <2>5. ASSUME NEW l \in Loops, EpollWait(l)
        PROVE  HandoverNoticed'
    <3>1. /\ efd_edge' = [efd_edge EXCEPT ![l] = FALSE]
          /\ batch_efd' = [batch_efd EXCEPT ![l] = efd_edge[l]] /\ ~batch_efd[l]
      BY <2>5 DEF EpollWait, AtEpollWait
    <3>2. UNCHANGED <<main_vars, fd_con_queue, lpc>>
      BY <2>5 DEF EpollWait, LoopOnly
    <3>3. QED
      BY <3>1, <3>2 DEF main_vars, TypeOK
  <2>6. ASSUME NEW l \in Loops, ReadEventFd(l)
        PROVE  HandoverNoticed'
    BY <2>6 DEF ReadEventFd, LoopOnly, main_vars, TypeOK
  <2>7. ASSUME NEW l \in Loops, DrainAndAdopt(l)
        PROVE  HandoverNoticed'
    <3>1. fd_con_queue' = [fd_con_queue EXCEPT ![l] = <<>>]
      BY <2>7 DEF DrainAndAdopt
    <3>2. lpc' = [lpc EXCEPT ![l] = "dispatch"]
      BY <2>7 DEF DrainAndAdopt
    <3>3. UNCHANGED <<main_vars, efd_edge, batch_efd>>
      BY <2>7 DEF DrainAndAdopt, LoopOnly
    <3>4. QED
      BY <3>1, <3>2, <3>3 DEF main_vars, TypeOK
  <2>8. ASSUME NEW l \in Loops,
               \/ Erase(l)
               \/ \E fd \in Fds : \/ HandleRead(l, fd) \/ HandleReadEmptyFile(l, fd)
                                 \/ HandleWrite(l, fd) \/ HandleClose(l, fd)
        PROVE  HandoverNoticed'
    BY <2>8, HandlingKeepsHandover DEF main_vars
  <2>9. CASE UNCHANGED vars
    BY <2>9 DEF vars, main_vars, loop_vars
  <2>10. QED
    BY <2>1, <2>2, <2>3, <2>4, <2>5, <2>6, <2>7, <2>8, <2>9 DEF Next, Main, LoopRuns
<1>3. QED
  BY <1>1, <1>2, LoopTypeCorrect, PTL DEF Spec

-----------------------------------------------------------------------------
(* One loop per connection.                                                *)

\* A deleted object is in a map as long as the loop is about to erase it, and no
\* longer.
ErasedByItsLoop ==
  \A l \in Loops, fd \in Fds : map_fd_http[l][fd] = "deleted" <=> current[l] = fd

\* A process() that closes its connection, and then still uses it, answers a
\* request of an empty file.
NoStaleMod == EmptyFiles \/ \A l \in Loops : lpc[l] # "erase_mod"

\* What is armed and reported, against the answers to send.  The last mod() of
\* process() may arm a connection for EPOLLOUT that has none.
RightEvents == AnswerNotHeldBack /\ (EmptyFiles \/ AnswerBeforeWrite)

\* Where every connection is, for the threads and for the kernel, and which of
\* them have an answer to send.
LoopInvariant ==
  /\ OnePlace
  /\ NobodyForgotten
  /\ ErasedByItsLoop
  /\ RightEvents

\* A step that leaves the places of the connections alone.
LEMMA SamePlaces ==
  ASSUME OnePlace, ErasedByItsLoop,
         UNCHANGED <<open, connfd, fd_con_queue, map_fd_http, current>>
  PROVE  OnePlace' /\ ErasedByItsLoop'
BY DEF OnePlace, ErasedByItsLoop, Waiting, Serves, InSeq, Once

\* The kernel's view is that of before.
LEMMA SameInterest ==
  ASSUME NobodyForgotten, RightEvents, UNCHANGED <<map_fd_http, interest, batch, answering>>
  PROVE  NobodyForgotten' /\ RightEvents'
BY DEF NobodyForgotten, RightEvents, AnswerNotHeldBack, AnswerBeforeWrite, Serves, Armed

\* A descriptor that accept() returns is in no place.
LEMMA AcceptKeeps ==
  ASSUME TypeOK, LoopInvariant, NEW fd \in Fds, Accept(fd)
  PROVE  LoopInvariant'
<1>1. NobodyForgotten' /\ RightEvents'
  BY SameInterest DEF Accept, LoopInvariant, loop_vars, conn_vars
<1>2. ErasedByItsLoop'
  BY DEF Accept, LoopInvariant, ErasedByItsLoop, loop_vars, conn_vars
<1>3. /\ connfd = NoFd /\ connfd' = fd /\ fd # NoFd
      /\ fd \notin open /\ open' = open \union {fd}
      /\ UNCHANGED <<fd_con_queue, map_fd_http>>
  BY EventLoopAssumption DEF Accept, conn_vars, TypeOK
<1>4. \A l \in Loops, x \in Fds :
        /\ Waiting(l, x)' <=> Waiting(l, x)
        /\ Serves(l, x)' <=> Serves(l, x)
        /\ Once(fd_con_queue[l], x)' <=> Once(fd_con_queue[l], x)
  BY <1>3 DEF Waiting, Serves, InSeq, Once
<1>5. OnePlace'
  BY <1>3, <1>4, EventLoopAssumption DEF LoopInvariant, OnePlace
<1>6. QED
  BY <1>1, <1>2, <1>5 DEF LoopInvariant

\* Whose queue push_new_con() puts the connection into.
LEMMA PushMoves ==
  ASSUME TypeOK, PushNewCon, NEW l \in Loops, NEW x \in Fds
  PROVE  /\ Waiting(l, x)' <=> Waiting(l, x) \/ (l = disPatch_con_new /\ x = connfd)
         /\ Serves(l, x)' <=> Serves(l, x)
         /\ Once(fd_con_queue[l], x) /\ (x = connfd => ~Waiting(l, x))
              => Once(fd_con_queue[l], x)'
<1>1. /\ connfd \in Fds /\ UNCHANGED map_fd_http
      /\ fd_con_queue' = [fd_con_queue EXCEPT ![disPatch_con_new] = Append(@, connfd)]
      /\ fd_con_queue[l] \in Seq(Fds)
  BY DEF PushNewCon, Push, conn_vars, TypeOK
<1>2. CASE l = disPatch_con_new
  <2>1. fd_con_queue'[l] = Append(fd_con_queue[l], connfd)
    BY <1>1, <1>2 DEF TypeOK
  <2>2. InSeq(fd_con_queue'[l], x) <=> InSeq(fd_con_queue[l], x) \/ x = connfd
    BY <1>1, <2>1, InSeqAppend
  <2>3. Once(fd_con_queue[l], x) /\ (x = connfd => ~InSeq(fd_con_queue[l], x))
          => Once(fd_con_queue'[l], x)
    BY <1>1, <2>1, OnceAppend
  <2>4. QED
    BY <1>1, <1>2, <2>2, <2>3 DEF Waiting, Serves
<1>3. CASE l # disPatch_con_new
  BY <1>1, <1>3 DEF Waiting, Serves, TypeOK
<1>4. QED
  BY <1>2, <1>3

\* push_new_con() moves a connection from the main thread to one queue.
LEMMA PushKeeps ==
  ASSUME TypeOK, LoopInvariant, PushNewCon
  PROVE  LoopInvariant'
<1>1. NobodyForgotten' /\ RightEvents'
  BY SameInterest DEF PushNewCon, Push, LoopInvariant, loop_vars, conn_vars
<1>2. ErasedByItsLoop'
  BY DEF PushNewCon, Push, LoopInvariant, ErasedByItsLoop, loop_vars, conn_vars
<1> DEFINE index == disPatch_con_new
<1>3. index \in Loops
  BY DispatchedLoop DEF TypeOK
<1>4. connfd \in Fds /\ connfd' = NoFd /\ UNCHANGED open
  BY DEF PushNewCon, Push, TypeOK
<1>5. \A l \in Loops, x \in Fds :
        /\ Waiting(l, x)' <=> Waiting(l, x) \/ (l = index /\ x = connfd)
        /\ Serves(l, x)' <=> Serves(l, x)
  BY PushMoves
<1>6. \A l \in Loops, x \in Fds : Once(fd_con_queue[l], x)'
  BY PushMoves DEF LoopInvariant, OnePlace
<1> HIDE DEF index
<1>7. OnePlace'
  BY <1>3, <1>4, <1>5, <1>6, EventLoopAssumption DEF LoopInvariant, OnePlace
<1>8. QED
  BY <1>1, <1>2, <1>7 DEF LoopInvariant

\* Whom the loop adopts.
LEMMA DrainMoves ==
  ASSUME TypeOK, NEW l \in Loops, DrainAndAdopt(l), NEW k \in Loops, NEW x \in Fds
  PROVE  /\ Waiting(k, x)' <=> Waiting(k, x) /\ k # l
         /\ Serves(k, x)' <=> Serves(k, x) \/ (k = l /\ Waiting(k, x))
         /\ map_fd_http'[k][x]
              = IF k = l /\ Waiting(k, x) THEN "live" ELSE map_fd_http[k][x]
<1>1. /\ map_fd_http' = [map_fd_http EXCEPT
            ![l] = [fd \in Fds |-> IF Waiting(l, fd) THEN "live" ELSE @[fd]]]
      /\ fd_con_queue' = [fd_con_queue EXCEPT ![l] = <<>>]
  BY DEF DrainAndAdopt, Waiting
<1>2. map_fd_http'[k][x] = IF k = l /\ Waiting(k, x) THEN "live" ELSE map_fd_http[k][x]
  BY <1>1 DEF TypeOK
<1>3. Waiting(k, x)' <=> Waiting(k, x) /\ k # l
  <2>1. ~InSeq(<<>>, x)
    BY InSeqTypes
  <2>2. CASE k = l
    BY <1>1, <2>1, <2>2 DEF Waiting, TypeOK
  <2>3. CASE k # l
    BY <1>1, <2>3 DEF Waiting, TypeOK
  <2>4. QED
    BY <2>2, <2>3
<1>4. QED
  BY <1>2, <1>3 DEF Serves

\* The loop adopts all that it was handed.
LEMMA DrainKeeps ==
  ASSUME TypeOK, LoopInvariant, NEW l \in Loops, DrainAndAdopt(l)
  PROVE  LoopInvariant'
<1> USE DEF LoopInvariant
<1>1. /\ interest' = [interest EXCEPT ![l] = Adopted(@, fd_con_queue[l])]
      /\ answering' = {fd \in answering : ~Waiting(l, fd)}
      /\ fd_con_queue' = [fd_con_queue EXCEPT ![l] = <<>>]
      /\ lpc[l] = "drain" /\ UNCHANGED <<open, connfd, current, batch>>
  BY DEF DrainAndAdopt, Adopted, Waiting, LoopOnly, main_vars
<1>2. \A k \in Loops, x \in Fds :
        /\ Waiting(k, x)' <=> Waiting(k, x) /\ k # l
        /\ Serves(k, x)' <=> Serves(k, x) \/ (k = l /\ Waiting(k, x))
        /\ map_fd_http'[k][x]
             = IF k = l /\ Waiting(k, x) THEN "live" ELSE map_fd_http[k][x]
  BY DrainMoves
<1>3. \A k \in Loops, x \in Fds : Once(fd_con_queue[k], x)'
  <2>1. \A x : Once(<<>>, x)
    BY DEF Once
  <2>2. QED
    BY <1>1, <2>1 DEF OnePlace, TypeOK
<1>4. \A k \in Loops, x \in Fds :
        interest'[k][x]
          = IF k = l /\ Waiting(k, x) /\ interest[k][x] = "none" THEN "in" ELSE interest[k][x]
  BY <1>1, AdoptedInterest DEF Waiting, TypeOK
<1>5. OnePlace'
  BY <1>1, <1>2, <1>3 DEF OnePlace
<1>6. NobodyForgotten'
  BY <1>1, <1>2, <1>4 DEF NobodyForgotten, OnePlace, Armed
<1>7. ErasedByItsLoop'
  <2>1. current[l] = NoFd
    BY <1>1 DEF TypeOK
  <2>2. QED
    BY <1>1, <1>2, <2>1, EventLoopAssumption DEF ErasedByItsLoop
<1>8. RightEvents'
  <2> SUFFICES ASSUME NEW k \in Loops, NEW x \in Fds
               PROVE  /\ \/ EmptyFiles
                         \/ interest'[k][x] = "out" \/ batch'[k][x] = "out" => x \in answering'
                      /\ interest'[k][x] = "in" \/ batch'[k][x] = "in" => x \notin answering'
    BY DEF RightEvents, AnswerNotHeldBack, AnswerBeforeWrite
  <2>1. CASE Waiting(l, x)
    <3>1. ~Serves(k, x)
      BY <2>1 DEF OnePlace
    <3>2. batch[k][x] = "none" /\ interest[k][x] = "none"
      BY <3>1 DEF NobodyForgotten
    <3>3. QED
      BY <1>1, <1>4, <2>1, <3>2
  <2>2. CASE ~Waiting(l, x)
    BY <1>1, <1>4, <2>2 DEF RightEvents, AnswerNotHeldBack, AnswerBeforeWrite
  <2>3. QED
    BY <2>1, <2>2
<1>9. QED
  BY <1>5, <1>6, <1>7, <1>8

\* What epoll_wait() takes from the kernel is in the batch.
LEMMA EpollWaitKeeps ==
  ASSUME TypeOK, LoopInvariant, NEW l \in Loops, EpollWait(l)
  PROVE  LoopInvariant'
<1> USE DEF LoopInvariant
<1>1. OnePlace' /\ ErasedByItsLoop'
  BY SamePlaces DEF EpollWait, LoopOnly, main_vars
<1>2. PICK reported \in Reports(interest[l]) :
        /\ batch' = [batch EXCEPT ![l] = reported]
        /\ interest' = [interest EXCEPT ![l] = Disarm(@, reported)]
  BY DEF EpollWait
<1>3. batch[l] = NoEvents /\ UNCHANGED <<map_fd_http, answering>>
  BY DEF EpollWait, AtEpollWait
<1>4. \A x \in Fds :
        /\ batch[l][x] = "none"
        /\ batch'[l][x] # "none" => Armed(interest[l], x) /\ batch'[l][x] \in {interest[l][x], "hup"}
        /\ interest'[l][x] = IF batch'[l][x] = "none" THEN interest[l][x] ELSE "off"
  BY <1>2, <1>3, ReportTypes DEF TypeOK, NoEvents
<1>5. \A k \in Loops \ {l} : batch'[k] = batch[k] /\ interest'[k] = interest[k]
  BY <1>2 DEF TypeOK
<1>6. NobodyForgotten'
  BY <1>3, <1>4, <1>5 DEF NobodyForgotten, Serves, Armed
<1>7. RightEvents'
  BY <1>3, <1>4, <1>5 DEF RightEvents, AnswerNotHeldBack, AnswerBeforeWrite
<1>8. QED
  BY <1>1, <1>6, <1>7

\* A connection that the loop has dealt with is armed again, for EPOLLOUT if it has
\* an answer to send and for EPOLLIN if not.
LEMMA RearmKeeps ==
  ASSUME TypeOK, LoopInvariant, NEW l \in Loops, NEW fd \in Fds,
         NEW event \in Events \ {"none"}, Dispatch(l, fd, event),
         NEW ev \in {"in", "out"}, Rearm(l, fd, ev),
         \A x \in Fds \ {fd} : x \in answering' <=> x \in answering,
         fd \in answering' <=> ev = "out"
  PROVE  LoopInvariant'
<1> USE DEF LoopInvariant
<1>1. OnePlace' /\ ErasedByItsLoop'
  BY SamePlaces DEF Dispatch, Rearm, LoopOnly, main_vars
<1>2. batch[l][fd] # "none" /\ batch' = [batch EXCEPT ![l][fd] = "none"] /\ UNCHANGED map_fd_http
  BY DEF Dispatch, Rearm
<1>3. Serves(l, fd) /\ interest[l][fd] # "none"
  BY <1>2 DEF NobodyForgotten
<1>4. interest' = [interest EXCEPT ![l][fd] = ev]
  <2>1. Mod(interest[l], fd, ev) = [interest[l] EXCEPT ![fd] = ev]
    BY <1>3 DEF Mod
  <2>2. QED
    BY <2>1 DEF Rearm
<1>5. \A k \in Loops, x \in Fds :
        /\ interest'[k][x] = IF k = l /\ x = fd THEN ev ELSE interest[k][x]
        /\ batch'[k][x] = IF k = l /\ x = fd THEN "none" ELSE batch[k][x]
  BY <1>2, <1>4 DEF TypeOK, Interests, Batches
<1>6. NobodyForgotten'
  BY <1>2, <1>3, <1>5 DEF NobodyForgotten, Serves, Armed
<1>7. \A k \in Loops : Serves(k, fd) => k = l
  BY <1>3 DEF OnePlace
<1>8. \A k \in Loops : k # l => interest[k][fd] = "none" /\ batch[k][fd] = "none"
  BY <1>7 DEF NobodyForgotten
<1>9. RightEvents'
  BY <1>5, <1>8 DEF RightEvents, AnswerNotHeldBack, AnswerBeforeWrite
<1>10. QED
  BY <1>1, <1>6, <1>9

\* close_con() up to the deletion of the object takes the connection from every
\* place.
LEMMA CloseKeeps ==
  ASSUME TypeOK, LoopInvariant, NEW l \in Loops, NEW fd \in Fds,
         NEW event \in Events \ {"none"}, Dispatch(l, fd, event),
         NEW next \in LoopStates, CloseCon(l, fd, next)
  PROVE  LoopInvariant'
<1> USE DEF LoopInvariant
<1>1. /\ batch[l][fd] # "none" /\ lpc[l] = "dispatch"
      /\ batch' = [batch EXCEPT ![l][fd] = "none"]
      /\ UNCHANGED <<fd_con_queue, connfd>>
  BY DEF Dispatch, LoopOnly, main_vars
<1>2. /\ open' = open \ {fd} /\ answering' = answering \ {fd}
      /\ map_fd_http' = [map_fd_http EXCEPT ![l][fd] = "deleted"]
      /\ current' = [current EXCEPT ![l] = fd]
      /\ interest' = [interest EXCEPT ![l][fd] = "none"]
  BY InterestOperators DEF CloseCon, TypeOK
<1>3. Serves(l, fd)
  BY <1>1 DEF NobodyForgotten
<1>4. \A k \in Loops, x \in Fds :
        /\ Waiting(k, x)' <=> Waiting(k, x)
        /\ Once(fd_con_queue[k], x)' <=> Once(fd_con_queue[k], x)
        /\ Serves(k, x)' <=> Serves(k, x) /\ ~(k = l /\ x = fd)
        /\ map_fd_http'[k][x] = IF k = l /\ x = fd THEN "deleted" ELSE map_fd_http[k][x]
        /\ interest'[k][x] = IF k = l /\ x = fd THEN "none" ELSE interest[k][x]
        /\ batch'[k][x] = IF k = l /\ x = fd THEN "none" ELSE batch[k][x]
  BY <1>1, <1>2 DEF Waiting, Serves, InSeq, Once, TypeOK, Interests, Batches
<1>5. OnePlace'
  <2>1. connfd # fd /\ \A k \in Loops : ~Waiting(k, fd) /\ (Serves(k, fd) => k = l)
    BY <1>3 DEF OnePlace
  <2>2. QED
    BY <1>1, <1>2, <1>4, <2>1 DEF OnePlace
<1>6. NobodyForgotten'
  BY <1>4 DEF NobodyForgotten, Armed
<1>7. ErasedByItsLoop'
  <2>1. current[l] = NoFd
    BY <1>1 DEF TypeOK
  <2>2. \A k \in Loops : current'[k] = IF k = l THEN fd ELSE current[k]
    BY <1>2 DEF TypeOK
  <2>3. QED
    BY <1>4, <2>1, <2>2, EventLoopAssumption DEF ErasedByItsLoop
<1>8. RightEvents'
  <2>1. \A k \in Loops : k # l => ~Serves(k, fd)
    BY <1>3 DEF OnePlace
  <2>2. \A k \in Loops : k # l => interest[k][fd] = "none" /\ batch[k][fd] = "none"
    BY <2>1 DEF NobodyForgotten
  <2>3. QED
    BY <1>2, <1>4, <2>2 DEF RightEvents, AnswerNotHeldBack, AnswerBeforeWrite
<1>9. QED
  BY <1>5, <1>6, <1>7, <1>8

\* erase(it), and what process() does with the object it has deleted: a connection
\* that is registered stays so and is armed, and where it is not, mod() fails.
LEMMA EraseKeeps ==
  ASSUME TypeOK, LoopInvariant, NoStaleMod, NEW l \in Loops, Erase(l)
  PROVE  LoopInvariant'
<1> USE DEF LoopInvariant
<1>1. /\ current[l] \in Fds
      /\ map_fd_http' = [map_fd_http EXCEPT ![l][current[l]] = "none"]
      /\ current' = [current EXCEPT ![l] = NoFd]
      /\ UNCHANGED <<open, connfd, fd_con_queue, batch, answering>>
  BY DEF Erase, EraseTo, LoopOnly, main_vars, TypeOK
<1>2. map_fd_http[l][current[l]] = "deleted"
  BY <1>1 DEF ErasedByItsLoop
<1>3. \A k \in Loops, x \in Fds :
        /\ interest'[k][x] # interest[k][x] => EmptyFiles
        /\ interest'[k][x] = interest[k][x]
             \/ (interest[k][x] # "none" /\ interest'[k][x] = "out")
  <2>1. CASE UNCHANGED interest
    BY <2>1
  <2>2. CASE interest' # interest
    <3>1. lpc[l] = "erase_mod" /\ StaleMod(l)
      BY <2>2 DEF Erase, EraseTo
    <3>2. EmptyFiles
      BY <3>1 DEF NoStaleMod
    <3>3. PICK k \in Loops, fd \in Fds :
            interest' = [interest EXCEPT ![k] = Mod(interest[k], fd, "out")]
      BY <1>1, <2>2, <3>1, StaleModTargets
    <3>4. \A x \in Fds : \/ Mod(interest[k], fd, "out")[x] = interest[k][x]
                          \/ /\ interest[k][x] # "none"
                             /\ Mod(interest[k], fd, "out")[x] = "out"
      BY DEF Mod, TypeOK, Interests
    <3>5. QED
      BY <3>2, <3>3, <3>4 DEF TypeOK
  <2>3. QED
    BY <2>1, <2>2
<1>4. \A k \in Loops, x \in Fds :
        /\ Waiting(k, x)' <=> Waiting(k, x)
        /\ Once(fd_con_queue[k], x)' <=> Once(fd_con_queue[k], x)
        /\ Serves(k, x)' <=> Serves(k, x)
        /\ map_fd_http'[k][x]
             = IF k = l /\ x = current[l] THEN "none" ELSE map_fd_http[k][x]
  BY <1>1, <1>2 DEF Waiting, Serves, InSeq, Once, TypeOK
<1>5. OnePlace'
  BY <1>1, <1>4 DEF OnePlace
<1>6. NobodyForgotten'
  BY <1>1, <1>3, <1>4 DEF NobodyForgotten, Armed
<1>7. ErasedByItsLoop'
  <2>1. \A k \in Loops : current'[k] = IF k = l THEN NoFd ELSE current[k]
    BY <1>1 DEF TypeOK
  <2>2. QED
    BY <1>4, <2>1, EventLoopAssumption DEF ErasedByItsLoop
<1>8. RightEvents'
  BY <1>1, <1>3 DEF RightEvents, AnswerNotHeldBack, AnswerBeforeWrite
<1>9. QED
  BY <1>5, <1>6, <1>7, <1>8

\* No other step gets a loop to that mod().
LEMMA NoStaleModHolds == Spec => []NoStaleMod
<1>1. Init => NoStaleMod
  BY DEF Init, NoStaleMod
<1>2. TypeOK /\ NoStaleMod /\ [Next]_vars => NoStaleMod'
  <2> SUFFICES ASSUME TypeOK, NoStaleMod, [Next]_vars, ~EmptyFiles
               PROVE  \A l \in Loops : lpc'[l] # "erase_mod"
    BY DEF NoStaleMod
  <2>1. \/ UNCHANGED lpc
        \/ \E l \in Loops, s \in LoopStates \ {"erase_mod"} : lpc' = [lpc EXCEPT ![l] = s]
    <3>1. CASE Connect \/ Main
      BY <3>1 DEF Connect, Main, MainEpollWait, AcceptFails, PushNewCon, Push, Notify,
                  WriteEventFd, Accept, loop_vars
    <3>2. ASSUME NEW l \in Loops, EpollWait(l) \/ ReadEventFd(l) \/ DrainAndAdopt(l) \/ Erase(l)
          PROVE  UNCHANGED lpc \/ \E s \in LoopStates \ {"erase_mod"} : lpc' = [lpc EXCEPT ![l] = s]
      BY <3>2 DEF EpollWait, ReadEventFd, DrainAndAdopt, Erase, EraseTo, LoopStates
    <3>3. ASSUME NEW l \in Loops, NEW fd \in Fds,
                 \/ HandleRead(l, fd) \/ HandleReadEmptyFile(l, fd)
                 \/ HandleWrite(l, fd) \/ HandleClose(l, fd)
          PROVE  UNCHANGED lpc \/ \E s \in LoopStates \ {"erase_mod"} : lpc' = [lpc EXCEPT ![l] = s]
      BY <3>3 DEF HandleRead, HandleReadEmptyFile, HandleWrite, WriteBlocks, HandleClose, Rearm,
                  CloseCon, LoopStates
    <3>4. CASE UNCHANGED vars
      BY <3>4 DEF vars, loop_vars
    <3>5. QED
      BY <3>1, <3>2, <3>3, <3>4 DEF Next, LoopRuns
  <2>2. QED
    BY <2>1 DEF NoStaleMod, TypeOK
<1>3. QED
  BY <1>1, <1>2, LoopTypeCorrect, PTL DEF Spec

\* All places of a connection agree at every step of every thread.
THEOREM LoopInvariantHolds == Spec => []LoopInvariant
<1>1. Init => LoopInvariant
  <2> SUFFICES ASSUME Init
               PROVE  LoopInvariant
    OBVIOUS
  <2>1. /\ open = {} /\ connfd = NoFd /\ answering = {}
        /\ \A l \in Loops :
             /\ fd_con_queue[l] = <<>> /\ current[l] = NoFd
             /\ \A fd \in Fds :
                  /\ map_fd_http[l][fd] = "none" /\ interest[l][fd] = "none"
                  /\ batch[l][fd] = "none"
    BY DEF Init, NoInterest, NoEvents
  <2>2. \A l \in Loops, fd \in Fds :
          ~Waiting(l, fd) /\ ~Serves(l, fd) /\ Once(fd_con_queue[l], fd)
    BY <2>1 DEF Waiting, Serves, InSeq, Once
  <2>3. OnePlace
    BY <2>1, <2>2, EventLoopAssumption DEF OnePlace
  <2>4. NobodyForgotten /\ ErasedByItsLoop /\ RightEvents
    BY <2>1, <2>2, EventLoopAssumption
    DEF NobodyForgotten, ErasedByItsLoop, RightEvents, AnswerNotHeldBack, AnswerBeforeWrite, Armed
  <2>5. QED
    BY <2>3, <2>4 DEF LoopInvariant
<1>2. TypeOK /\ NoStaleMod /\ LoopInvariant /\ [Next]_vars => LoopInvariant'
  <2> SUFFICES ASSUME TypeOK, NoStaleMod, LoopInvariant, [Next]_vars
               PROVE  LoopInvariant'
    OBVIOUS
  <2>1. CASE UNCHANGED <<open, connfd, fd_con_queue, current, batch, conn_vars>>
    BY <2>1, SamePlaces, SameInterest DEF LoopInvariant, conn_vars
  <2>2. CASE Connect \/ MainEpollWait \/ AcceptFails \/ Notify
    BY <2>1, <2>2
    DEF Connect, MainEpollWait, AcceptFails, Notify, WriteEventFd, main_vars, loop_vars
  <2>3. ASSUME NEW fd \in Fds, Accept(fd)
        PROVE  LoopInvariant'
    BY <2>3, AcceptKeeps
  <2>4. CASE PushNewCon
    BY <2>4, PushKeeps
  <2>5. ASSUME NEW l \in Loops, EpollWait(l)
        PROVE  LoopInvariant'
    BY <2>5, EpollWaitKeeps
  <2>6. ASSUME NEW l \in Loops, ReadEventFd(l)
        PROVE  LoopInvariant'
    BY <2>1, <2>6 DEF ReadEventFd, LoopOnly, main_vars
  <2>7. ASSUME NEW l \in Loops, DrainAndAdopt(l)
        PROVE  LoopInvariant'
    BY <2>7, DrainKeeps
  <2>8. ASSUME NEW l \in Loops, NEW fd \in Fds, HandleRead(l, fd)
        PROVE  LoopInvariant'
    <3>1. Dispatch(l, fd, "in") /\ fd \notin answering
      BY <2>8 DEF HandleRead, Dispatch, LoopInvariant, RightEvents, AnswerNotHeldBack
    <3>2. CASE Rearm(l, fd, "in") /\ UNCHANGED answering
      BY <3>1, <3>2, RearmKeeps DEF Events
    <3>3. CASE Rearm(l, fd, "out") /\ answering' = answering \union {fd}
      BY <3>1, <3>3, RearmKeeps DEF Events
    <3>4. QED
      BY <2>8, <3>2, <3>3 DEF HandleRead
  <2>9. ASSUME NEW l \in Loops, NEW fd \in Fds, HandleWrite(l, fd)
        PROVE  LoopInvariant'
    <3>1. Dispatch(l, fd, "out")
      BY <2>9 DEF HandleWrite
    <3>2. CASE WriteBlocks(l, fd)
      BY <3>1, <3>2, RearmKeeps DEF WriteBlocks, Events
    <3>3. CASE Rearm(l, fd, "in") /\ answering' = answering \ {fd}
      BY <3>1, <3>3, RearmKeeps DEF Events
    <3>4. QED
      BY <2>9, <3>2, <3>3 DEF HandleWrite
  <2>10. ASSUME NEW l \in Loops, NEW fd \in Fds, HandleReadEmptyFile(l, fd) \/ HandleClose(l, fd)
         PROVE  LoopInvariant'
    BY <2>10, CloseKeeps DEF HandleReadEmptyFile, HandleClose, Events, LoopStates
  <2>11. ASSUME NEW l \in Loops, Erase(l)
         PROVE  LoopInvariant'
    BY <2>11, EraseKeeps
  <2>12. CASE UNCHANGED vars
    BY <2>1, <2>12 DEF vars, main_vars, loop_vars
  <2>13. QED
    BY <2>2, <2>3, <2>4, <2>5, <2>6, <2>7, <2>8, <2>9, <2>10, <2>11, <2>12
    DEF Next, Main, LoopRuns
<1>3. QED
  BY <1>1, <1>2, LoopTypeCorrect, NoStaleModHolds, PTL DEF Spec

\* An accepted descriptor is with the main thread, in one queue or in one map, so
\* that the loops need no lock on their maps.
THEOREM ConnectionsInOnePlace == Spec => []OnePlace
BY LoopInvariantHolds, PTL DEF LoopInvariant

\* A connection that is served is armed in the epoll instance of its loop or in
\* the loop's batch.
THEOREM LoopForgetsNobody == Spec => []NobodyForgotten
BY LoopInvariantHolds, PTL DEF LoopInvariant

\* A connection that has an answer to send does not wait for a request, whatever
\* the last mod() of process() arms.
THEOREM LoopSendsAnswers == Spec => []AnswerNotHeldBack
BY LoopInvariantHolds, PTL DEF LoopInvariant, RightEvents

\* Where no process() closes its connection, one that waits for EPOLLOUT has an
\* answer to send.
THEOREM LoopAnswersFirst ==
  ASSUME ~EmptyFiles
  PROVE  Spec => []AnswerBeforeWrite
<1>1. LoopInvariant => AnswerBeforeWrite
  BY DEF LoopInvariant, RightEvents
<1>2. QED
  BY <1>1, LoopInvariantHolds, PTL

\* No assertion of loop() fails, although the main thread accepts a descriptor
\* again before close_con() has erased it.
THEOREM LoopAssertionsHold == Spec => []AssertionsHold
<1>1. TypeOK /\ LoopInvariant => AssertionsHold
  <2> SUFFICES ASSUME TypeOK, LoopInvariant
               PROVE  AssertionsHold
    OBVIOUS
  <2> USE DEF LoopInvariant
  <2>1. ASSUME NEW l \in Loops, lpc[l] = "drain", NEW fd \in Fds, Waiting(l, fd)
        PROVE  map_fd_http[l][fd] = "none"
    <3>1. map_fd_http[l][fd] # "live"
      BY <2>1 DEF OnePlace, Serves
    <3>2. current[l] = NoFd
      BY <2>1 DEF TypeOK
    <3>3. map_fd_http[l][fd] # "deleted"
      BY <2>1, <3>2, EventLoopAssumption DEF ErasedByItsLoop
    <3>4. map_fd_http[l][fd] \in Objects
      BY DEF TypeOK
    <3>5. QED
      BY <3>1, <3>3, <3>4 DEF Objects
  <2>2. ASSUME NEW l \in Loops, NEW fd \in Fds, batch[l][fd] \in {"in", "out"}
        PROVE  map_fd_http[l][fd] # "none"
    BY <2>2 DEF NobodyForgotten, Serves
  <2>3. QED
    BY <2>1, <2>2 DEF AssertionsHold
<1>2. QED
  BY <1>1, LoopTypeCorrect, LoopInvariantHolds, PTL

-----------------------------------------------------------------------------
(* The event loops keep the promise of Handoff.                            *)

\* A connection is at the abstract place where the queues, the maps and the main
\* thread say that it is.
PlaceIsSeen ==
  \A fd \in Fds :
    /\ fd \notin open <=> Place[fd] = Abstract!Free
    /\ connfd = fd <=> Place[fd] = Abstract!Accepted
    /\ \A l \in Loops :
         /\ Waiting(l, fd) <=> Place[fd] = Abstract!Queued(l)
         /\ Serves(l, fd) <=> Place[fd] = Abstract!Served(l)

\* The abstract places are different ones.
LEMMA PlacesDiffer ==
  /\ Abstract!Free # Abstract!Accepted
  /\ \A l : /\ Abstract!Queued(l) \notin {Abstract!Free, Abstract!Accepted}
            /\ Abstract!Served(l) \notin {Abstract!Free, Abstract!Accepted}
  /\ \A k, l : /\ Abstract!Queued(k) # Abstract!Served(l)
               /\ Abstract!Queued(k) = Abstract!Queued(l) => k = l
               /\ Abstract!Served(k) = Abstract!Served(l) => k = l
BY DEF Abstract!Free, Abstract!Accepted, Abstract!Queued, Abstract!Served

\* The mapping is well defined because no connection is in two places.
LEMMA PlaceWellDefined == OnePlace => PlaceIsSeen
<1> SUFFICES ASSUME OnePlace, NEW fd \in Fds
             PROVE  /\ fd \notin open <=> Place[fd] = Abstract!Free
                    /\ connfd = fd <=> Place[fd] = Abstract!Accepted
                    /\ \A l \in Loops :
                         /\ Waiting(l, fd) <=> Place[fd] = Abstract!Queued(l)
                         /\ Serves(l, fd) <=> Place[fd] = Abstract!Served(l)
  BY DEF PlaceIsSeen
<1> USE PlacesDiffer
<1>1. CASE fd \notin open
  <2>1. Place[fd] = Abstract!Free
    BY <1>1 DEF Place, Abstract!Free
  <2>2. connfd # fd /\ \A l \in Loops : ~Waiting(l, fd) /\ ~Serves(l, fd)
    BY <1>1 DEF OnePlace
  <2>3. QED
    BY <1>1, <2>1, <2>2
<1>2. CASE fd \in open /\ connfd = fd
  <2>1. Place[fd] = Abstract!Accepted
    BY <1>2 DEF Place, Abstract!Accepted
  <2>2. \A l \in Loops : ~Waiting(l, fd) /\ ~Serves(l, fd)
    BY <1>2 DEF OnePlace
  <2>3. QED
    BY <1>2, <2>1, <2>2
<1>3. ASSUME fd \in open, connfd # fd, NEW k \in Loops, Serves(k, fd)
      PROVE  /\ Place[fd] = Abstract!Served(k)
             /\ \A l \in Loops : ~Waiting(l, fd) /\ (Serves(l, fd) <=> l = k)
  <2>1. \A l \in Loops : ~Waiting(l, fd) /\ (Serves(l, fd) <=> l = k)
    BY <1>3 DEF OnePlace
  <2>2. (CHOOSE l \in Loops : Serves(l, fd)) = k
    BY <1>3, <2>1
  <2>3. Place[fd] = Abstract!Served(CHOOSE l \in Loops : Serves(l, fd))
    BY <1>3 DEF Place, Abstract!Served
  <2>4. QED
    BY <2>1, <2>2, <2>3
<1>4. ASSUME fd \in open, connfd # fd, NEW k \in Loops, Waiting(k, fd)
      PROVE  /\ Place[fd] = Abstract!Queued(k)
             /\ \A l \in Loops : ~Serves(l, fd) /\ (Waiting(l, fd) <=> l = k)
  <2>1. \A l \in Loops : ~Serves(l, fd) /\ (Waiting(l, fd) <=> l = k)
    BY <1>4 DEF OnePlace
  <2>2. (CHOOSE l \in Loops : Waiting(l, fd)) = k
    BY <1>4, <2>1
  <2>3. Place[fd] = Abstract!Queued(CHOOSE l \in Loops : Waiting(l, fd))
    BY <1>4, <2>1 DEF Place, Abstract!Queued
  <2>4. QED
    BY <2>1, <2>2, <2>3
<1>5. fd \in open => connfd = fd \/ \E l \in Loops : Waiting(l, fd) \/ Serves(l, fd)
  BY DEF OnePlace
<1>6. QED
  BY <1>1, <1>2, <1>3, <1>4, <1>5

\* Where queues and maps say the same of a connection before and after a step, it
\* has not moved.
LEMMA SamePlace ==
  ASSUME OnePlace, PlaceIsSeen, PlaceIsSeen', NEW fd \in Fds,
         fd \in open' <=> fd \in open, connfd' = fd <=> connfd = fd,
         \A l \in Loops : /\ Waiting(l, fd)' <=> Waiting(l, fd)
                          /\ Serves(l, fd)' <=> Serves(l, fd)
  PROVE  Place'[fd] = Place[fd]
<1>1. fd \in open => connfd = fd \/ \E l \in Loops : Waiting(l, fd) \/ Serves(l, fd)
  BY DEF OnePlace
<1>2. QED
  BY <1>1 DEF PlaceIsSeen, Abstract!Free, Abstract!Accepted, Abstract!Queued, Abstract!Served

\* A step that moves one connection only.
LEMMA MovesOne ==
  ASSUME NEW fd \in Fds, NEW to, Place'[fd] = to,
         \A x \in Fds \ {fd} : Place'[x] = Place[x]
  PROVE  Place' = [Place EXCEPT ![fd] = to]
<1>1. Place = [x \in Fds |-> Place[x]] /\ Place' = [x \in Fds |-> Place'[x]]
  BY DEF Place
<1>2. QED
  BY <1>1

\* Every step of the main thread and the loops is one of Handoff or changes no
\* place.
LEMMA StepImplementsHandoff ==
  ASSUME TypeOK, LoopInvariant, PlaceIsSeen, PlaceIsSeen', [Next]_vars
  PROVE  Abstract!Next \/ UNCHANGED Place
<1> USE DEF LoopInvariant
<1>1. ASSUME UNCHANGED <<open, connfd, fd_con_queue>>,
             \A l \in Loops, fd \in Fds : Serves(l, fd)' <=> Serves(l, fd)
      PROVE  UNCHANGED Place
  <2>1. \A l \in Loops, fd \in Fds : Waiting(l, fd)' <=> Waiting(l, fd)
    BY <1>1 DEF Waiting
  <2>2. \A fd \in Fds : Place'[fd] = Place[fd]
    BY <1>1, <2>1, SamePlace
  <2>3. Place = [x \in Fds |-> Place[x]] /\ Place' = [x \in Fds |-> Place'[x]]
    BY DEF Place
  <2>4. QED
    BY <2>2, <2>3
<1>2. ASSUME UNCHANGED <<open, connfd, fd_con_queue, map_fd_http>>
      PROVE  UNCHANGED Place
  BY <1>1, <1>2 DEF Serves
<1>3. CASE Connect \/ MainEpollWait \/ AcceptFails \/ Notify
  BY <1>2, <1>3
  DEF Connect, MainEpollWait, AcceptFails, Notify, WriteEventFd, main_vars, conn_vars
<1>4. ASSUME NEW fd \in Fds, Accept(fd)
      PROVE  Abstract!Accept(fd)
  <2>1. /\ connfd = NoFd /\ connfd' = fd /\ fd # NoFd
        /\ fd \notin open /\ open' = open \union {fd}
        /\ UNCHANGED <<fd_con_queue, map_fd_http>>
    BY <1>4, EventLoopAssumption DEF Accept, conn_vars, TypeOK
  <2>2. \A l \in Loops, x \in Fds :
          (Waiting(l, x)' <=> Waiting(l, x)) /\ (Serves(l, x)' <=> Serves(l, x))
    BY <2>1 DEF Waiting, Serves
  <2>3. \A x \in Fds \ {fd} : Place'[x] = Place[x]
    BY <2>1, <2>2, SamePlace, EventLoopAssumption
  <2>4. Place'[fd] = Abstract!Accepted
    BY <2>1 DEF PlaceIsSeen, Abstract!Accepted
  <2>5. Place[fd] = Abstract!Free /\ \A x \in Fds : Place[x] # Abstract!Accepted
    BY <2>1, EventLoopAssumption DEF PlaceIsSeen
  <2>6. QED
    BY <2>3, <2>4, <2>5, MovesOne DEF Abstract!Accept, Abstract!Move
<1>5. ASSUME PushNewCon
      PROVE  Abstract!Next
  <2> DEFINE index == disPatch_con_new
  <2>1. index \in Loops
    BY DispatchedLoop DEF TypeOK
  <2>2. /\ connfd \in Fds /\ connfd' = NoFd /\ UNCHANGED <<open, map_fd_http>>
        /\ fd_con_queue' = [fd_con_queue EXCEPT ![index] = Append(@, connfd)]
    BY <1>5 DEF PushNewCon, Push, conn_vars, TypeOK
  <2>3. \A l \in Loops, x \in Fds :
          /\ Waiting(l, x)' <=> Waiting(l, x) \/ (l = index /\ x = connfd)
          /\ Serves(l, x)' <=> Serves(l, x)
    BY <1>5, PushMoves
  <2> HIDE DEF index
  <2>4. \A x \in Fds \ {connfd} : Place'[x] = Place[x]
    BY <2>2, <2>3, SamePlace, EventLoopAssumption
  <2>5. Place'[connfd] = Abstract!Queued(index) /\ Place[connfd] = Abstract!Accepted
    BY <2>1, <2>2, <2>3 DEF PlaceIsSeen, Abstract!Queued, Abstract!Accepted
  <2>6. Abstract!Give(connfd, index)
    BY <2>2, <2>4, <2>5, MovesOne DEF Abstract!Give, Abstract!Move
  <2>7. QED
    BY <2>1, <2>2, <2>6 DEF Abstract!Next
<1>6. ASSUME NEW l \in Loops, DrainAndAdopt(l)
      PROVE  Abstract!Adopt(l) \/ UNCHANGED Place
  <2>1. /\ UNCHANGED <<open, connfd>>
        /\ \A k \in Loops, x \in Fds :
             /\ Waiting(k, x)' <=> Waiting(k, x) /\ k # l
             /\ Serves(k, x)' <=> Serves(k, x) \/ (k = l /\ Waiting(k, x))
    BY <1>6, DrainMoves DEF DrainAndAdopt, LoopOnly, main_vars
  <2>2. ASSUME NEW x \in Fds
        PROVE  Place'[x] = IF Place[x] = Abstract!Queued(l) THEN Abstract!Served(l) ELSE Place[x]
    <3>1. CASE Waiting(l, x)
      BY <2>1, <3>1 DEF PlaceIsSeen, Abstract!Queued, Abstract!Served
    <3>2. CASE ~Waiting(l, x)
      <4>1. Place[x] # Abstract!Queued(l)
        BY <3>2 DEF PlaceIsSeen, Abstract!Queued
      <4>2. \A k \in Loops : (Waiting(k, x)' <=> Waiting(k, x)) /\ (Serves(k, x)' <=> Serves(k, x))
        BY <2>1, <3>2
      <4>3. Place'[x] = Place[x]
        BY <2>1, <4>2, SamePlace
      <4>4. QED
        BY <4>1, <4>3
    <3>3. QED
      BY <3>1, <3>2
  <2>3. Place = [x \in Fds |-> Place[x]] /\ Place' = [x \in Fds |-> Place'[x]]
    BY DEF Place
  <2>4. CASE \E x \in Fds : Place[x] = Abstract!Queued(l)
    BY <2>2, <2>3, <2>4 DEF Abstract!Adopt
  <2>5. CASE ~\E x \in Fds : Place[x] = Abstract!Queued(l)
    BY <2>2, <2>3, <2>5
  <2>6. QED
    BY <2>4, <2>5
<1>7. ASSUME NEW l \in Loops, NEW fd \in Fds, NEW event \in Events \ {"none"},
             Dispatch(l, fd, event), NEW next, CloseCon(l, fd, next)
      PROVE  Abstract!Close(fd, l)
  <2>1. Serves(l, fd)
    BY <1>7 DEF Dispatch, NobodyForgotten
  <2>2. /\ UNCHANGED <<fd_con_queue, connfd>> /\ open' = open \ {fd}
        /\ map_fd_http' = [map_fd_http EXCEPT ![l][fd] = "deleted"]
    BY <1>7 DEF Dispatch, CloseCon, LoopOnly, main_vars
  <2>3. \A k \in Loops, x \in Fds \ {fd} :
          (Waiting(k, x)' <=> Waiting(k, x)) /\ (Serves(k, x)' <=> Serves(k, x))
    BY <2>2 DEF Waiting, Serves, TypeOK
  <2>4. \A x \in Fds \ {fd} : Place'[x] = Place[x]
    BY <2>2, <2>3, SamePlace
  <2>5. Place'[fd] = Abstract!Free /\ Place[fd] = Abstract!Served(l)
    BY <2>1, <2>2 DEF PlaceIsSeen, Abstract!Free, Abstract!Served
  <2>6. QED
    BY <2>4, <2>5, MovesOne DEF Abstract!Close, Abstract!Move
<1>8. ASSUME NEW l \in Loops, NEW fd \in Fds, HandleReadEmptyFile(l, fd) \/ HandleClose(l, fd)
      PROVE  Abstract!Close(fd, l)
  BY <1>7, <1>8 DEF HandleReadEmptyFile, HandleClose, Events
<1>9. ASSUME NEW l \in Loops,
             \/ EpollWait(l) \/ ReadEventFd(l)
             \/ \E fd \in Fds : HandleRead(l, fd) \/ HandleWrite(l, fd)
      PROVE  UNCHANGED Place
  <2>1. CASE EpollWait(l) \/ ReadEventFd(l)
    BY <1>2, <2>1 DEF EpollWait, ReadEventFd, LoopOnly, main_vars, conn_vars
  <2>2. ASSUME NEW fd \in Fds, HandleRead(l, fd) \/ HandleWrite(l, fd)
        PROVE  UNCHANGED <<open, connfd, fd_con_queue, map_fd_http>>
    BY <2>2 DEF HandleRead, HandleWrite, WriteBlocks, Rearm, Dispatch, LoopOnly, main_vars
  <2>3. QED
    BY <1>2, <1>9, <2>1, <2>2
<1>10. ASSUME NEW l \in Loops, Erase(l)
       PROVE  UNCHANGED Place
  <2>1. map_fd_http[l][current[l]] = "deleted" /\ current[l] \in Fds
    BY <1>10 DEF Erase, EraseTo, TypeOK, ErasedByItsLoop
  <2>2. \A k \in Loops, fd \in Fds : Serves(k, fd)' <=> Serves(k, fd)
    BY <1>10, <2>1 DEF Erase, EraseTo, Serves, TypeOK
  <2>3. QED
    BY <1>1, <1>10, <2>2 DEF Erase, EraseTo, LoopOnly, main_vars
<1>11. CASE UNCHANGED vars
  BY <1>2, <1>11 DEF vars, main_vars, conn_vars
<1>12. QED
  BY <1>3, <1>4, <1>5, <1>6, <1>8, <1>9, <1>10, <1>11
  DEF Next, Main, LoopRuns, Abstract!Next

\* The main thread and the loops, with their queues, eventfds and epoll instances,
\* hand every connection to one loop, which alone serves and closes it.
THEOREM LoopsImplementHandoff == Spec => ImplementsHandoff
<1>1. Init => Abstract!Init
  <2>1. Init => \A fd \in Fds : fd \notin open
    BY DEF Init
  <2>2. QED
    BY <2>1 DEF Abstract!Init, Abstract!Free, Place
<1>2. /\ TypeOK /\ LoopInvariant /\ PlaceIsSeen /\ PlaceIsSeen' /\ [Next]_vars
      => [Abstract!Next]_Place
  BY StepImplementsHandoff DEF LoopInvariant
<1>3. LoopInvariant => PlaceIsSeen
  BY PlaceWellDefined DEF LoopInvariant
<1>4. QED
  BY <1>1, <1>2, <1>3, LoopTypeCorrect, LoopInvariantHolds, PTL
  DEF Spec, ImplementsHandoff, Abstract!Spec

=============================================================================
