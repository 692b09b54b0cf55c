------------------------------- MODULE Handoff -------------------------------
(***************************************************************************)
(* What "one event loop per thread" promises: a connection is accepted by  *)
(* the main thread, given to one loop, and from then on served and closed  *)
(* by that loop alone; only a closed descriptor is accepted again.  Queues, *)
(* eventfds and epoll instances are not visible at this level.             *)
(*                                                                         *)
(* EventLoop.tla implements this specification.                            *)
(***************************************************************************)

CONSTANTS Fds, Loops

VARIABLE place   \* where the connection with each descriptor is

Free == <<"free">>
Accepted == <<"accepted">>
Queued(l) == <<"queued", l>>
Served(l) == <<"served", l>>

Init == place = [fd \in Fds |-> Free]

Move(fd, from, to) ==
  /\ place[fd] = from
  /\ place' = [place EXCEPT ![fd] = to]

\* One connection at a time is in the main thread's hands.
Accept(fd) == (\A other \in Fds : place[other] # Accepted) /\ Move(fd, Free, Accepted)

Give(fd, l) == Move(fd, Accepted, Queued(l))

\* A loop adopts all that it was given so far.
Adopt(l) ==
  /\ \E fd \in Fds : place[fd] = Queued(l)
  /\ place' = [fd \in Fds |-> IF place[fd] = Queued(l) THEN Served(l) ELSE place[fd]]

Close(fd, l) == Move(fd, Served(l), Free)

Next ==
  \/ \E fd \in Fds : Accept(fd)
  \/ \E l \in Loops : Adopt(l) \/ \E fd \in Fds : Give(fd, l) \/ Close(fd, l)

Spec == Init /\ [][Next]_place

=============================================================================
