-------------------------------- MODULE Epoll --------------------------------
(***************************************************************************)
(* The interest list of an epoll instance, as the two servers use it: every *)
(* connection is registered edge-triggered and one-shot.  A registration is *)
(*                                                                         *)
(*   "none"        the descriptor is not in the list                       *)
(*   "off"         in the list, disarmed by EPOLLONESHOT                   *)
(*   "in", "out"   in the list, armed for EPOLLIN or EPOLLOUT              *)
(*                                                                         *)
(* Arming checks the readiness of the descriptor in the kernel, so no      *)
(* readiness is lost while a descriptor is disarmed; when a peer sends,    *)
(* drains or hangs up is up to the peer, so an armed descriptor may report *)
(* at any time.  The listening socket and the eventfds, which are not      *)
(* one-shot, are kept by the modules that own them.                        *)
(***************************************************************************)
EXTENDS Integers

CONSTANT Fds   \* the descriptors accept() may return

Registrations == {"none", "off", "in", "out"}

\* What the if-else chain over events[i].events makes of an event.
Events == {"none", "in", "out", "hup"}

Interests == [Fds -> Registrations]
Batches == [Fds -> Events]

NoInterest == [fd \in Fds |-> "none"]
NoEvents == [fd \in Fds |-> "none"]

Armed(interest, fd) == interest[fd] \in {"in", "out"}

\* EPOLL_CTL_ADD fails with EEXIST when the descriptor is in the list.
Add(interest, fd) ==
  IF interest[fd] = "none" THEN [interest EXCEPT ![fd] = "in"] ELSE interest

\* EPOLL_CTL_MOD fails with ENOENT when it is not, with EBADF for -1.
Mod(interest, fd, ev) ==
  IF fd \in Fds /\ interest[fd] # "none"
  THEN [interest EXCEPT ![fd] = ev]
  ELSE interest

\* EPOLL_CTL_DEL; closing the last descriptor of a socket does the same.
Del(interest, fd) == [interest EXCEPT ![fd] = "none"]

\* What epoll_wait() may report: for an armed descriptor the event it is armed
\* for, or an error or hang-up, which is always reported.
Reports(interest) ==
  {batch \in Batches :
     \A fd \in Fds :
       batch[fd] # "none" => Armed(interest, fd) /\ batch[fd] \in {interest[fd], "hup"}}

\* Mutant of Disarm: registered without EPOLLONESHOT.
DisarmNothing(interest, batch) == interest

\* EPOLLONESHOT disarms what is reported.
Disarm(interest, batch) ==
  [fd \in Fds |-> IF batch[fd] = "none" THEN interest[fd] ELSE "off"]

=============================================================================
