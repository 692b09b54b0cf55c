\* One loop that is handed two connections, also while it drains its queue, by
\* clients that connect together, and no process() that closes its connection.
CONSTANTS
  Fds = {f1, f2}
  NoFd = NoFd
  NLoops = 1
  MaxBacklog = 2
  EmptyFiles = FALSE
SPECIFICATION FairSpec
INVARIANTS
  AnswerBeforeWrite
  PendingNoticed
PROPERTIES
  AcceptedIsServed
\* The server may stop: once accept() has failed for want of descriptors and
\* the backlog is full, no client makes an event any more.
CHECK_DEADLOCK FALSE
