\* Two connections arrive before the main thread looks.
CONSTANTS
  Fds = {f1, f2}
  NoFd = NoFd
  Workers = {w1}
  MaxRequests = 1
  MaxBacklog = 2
  EmptyFiles = FALSE
SPECIFICATION Spec
INVARIANT
  PendingNoticed
\* The server may stop: once accept() has failed for want of descriptors and
\* the backlog is full, no client makes an event any more.
CHECK_DEADLOCK FALSE
