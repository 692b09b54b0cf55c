\* A worker closes a connection while the main thread accepts.
CONSTANTS
  Fds = {f1, f2}
  NoFd = NoFd
  Workers = {w1}
  MaxRequests = 1
  MaxBacklog = 1
  EmptyFiles = TRUE
SPECIFICATION Spec
INVARIANT
  SocketOfConn
\* The server may stop: once accept() has failed for want of descriptors and
\* the backlog is full, no client makes an event any more.
CHECK_DEADLOCK FALSE
