\* Three connections, two workers, a queue of one; no file of size 0.
CONSTANTS
  Fds = {f1, f2, f3}
  NoFd = NoFd
  Workers = {w1, w2}
  MaxRequests = 1
  MaxBacklog = 2
  EmptyFiles = FALSE
SPECIFICATION FairSpec
INVARIANTS
  TypeOK
  Exclusive
  NobodyForgotten
  SocketOfConn
  AnswerBeforeWrite
PROPERTIES
  RequestsReturn
\* The server may stop: once accept() has failed for want of descriptors and
\* the backlog is full, no client makes an event any more.
CHECK_DEADLOCK FALSE
