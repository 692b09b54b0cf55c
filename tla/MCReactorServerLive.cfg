\* One descriptor that is reused, two workers, files of size 0: the main loop
\* goes on although exclusivity is lost.
CONSTANTS
  Fds = {f1}
  NoFd = NoFd
  Workers = {w1, w2}
  MaxRequests = 1
  MaxBacklog = 1
  EmptyFiles = TRUE
SPECIFICATION FairSpec
PROPERTIES
  MainReturns
\* The server may stop: once accept() has failed for want of descriptors and
\* the backlog is full, no client makes an event any more.
CHECK_DEADLOCK FALSE
