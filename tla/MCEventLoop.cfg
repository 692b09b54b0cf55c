\* Two loops and two descriptors that are closed and accepted again.
CONSTANTS
  Fds = {f1, f2}
  NoFd = NoFd
  NLoops = 2
  MaxBacklog = 1
  EmptyFiles = TRUE
SPECIFICATION Spec
SYMMETRY Symmetry
INVARIANTS
  TypeOK
  HandoverNoticed
  OnePlace
  NobodyForgotten
  AssertionsHold
  AnswerNotHeldBack
PROPERTIES
  ImplementsHandoff
\* The server may stop: once accept() has failed for want of descriptors and
\* the backlog is full, no client makes an event any more.
CHECK_DEADLOCK FALSE
