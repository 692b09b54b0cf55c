\* The server's own use: one thread appends, two workers, one slot.
CONSTANTS
  Workers = {w1, w2}
  Callers = {main}
  Owner = main
  Tasks = {t1, t2, NULL}
  NULL = NULL
  MaxRequests = 1
SPECIFICATION FairSpec
PROPERTIES
  TaskServed
  AppendReturns
  BusyWorkersExit
\* The pool stops: after stop() nothing is left to do.
CHECK_DEADLOCK FALSE
