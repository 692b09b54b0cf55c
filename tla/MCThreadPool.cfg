\* Two callers contend for a queue of two slots served by three workers.
CONSTANTS
  Workers = {w1, w2, w3}
  Callers = {main, c2}
  Owner = main
  Tasks = {t1, t2, NULL}
  NULL = NULL
  MaxRequests = 2
SPECIFICATION Spec
SYMMETRY Symmetry
INVARIANTS
  TypeOK
  NotEmptyWakeups
  NotFullWakeups
PROPERTY
  ImplementsTaskQueue
\* The pool stops: after stop() nothing is left to do.
CHECK_DEADLOCK FALSE
