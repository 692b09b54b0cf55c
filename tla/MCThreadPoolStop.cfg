\* Does stop() return?
CONSTANTS
  Workers = {w1, w2}
  Callers = {main}
  Owner = main
  Tasks = {t1}
  NULL = NULL
  MaxRequests = 1
SPECIFICATION FairSpec
PROPERTIES
  StopReturns
CHECK_DEADLOCK FALSE
