\* Requests of up to two headers in pieces of all sizes, and clients that do not
\* wait; files of no, one and two blocks; answers cut everywhere.
CONSTANTS
  Requests <- SomeRequests
  ContentLength = 2
  READ_BUFFER_SIZE = 13
  FileSizes = {0, 1, 2}
  WRITE_BUFFER_SIZE = 10
SPECIFICATION ConnFairSpec
INVARIANTS
  TypeOK
  IndexesInOrder
  AnswerIsRight
  NothingOverlooked
  WriterTypeOK
  WholeAnswerSent
  MappedWhileSending
PROPERTIES
  
  ProcessReadReturns
  KeepsItsWord
  MappingReturned
  AnswerGoesOut
