\* A socket that takes a part of an answer.
CONSTANTS
  Requests <- PipelinedRequests
  ContentLength = 2
  READ_BUFFER_SIZE = 13
  FileSizes = {0, 1, 2}
  WRITE_BUFFER_SIZE = 10
SPECIFICATION ConnSpec
INVARIANT
  AnswerSent
