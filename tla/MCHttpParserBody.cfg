\* A body that arrives after the headers.
CONSTANTS
  Requests <- BodyRequests
  ContentLength = 2
  READ_BUFFER_SIZE = 13
SPECIFICATION Spec
INVARIANT
  BodyNotOverlooked
