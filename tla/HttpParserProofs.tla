--------------------------- MODULE HttpParserProofs ---------------------------
(***************************************************************************)
(* Theorems about HttpParser, for every set of requests, Content-Length    *)
(* and size of the buffer.                                                 *)
(***************************************************************************)
EXTENDS HttpParser, SequenceTheorems, TLAPS

Cells == Symbols \union {"NUL"}

\* Overwriting the end of a line keeps the buffer a buffer of the same length,
\* and leaves both indices within it.
LEMMA NextLineTypes ==
  ASSUME TypeOK, NEW cr \in 0..(read_index - 1), NextLine(cr)
  PROVE  /\ read_buf' \in Seq(Cells)
         /\ Len(read_buf') = read_index
         /\ checked_index' \in Nat /\ start_line' \in Nat
         /\ start_line' = checked_index' /\ checked_index' <= read_index
<1>1. cr + 1 \in 1..Len(read_buf) /\ cr + 2 \in 1..Len(read_buf)
  BY DEF NextLine, LineEndsAt, TypeOK, read_index
<1> DEFINE half == [read_buf EXCEPT ![cr + 1] = "NUL"]
<1>2. half \in Seq(Cells) /\ Len(half) = Len(read_buf)
  BY <1>1, ExceptSeq DEF TypeOK, Cells
<1>3. [half EXCEPT ![cr + 2] = "NUL"] \in Seq(Cells)
      /\ Len([half EXCEPT ![cr + 2] = "NUL"]) = Len(half)
  <2> HIDE DEF half
  <2>1. cr + 2 \in 1..Len(half) /\ "NUL" \in Cells
    BY <1>1, <1>2 DEF Cells
  <2>2. QED
    BY <1>2, <2>1, ExceptSeq
<1>4. read_buf' = [half EXCEPT ![cr + 2] = "NUL"]
  BY DEF NextLine
<1>5. QED
  BY <1>1, <1>2, <1>3, <1>4 DEF NextLine, read_index

\* What arrives is appended to the buffer.
LEMMA ReadTypes ==
  ASSUME TypeOK, NEW n \in 1..Len(coming), Read(n)
  PROVE  /\ read_buf' \in Seq(Cells)
         /\ Len(read_buf') = read_index + n
         /\ coming' \in Seq(Symbols)
<1>1. SubSeq(coming, 1, n) \in Seq(Symbols) /\ Len(SubSeq(coming, 1, n)) = n
  BY SubSeqProperties DEF TypeOK
<1>2. SubSeq(coming, 1, n) \in Seq(Cells)
  BY <1>1 DEF Cells
<1>3. coming' \in Seq(Symbols)
  BY SubSeqProperties DEF TypeOK, Read, Arrive
<1>4. QED
  BY <1>1, <1>2, <1>3, ConcatProperties DEF TypeOK, Read, Arrive, Cells, read_index

\* A call of parse_content() leaves the variables of the lines as typed as a
\* line of the headers does.
LEMMA AtContentTypes ==
  ASSUME TypeOK, IndexesInOrder, AtContent
  PROVE  /\ read_buf' \in Seq(Cells)
         /\ Len(read_buf') = read_index
         /\ checked_index' \in Nat /\ start_line' \in Nat
         /\ start_line' = checked_index' /\ checked_index' <= read_index
<1>1. CASE line_status = "OK"
  BY <1>1 DEF AtContent, TypeOK, IndexesInOrder, Cells, read_index
<1>2. CASE line_status = "OPEN"
  BY <1>2, NextLineTypes DEF AtContent
<1>3. QED
  BY <1>1, <1>2 DEF TypeOK

Invariant == TypeOK /\ IndexesInOrder

\* The variables keep their types, no more is received than the buffer holds, and
\* the indices of parse_line() and of get_line() never overtake each other, in
\* whatever pieces a request arrives.
LEMMA InvariantHolds == Spec => []Invariant
<1>1. Init => Invariant
  <2> SUFFICES ASSUME Init PROVE Invariant
    OBVIOUS
  <2>1. request.stream \in Seq(Symbols)
    BY ParserAssumption DEF Init, Request
  <2>2. read_buf = <<>> /\ read_buf \in Seq(Cells) /\ read_index = 0
    BY EmptySeq DEF Init, read_index
  <2>3. IndexesInOrder
    BY <2>2 DEF Init, IndexesInOrder
  <2>4. read_index <= READ_BUFFER_SIZE
    BY <2>2, ParserAssumption
  <2>5. checked_index \in Nat /\ start_line \in Nat /\ content_length \in {0, ContentLength}
    BY DEF Init
  <2>6. /\ request \in Request /\ coming \in Seq(Symbols)
        /\ line_status \in {"OK", "OPEN"} /\ linger_ \in BOOLEAN
        /\ result \in {"NO_REQUEST"} \union FileResults
    BY <2>1, ParserAssumption DEF Init
  <2>7. check_state \in CheckStates /\ pc \in States
    BY DEF Init, CheckStates, States
  <2>8. QED
    BY <2>2, <2>3, <2>4, <2>5, <2>6, <2>7 DEF Invariant, TypeOK, Cells
<1>2. Invariant /\ [Next]_vars => Invariant'
  <2> SUFFICES ASSUME Invariant, [Next]_vars PROVE Invariant'
    OBVIOUS
  <2> USE DEF Invariant
  <2>1. CASE UNCHANGED vars
    BY <2>1 DEF vars, client_vars, line_vars, header_vars, TypeOK, IndexesInOrder, read_index
  <2>2. CASE Close
    BY <2>2 DEF Close, client_vars, line_vars, header_vars, TypeOK, IndexesInOrder,
       read_index, States
  <2>3. ASSUME NEW n \in 1..Len(coming), Read(n) PROVE Invariant'
    BY <2>3, ReadTypes DEF Read, Arrive, header_vars, TypeOK, IndexesInOrder, read_index,
       States, Cells
  <2>4. ASSUME NEW req \in Requests, NextRequest(req) PROVE Invariant'
    <3>1. req \in Request /\ req.stream \in Seq(Symbols)
          /\ [req EXCEPT !.kind = "spoilt"] \in Request
      BY ParserAssumption DEF Request
    <3>2. request' \in Request /\ coming' \in Seq(Symbols)
      <4>1. Unread \in Seq(Symbols)
        BY EmptySeq DEF Unread, TypeOK
      <4>2. Unread \o req.stream \in Seq(Symbols)
        BY <3>1, <4>1, ConcatProperties
      <4>3. QED
        BY <2>4, <3>1, <4>1, <4>2 DEF NextRequest
    <3>3. read_buf' = <<>> /\ read_buf' \in Seq(Cells) /\ read_index' = 0
      BY <2>4, EmptySeq DEF NextRequest, ResetParser, read_index
    <3>4. IndexesInOrder' /\ read_index' <= READ_BUFFER_SIZE
      BY <2>4, <3>3, ParserAssumption DEF NextRequest, ResetParser, IndexesInOrder
    <3>5. /\ checked_index' \in Nat /\ start_line' \in Nat
          /\ check_state' \in CheckStates /\ line_status' \in {"OK", "OPEN"}
          /\ content_length' \in {0, ContentLength} /\ linger_' \in BOOLEAN
          /\ pc' \in States /\ result' \in {"NO_REQUEST"} \union FileResults
      BY <2>4 DEF NextRequest, ResetParser, TypeOK, States, CheckStates
    <3>6. QED
      BY <3>2, <3>3, <3>4, <3>5 DEF TypeOK, Cells
  <2>5. ASSUME NEW i \in checked_index..read_index, NoMoreLines(i) PROVE Invariant'
    BY <2>5 DEF NoMoreLines, client_vars, header_vars, TypeOK, IndexesInOrder, read_index, States
  <2>6. ASSUME NEW cr \in 0..(read_index - 1),
               \/ ParseRequestLine(cr) \/ BadRequestLine(cr)
               \/ ParseHeader(cr) \/ EndOfHeaders(cr)
        PROVE Invariant'
    <3>1. NextLine(cr)
      BY <2>6 DEF ParseRequestLine, BadRequestLine, ParseHeader, EndOfHeaders
    <3>2. IndexesInOrder' /\ read_buf' \in Seq(Cells) /\ read_index' <= READ_BUFFER_SIZE
          /\ checked_index' \in Nat /\ start_line' \in Nat
      BY <3>1, NextLineTypes DEF IndexesInOrder, TypeOK, read_index
    <3>3. CASE ParseRequestLine(cr)
      BY <3>2, <3>3 DEF ParseRequestLine, Parsing, client_vars, GoOn, TypeOK, Cells, CheckStates
    <3>4. CASE BadRequestLine(cr)
      BY <3>2, <3>4 DEF BadRequestLine, Parsing, client_vars, header_vars, Return, TypeOK, Cells,
         States, FileResults
    <3>5. CASE ParseHeader(cr)
      BY <3>2, <3>5 DEF ParseHeader, Parsing, client_vars, GoOn, TypeOK, Cells
    <3>6. CASE EndOfHeaders(cr)
      BY <3>2, <3>6 DEF EndOfHeaders, Parsing, client_vars, GoOn, Return, TypeOK, Cells,
         States, CheckStates
    <3>7. QED
      BY <2>6, <3>3, <3>4, <3>5, <3>6
  <2>7. CASE ParseContent \/ ContentMissing
    <3>1. AtContent
      BY <2>7 DEF ParseContent, ContentMissing
    <3>2. IndexesInOrder' /\ read_buf' \in Seq(Cells) /\ read_index' <= READ_BUFFER_SIZE
          /\ checked_index' \in Nat /\ start_line' \in Nat
      BY <3>1, AtContentTypes DEF IndexesInOrder, TypeOK, read_index
    <3>3. CASE ParseContent
      BY <3>2, <3>3 DEF ParseContent, AtContent, Parsing, client_vars, header_vars, Return,
         TypeOK, Cells, States
    <3>4. CASE ContentMissing
      BY <3>2, <3>4 DEF ContentMissing, AtContent, Parsing, client_vars, header_vars, GoOn,
         TypeOK, Cells
    <3>5. QED
      BY <2>7, <3>3, <3>4
  <2>8. QED
    BY <2>1, <2>2, <2>3, <2>4, <2>5, <2>6, <2>7 DEF Next, process_read
<1>3. QED
  BY <1>1, <1>2, PTL DEF Spec

\* Type correctness; read() never puts anything behind the buffer, which it may
\* fill to its last byte.
THEOREM ParserTypeCorrect == Spec => []TypeOK
<1>1. Invariant => TypeOK
  BY DEF Invariant
<1>2. QED
  BY <1>1, InvariantHolds, PTL

\* start_line, checked_index and read_index stay in order.
THEOREM ParserIndexesInOrder == Spec => []IndexesInOrder
<1>1. Invariant => IndexesInOrder
  BY DEF Invariant
<1>2. QED
  BY <1>1, InvariantHolds, PTL

\* The '\0' that parse_content() puts behind the body, wherever parse_line() has
\* gone in it, is at most one byte behind what was received.
THEOREM TerminatorIsAtBody == Spec => TerminatorAtBody
<1>1. Invariant /\ [Next]_vars => [ParseContent => start_line + content_length <= read_index]_vars
  <2> SUFFICES ASSUME Invariant, ParseContent
               PROVE  start_line + content_length <= read_index
    OBVIOUS
  <2>1. AtContent /\ read_index >= content_length + checked_index'
    BY DEF ParseContent, BodyAfter
  <2>2. checked_index' >= checked_index /\ checked_index' \in Nat
    BY <2>1 DEF AtContent, NextLine, LineEndsAt, Invariant, TypeOK, read_index
  <2>3. QED
    BY <2>1, <2>2, ParserAssumption DEF Invariant, TypeOK, IndexesInOrder, read_index
<1>2. QED
  BY <1>1, InvariantHolds, PTL DEF Spec, TerminatorAtBody

=============================================================================
