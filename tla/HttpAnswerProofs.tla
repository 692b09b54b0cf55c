--------------------------- MODULE HttpAnswerProofs ---------------------------
(***************************************************************************)
(* What process_read() returns is right for every request of every length, *)
(* whatever the pieces it arrives in, and whatever it is followed by.      *)
(***************************************************************************)
EXTENDS HttpParserProofs

-----------------------------------------------------------------------------
(* Requests.                                                               *)

\* The first line of a good request ends at its third symbol.
LEMMA FirstLineOfGood ==
  ASSUME NEW s, NEW req \in Request, GoodRequest(s, req)
  PROVE  /\ s[1] = "get" /\ s[2] = "CR" /\ s[3] = "LF" /\ req.head - 2 >= 3
         /\ ~KeepLine(s, 3) /\ ~LengthLine(s, 3)
<1>1. req.head \in Nat /\ req.head >= 5
  BY DEF GoodRequest, Request
<1>2. s[1] = "get" /\ s[2] = "CR" /\ s[3] = "LF"
  BY <1>1 DEF GoodRequest, Paired
<1>3. \A i \in 1..3 : s[i] # "keep" /\ s[i] # "length"
  <2>1. \A i \in 1..3 : i = 1 \/ i = 2 \/ i = 3
    OBVIOUS
  <2>2. QED
    BY <1>2, <2>1
<1>4. QED
  BY <1>1, <1>2, <1>3 DEF KeepLine, LengthLine

\* The first CR LF behind the start of a line of the headers ends the line: the
\* empty one, or one before it.
LEMMA EndOfHeaderLine ==
  ASSUME NEW s, NEW req \in Request, GoodRequest(s, req),
         NEW start \in 3..(req.head - 2), s[start] = "LF",
         NEW cr \in Nat, cr >= start, s[cr + 1] = "CR", s[cr + 2] = "LF",
         \A i \in (start + 1)..cr : s[i] \notin {"CR", "LF"}
  PROVE  IF cr = start THEN cr + 2 = req.head ELSE cr + 2 \in 3..(req.head - 2)
<1>1. /\ req.head \in Nat /\ req.head >= 5 /\ start \in Nat
      /\ s[req.head - 1] = "CR" /\ s[req.head - 2] = "LF"
      /\ \A i \in 1..(req.head - 2) : ~EmptyLineAt(s, i)
  <2>1. /\ req.head \in Nat /\ req.head >= 5
        /\ EmptyLineAt(s, req.head - 1) /\ \A i \in 1..(req.head - 2) : ~EmptyLineAt(s, i)
    BY DEF GoodRequest, Request
  <2>2. (req.head - 1) - 1 = req.head - 2 /\ req.head - 1 # 1
    BY <2>1
  <2>3. QED
    BY <2>1, <2>2 DEF EmptyLineAt, LineAt
<1>2. cr + 1 <= req.head - 1
  BY <1>1
<1>3. CASE cr = start
  <2>1. EmptyLineAt(s, cr + 1)
    BY <1>1, <1>3 DEF EmptyLineAt, LineAt
  <2>2. QED
    BY <1>1, <1>2, <1>3, <2>1
<1>4. CASE cr # start
  <2>1. cr + 1 # req.head - 1
    BY <1>1, <1>4
  <2>2. cr + 2 # req.head - 1
    BY <1>1
  <2>3. QED
    BY <1>1, <1>2, <1>4, <2>1, <2>2
<1>5. QED
  BY <1>3, <1>4

\* What the lines say up to the end of this one is what they say before it, and
\* what it says.
LEMMA LinesUpTo ==
  ASSUME NEW s, NEW start \in Nat, start > 0, s[start] = "LF",
         NEW cr \in Nat, cr > start, s[cr + 1] = "CR", s[cr + 2] = "LF",
         \A i \in (start + 1)..cr : s[i] \notin {"CR", "LF"}
  PROVE  /\ KeepLine(s, cr + 2) <=> KeepLine(s, start) \/ (s[start + 1] = "keep" /\ cr = start + 1)
         /\ LengthLine(s, cr + 2) <=> LengthLine(s, start) \/ s[start + 1] = "length"
<1>1. ASSUME NEW i \in (start + 1)..(cr + 2), LineAt(s, i), s[i] \notin {"CR", "LF"}
      PROVE  i = start + 1
  BY <1>1 DEF LineAt
<1>2. LineAt(s, start + 1)
  BY DEF LineAt
<1>3. KeepLine(s, cr + 2) => KeepLine(s, start) \/ (s[start + 1] = "keep" /\ cr = start + 1)
  <2> SUFFICES ASSUME NEW i \in 1..(cr + 2), LineAt(s, i), s[i] = "keep", s[i + 1] = "CR",
                      ~KeepLine(s, start)
               PROVE  s[start + 1] = "keep" /\ cr = start + 1
    BY DEF KeepLine
  <2>1. i > start
    BY DEF KeepLine
  <2>2. i = start + 1
    BY <2>1, <1>1
  <2>3. QED
    BY <2>2
<1>4. KeepLine(s, start) => KeepLine(s, cr + 2)
  BY DEF KeepLine
<1>5. s[start + 1] = "keep" /\ cr = start + 1 => KeepLine(s, cr + 2)
  BY <1>2 DEF KeepLine
<1>6. LengthLine(s, cr + 2) => LengthLine(s, start) \/ s[start + 1] = "length"
  <2> SUFFICES ASSUME NEW i \in 1..(cr + 2), LineAt(s, i), s[i] = "length", ~LengthLine(s, start)
               PROVE  s[start + 1] = "length"
    BY DEF LengthLine
  <2>1. i > start
    BY DEF LengthLine
  <2>2. QED
    BY <2>1, <1>1
<1>7. LengthLine(s, start) \/ s[start + 1] = "length" => LengthLine(s, cr + 2)
  BY <1>2 DEF LengthLine
<1>8. QED
  BY <1>3, <1>4, <1>5, <1>6, <1>7

\* The empty line says nothing.
LEMMA LinesBeforeEmptyLine ==
  ASSUME NEW s, NEW req \in Request, GoodRequest(s, req)
  PROVE  /\ KeepLine(s, req.head - 2) <=> KeepLine(s, req.head)
         /\ LengthLine(s, req.head - 2) <=> LengthLine(s, req.head)
<1>1. req.head \in Nat /\ req.head >= 5 /\ s[req.head - 1] = "CR" /\ s[req.head] = "LF"
  BY DEF GoodRequest, Request, EmptyLineAt, Paired
<1>2. \A i \in 1..req.head : i \in 1..(req.head - 2) \/ s[i] \in {"CR", "LF"}
  BY <1>1
<1>3. QED
  BY <1>1, <1>2 DEF KeepLine, LengthLine

-----------------------------------------------------------------------------
(* The invariant.                                                          *)

\* The request as read() and parse_line() leave it: what is in read_buf from
\* start_line on, and what is still to come.
Received ==
  request.kind # "spoilt" =>
    /\ read_index <= Len(request.stream)
    /\ coming = SubSeq(request.stream, read_index + 1, Len(request.stream))
    /\ \A i \in (start_line + 1)..read_index : read_buf[i] = request.stream[i]

InProcess == pc \in {"read", "parse"}

\* Up to the body, the line at start_line has no end before checked_index, and the
\* end of the line before it has been overwritten.
AtLine ==
  InProcess /\ check_state # "CONTENT" =>
    /\ \A i \in (start_line + 1)..checked_index : read_buf[i] \notin {"CR", "LF"}
    /\ start_line > 0 => read_buf[start_line] = "NUL"

\* The first line is the first.
AtFirstLine ==
  InProcess /\ check_state = "REQUESTLINE" => start_line = 0 /\ ~linger_ /\ content_length = 0

\* parse_headers() is at a line of the headers, and knows what the lines before say.
AtHeader(s) ==
  /\ start_line \in 3..(request.head - 2)
  /\ s[start_line] = "LF"
  /\ linger_ <=> KeepLine(s, start_line)
  /\ content_length = IF LengthLine(s, start_line) THEN ContentLength ELSE 0

AtBody ==
  /\ checked_index >= request.head
  /\ linger_ = request.keep
  /\ content_length = request.body /\ request.body # 0

UnderstoodGood ==
  InProcess /\ request.kind = "ok" =>
    /\ GoodRequest(request.stream, request)
    /\ check_state = "HEADER" => AtHeader(request.stream)
    /\ check_state = "CONTENT" => AtBody

UnderstoodBad ==
  InProcess /\ request.kind = "bad_line" =>
    /\ BadFirstLine(request.stream, request.line)
    /\ check_state = "REQUESTLINE"

\* parse_line() does not come past what is out of place.
UnderstoodBroken ==
  request.kind = "broken" =>
    /\ pc # "answer"
    /\ InProcess =>
         /\ check_state # "CONTENT"
         /\ \E p \in 1..Len(request.stream) :
              /\ BrokenAt(request.stream, p) /\ start_line < p
              /\ check_state = "HEADER" => start_line > 0 /\ request.stream[start_line] = "LF"

UnderstoodSpoilt ==
  InProcess /\ request.kind = "spoilt" =>
    /\ check_state = "REQUESTLINE"
    /\ read_index > 0 => read_buf[1] # "get"
    /\ read_index = 0 => coming # <<>> /\ coming[1] # "get"

\* What init() drops of a request that is kept has no request's beginning in it
\* which is no request.
InStep ==
  request.kind = "ok" /\ request.keep =>
    OthersAreRequests(request.stream, request.head + request.body + 1)

Understood ==
  /\ Received
  /\ AtLine /\ AtFirstLine
  /\ UnderstoodGood /\ UnderstoodBad /\ UnderstoodBroken /\ UnderstoodSpoilt
  /\ InStep
  /\ NothingOverlooked
  /\ AnswerIsRight

-----------------------------------------------------------------------------
(* Lines.                                                                  *)

\* Where parse_line() returns LINE_OK up to the body, the line it is at ends.
LEMMA EndOfLine ==
  ASSUME Invariant, AtLine, InProcess, check_state # "CONTENT",
         NEW cr \in 0..(read_index - 1), LineEndsAt(cr)
  PROVE  /\ cr >= start_line /\ cr + 2 <= read_index
         /\ read_buf[cr + 1] = "CR" /\ read_buf[cr + 2] = "LF"
         /\ \A i \in (start_line + 1)..cr : read_buf[i] \notin {"CR", "LF"}
<1>1. /\ read_index \in Nat /\ start_line \in Nat /\ checked_index \in Nat
      /\ start_line <= checked_index /\ checked_index <= read_index
  BY LenProperties DEF Invariant, TypeOK, IndexesInOrder, read_index
<1>2. /\ cr + 1 < read_index /\ read_buf[cr + 1] = "CR" /\ read_buf[cr + 2] = "LF"
  <2>1. (cr + 1) + 1 = cr + 2
    OBVIOUS
  <2>2. QED
    BY <2>1 DEF LineEndsAt, At
<1>3. /\ \A i \in (start_line + 1)..checked_index : read_buf[i] \notin {"CR", "LF"}
      /\ start_line > 0 => read_buf[start_line] = "NUL"
  BY DEF AtLine
<1>4. cr >= checked_index /\ PassesOver(cr)
  <2>1. ASSUME cr > 0, cr + 1 = checked_index
        PROVE  FALSE
    BY <2>1, <1>1, <1>2, <1>3
  <2>2. QED
    BY <2>1 DEF LineEndsAt
<1>5. ASSUME NEW i \in (checked_index + 1)..cr
      PROVE  read_buf[i] \notin {"CR", "LF"}
  <2>1. i - 1 \in checked_index..(cr - 1) /\ (i - 1) + 1 = i
    BY <1>1
  <2>2. QED
    BY <2>1, <1>4 DEF PassesOver, At
<1>6. QED
  BY <1>1, <1>2, <1>3, <1>4, <1>5

\* The next line starts behind the CR LF, which is overwritten, and what is left of
\* the buffer is as it was.
LEMMA AtNextLine ==
  ASSUME Invariant, NEW cr \in 0..(read_index - 1), NextLine(cr)
  PROVE  /\ start_line' = cr + 2 /\ checked_index' = cr + 2 /\ cr + 2 > checked_index
         /\ read_index' = read_index
         /\ read_buf'[cr + 2] = "NUL"
         /\ \A i \in (cr + 3)..read_index : read_buf'[i] = read_buf[i]
<1>1. /\ read_index \in Nat /\ checked_index \in Nat /\ read_buf \in Seq(Cells)
  BY LenProperties DEF Invariant, TypeOK, Cells, read_index
<1>2. cr + 1 < read_index /\ cr + 1 >= checked_index
  BY <1>1 DEF NextLine, LineEndsAt
<1>3. DOMAIN read_buf = 1..read_index
  BY <1>1 DEF read_index
<1>4. read_buf' = [read_buf EXCEPT ![cr + 1] = "NUL", ![cr + 2] = "NUL"]
  BY DEF NextLine
<1>5. /\ read_buf'[cr + 2] = "NUL"
      /\ \A i \in (cr + 3)..read_index : read_buf'[i] = read_buf[i]
  BY <1>1, <1>2, <1>3, <1>4
<1>6. read_index' = read_index
  BY NextLineTypes DEF Invariant, read_index
<1>7. start_line' = cr + 2 /\ checked_index' = cr + 2
  BY DEF NextLine
<1>8. cr + 2 > checked_index
  BY <1>1, <1>2
<1>9. QED
  BY <1>5, <1>6, <1>7, <1>8

\* What get_line() returns.
LEMMA TextOfLine ==
  ASSUME Invariant, NEW cr \in 0..(read_index - 1), cr >= start_line
  PROVE  /\ Text(cr) = <<>> <=> cr = start_line
         /\ cr > start_line => Head(Text(cr)) = read_buf[start_line + 1]
         /\ \A x : Text(cr) = <<x>> <=> cr = start_line + 1 /\ read_buf[start_line + 1] = x
<1>1. /\ read_index \in Nat /\ start_line \in Nat /\ read_buf \in Seq(Cells)
      /\ \A i \in 1..read_index : read_buf[i] \in Cells
  BY LenProperties DEF Invariant, TypeOK, Cells, read_index
<1>2. /\ Text(cr) \in Seq(Cells)
      /\ Len(Text(cr)) = IF start_line + 1 <= cr THEN cr - (start_line + 1) + 1 ELSE 0
      /\ \A i \in 1..(cr - (start_line + 1) + 1) : Text(cr)[i] = read_buf[(start_line + 1) + i - 1]
  <2>1. \A i \in (start_line + 1)..cr : read_buf[i] \in Cells
    BY <1>1
  <2>2. start_line + 1 \in Int /\ cr \in Int
    BY <1>1
  <2>3. QED
    BY <2>1, <2>2, SubSeqProperties DEF Text
<1>3. Len(Text(cr)) = cr - start_line
  BY <1>1, <1>2
<1>4. \A i \in 1..(cr - start_line) : Text(cr)[i] = read_buf[start_line + i]
  BY <1>1, <1>2
<1>5. Text(cr) = <<>> <=> cr = start_line
  BY <1>1, <1>2, <1>3
<1>6. cr > start_line => Head(Text(cr)) = read_buf[start_line + 1]
  BY <1>1, <1>2, <1>3, <1>4
<1>7. ASSUME NEW x
      PROVE  Text(cr) = <<x>> <=> cr = start_line + 1 /\ read_buf[start_line + 1] = x
  <2>1. Text(cr) = <<x>> => cr = start_line + 1 /\ read_buf[start_line + 1] = x
    BY <1>1, <1>3, <1>4
  <2>2. ASSUME cr = start_line + 1, read_buf[start_line + 1] = x
        PROVE  Text(cr) = <<x>>
    <3>1. x \in Cells /\ Len(Text(cr)) = 1 /\ Text(cr)[1] = x
      BY <1>1, <1>3, <1>4, <2>2
    <3>2. QED
      BY <1>2, <3>1, SeqEqual
  <2>3. QED
    BY <2>1, <2>2
<1>8. QED
  BY <1>5, <1>6, <1>7

\* What a line that ends says of the request: its end is one there.
LEMMA LineOfRequest ==
  ASSUME Invariant, Understood, InProcess, check_state # "CONTENT", request.kind # "spoilt",
         NEW cr \in 0..(read_index - 1), LineEndsAt(cr)
  PROVE  /\ cr >= start_line /\ cr + 2 <= read_index /\ start_line \in Nat
         /\ request.stream[cr + 1] = "CR" /\ request.stream[cr + 2] = "LF"
         /\ \A i \in (start_line + 1)..cr : request.stream[i] \notin {"CR", "LF"}
         /\ read_buf[start_line + 1] = request.stream[start_line + 1]
<1>1. start_line \in Nat /\ read_index \in Nat
  BY LenProperties DEF Invariant, TypeOK, read_index
<1>2. /\ cr >= start_line /\ cr + 2 <= read_index
      /\ read_buf[cr + 1] = "CR" /\ read_buf[cr + 2] = "LF"
      /\ \A i \in (start_line + 1)..cr : read_buf[i] \notin {"CR", "LF"}
  BY EndOfLine DEF Understood
<1>3. \A i \in (start_line + 1)..(cr + 2) : read_buf[i] = request.stream[i]
  BY <1>1, <1>2 DEF Understood, Received
<1>4. QED
  BY <1>1, <1>2, <1>3

\* A line that is done with leaves the rest of the request as it was received.
LEMMA NextLineKeeps ==
  ASSUME Invariant, Understood, NEW cr \in 0..(read_index - 1), NextLine(cr),
         UNCHANGED client_vars
  PROVE  Received' /\ AtLine' /\ InStep'
<1>1. /\ start_line' = cr + 2 /\ checked_index' = cr + 2 /\ cr + 2 > start_line
      /\ read_index' = read_index /\ read_buf'[cr + 2] = "NUL"
      /\ \A i \in (cr + 3)..read_index : read_buf'[i] = read_buf[i]
      /\ start_line \in Nat /\ read_index \in Nat
  BY AtNextLine, LenProperties DEF Invariant, IndexesInOrder, TypeOK, read_index
<1>2. UNCHANGED <<request, coming>>
  BY DEF client_vars
<1>3. Received'
  <2> SUFFICES ASSUME request.kind # "spoilt"
               PROVE  /\ read_index <= Len(request.stream)
                      /\ coming = SubSeq(request.stream, read_index + 1, Len(request.stream))
                      /\ \A i \in (cr + 3)..read_index : read_buf'[i] = request.stream[i]
    BY <1>1, <1>2 DEF Received
  <2>1. QED
    BY <1>1 DEF Understood, Received
<1>4. AtLine'
  BY <1>1 DEF AtLine
<1>5. InStep'
  BY <1>2 DEF Understood, InStep
<1>6. QED
  BY <1>3, <1>4, <1>5

LineActions(cr) ==
  ParseRequestLine(cr) \/ BadRequestLine(cr) \/ ParseHeader(cr) \/ EndOfHeaders(cr)

\* A line of a good request is understood, and the empty one is its end.
LEMMA LineOfGood ==
  ASSUME Invariant, Understood, request.kind = "ok",
         NEW cr \in 0..(read_index - 1), LineActions(cr)
  PROVE  UnderstoodGood' /\ AnswerIsRight'
<1> DEFINE s == request.stream
<1>1. /\ pc = "parse" /\ InProcess /\ check_state # "CONTENT" /\ NextLine(cr) /\ LineEndsAt(cr)
      /\ UNCHANGED request
  BY DEF LineActions, ParseRequestLine, BadRequestLine, ParseHeader, EndOfHeaders, Parsing,
         NextLine, InProcess, client_vars
<1>2. /\ cr >= start_line /\ cr + 2 <= read_index /\ start_line \in Nat /\ read_index \in Nat
      /\ s[cr + 1] = "CR" /\ s[cr + 2] = "LF"
      /\ \A i \in (start_line + 1)..cr : s[i] \notin {"CR", "LF"}
      /\ read_buf[start_line + 1] = s[start_line + 1]
  BY <1>1, LineOfRequest, LenProperties DEF Invariant, TypeOK, read_index
<1>3. start_line' = cr + 2 /\ checked_index' = cr + 2 /\ read_index' = read_index
  BY <1>1, AtNextLine
<1>4. /\ GoodRequest(s, request) /\ request \in Request
      /\ check_state = "HEADER" => AtHeader(s)
  BY <1>1 DEF Understood, UnderstoodGood, Invariant, TypeOK
<1>5. /\ s[1] = "get" /\ s[2] = "CR" /\ s[3] = "LF" /\ request.head - 2 >= 3
      /\ ~KeepLine(s, 3) /\ ~LengthLine(s, 3)
      /\ request.head \in Nat /\ request.body \in Nat
  BY <1>4, FirstLineOfGood DEF Request
<1>6. /\ Text(cr) = <<>> <=> cr = start_line
      /\ cr > start_line => Head(Text(cr)) = s[start_line + 1]
      /\ Text(cr) = <<"get">> <=> cr = start_line + 1 /\ s[start_line + 1] = "get"
      /\ Text(cr) = <<"keep">> <=> cr = start_line + 1 /\ s[start_line + 1] = "keep"
  BY <1>2, TextOfLine
<1>7. CASE check_state = "REQUESTLINE"
  <2>1. start_line = 0 /\ ~linger_ /\ content_length = 0
    BY <1>1, <1>7 DEF Understood, AtFirstLine
  <2>2. cr = 1
    <3>1. cr # 0
      BY <1>2, <1>5
    <3>2. ~(cr >= 2)
      BY <1>2, <1>5, <2>1
    <3>3. QED
      BY <3>1, <3>2
  <2>3. ParseRequestLine(cr)
    BY <1>5, <1>6, <1>7, <2>1, <2>2
    DEF LineActions, BadRequestLine, ParseHeader, EndOfHeaders, Parsing
  <2>4. check_state' = "HEADER" /\ pc' = "parse" /\ ~linger_' /\ content_length' = 0
    BY <1>1, <2>1, <2>3 DEF ParseRequestLine, GoOn
  <2>5. AtHeader(s)'
    BY <1>1, <1>3, <1>5, <2>2, <2>4 DEF AtHeader
  <2>6. QED
    BY <1>1, <1>4, <2>4, <2>5 DEF UnderstoodGood, AnswerIsRight
<1>8. CASE check_state = "HEADER" /\ ParseHeader(cr)
  <2>1. cr > start_line /\ AtHeader(s) /\ cr \in Nat
    BY <1>2, <1>4, <1>6, <1>8 DEF ParseHeader
  <2>2. cr + 2 \in 3..(request.head - 2)
    BY <1>2, <1>4, <2>1, EndOfHeaderLine DEF AtHeader
  <2>3. /\ KeepLine(s, cr + 2) <=> KeepLine(s, start_line) \/ (s[start_line + 1] = "keep" /\ cr = start_line + 1)
        /\ LengthLine(s, cr + 2) <=> LengthLine(s, start_line) \/ s[start_line + 1] = "length"
    BY <1>2, <2>1, LinesUpTo DEF AtHeader
  <2>4. /\ linger_' = (linger_ \/ Text(cr) = <<"keep">>)
        /\ content_length' = IF Head(Text(cr)) = "length" THEN ContentLength ELSE content_length
        /\ pc' = "parse" /\ check_state' = "HEADER"
    BY <1>1, <1>8 DEF ParseHeader, GoOn
  <2>5. linger_' <=> KeepLine(s, cr + 2)
    BY <1>6, <2>1, <2>3, <2>4 DEF AtHeader
  <2>6. content_length' = IF LengthLine(s, cr + 2) THEN ContentLength ELSE 0
    BY <1>6, <2>1, <2>3, <2>4 DEF AtHeader
  <2>7. AtHeader(s)'
    BY <1>1, <1>2, <1>3, <2>2, <2>5, <2>6 DEF AtHeader
  <2>8. QED
    BY <1>1, <1>4, <2>4, <2>7 DEF UnderstoodGood, AnswerIsRight
<1>9. CASE check_state = "HEADER" /\ EndOfHeaders(cr)
  <2>1. cr = start_line /\ AtHeader(s) /\ cr \in Nat
    BY <1>2, <1>4, <1>6, <1>9 DEF EndOfHeaders
  <2>2. cr + 2 = request.head
    BY <1>2, <1>4, <2>1, EndOfHeaderLine DEF AtHeader
  <2>3. cr = request.head - 2
    BY <1>5, <2>1, <2>2
  <2>4. linger_ = request.keep /\ content_length = request.body
    <3>1. /\ linger_ <=> KeepLine(s, request.head)
          /\ content_length = IF LengthLine(s, request.head) THEN ContentLength ELSE 0
      BY <1>4, <2>1, <2>3, LinesBeforeEmptyLine DEF AtHeader
    <3>2. linger_ \in BOOLEAN /\ request.keep \in BOOLEAN
      BY <1>4 DEF Invariant, TypeOK, Request
    <3>3. QED
      BY <1>4, <3>1, <3>2 DEF GoodRequest
  <2>5. UNCHANGED <<linger_, content_length>>
    BY <1>9 DEF EndOfHeaders
  <2>6. CASE content_length # 0
    <3>1. check_state' = "CONTENT" /\ pc' = "parse"
      BY <1>1, <1>9, <2>6 DEF EndOfHeaders, GoOn
    <3>2. AtBody'
      BY <1>1, <1>3, <1>5, <2>2, <2>4, <2>5, <2>6 DEF AtBody
    <3>3. QED
      BY <1>1, <1>4, <3>1, <3>2 DEF UnderstoodGood, AnswerIsRight
  <2>7. CASE content_length = 0
    <3>1. pc' = "answer"
      BY <1>9, <2>7 DEF EndOfHeaders, Return
    <3>2. read_index' >= request.head + request.body
      BY <1>2, <1>3, <1>5, <2>2, <2>4, <2>7
    <3>3. QED
      BY <1>1, <2>4, <2>5, <3>1, <3>2 DEF UnderstoodGood, AnswerIsRight, InProcess
  <2>8. QED
    BY <2>6, <2>7
<1>10. QED
  BY <1>7, <1>8, <1>9
  DEF LineActions, ParseRequestLine, BadRequestLine, ParseHeader, EndOfHeaders, Parsing

\* The first line of a request whose first line is bad is answered with a 400.
LEMMA LineOfBad ==
  ASSUME Invariant, Understood, request.kind = "bad_line",
         NEW cr \in 0..(read_index - 1), LineActions(cr)
  PROVE  UnderstoodBad' /\ AnswerIsRight'
<1> DEFINE s == request.stream
           n == request.line
<1>1. /\ pc = "parse" /\ InProcess /\ check_state = "REQUESTLINE" /\ NextLine(cr) /\ LineEndsAt(cr)
      /\ UNCHANGED request /\ BadFirstLine(s, n)
  BY DEF LineActions, ParseRequestLine, BadRequestLine, ParseHeader, EndOfHeaders, Parsing,
         NextLine, InProcess, client_vars, Understood, UnderstoodBad
<1>2. start_line = 0 /\ ~linger_
  BY <1>1 DEF Understood, AtFirstLine
<1>3. /\ cr + 2 <= read_index
      /\ s[cr + 1] = "CR" /\ s[cr + 2] = "LF"
      /\ \A i \in 1..cr : s[i] \notin {"CR", "LF"}
      /\ read_buf[1] = s[1]
      /\ read_index \in Nat /\ cr \in Nat /\ n \in Nat
  BY <1>1, <1>2, LineOfRequest, LenProperties DEF Invariant, TypeOK, read_index, Request
<1>4. cr + 2 = n
  <2>1. n >= 2 /\ s[n - 1] = "CR" /\ \A i \in 1..(n - 2) : s[i] # "CR"
    BY <1>1, <1>3 DEF BadFirstLine
  <2>2. ~(n - 1 <= cr)
    BY <1>3, <2>1
  <2>3. ~(cr + 1 <= n - 2)
    BY <1>3, <2>1
  <2>4. QED
    BY <1>3, <2>2, <2>3
<1>5. Text(cr) # <<"get">>
  <2>1. \A x : Text(cr) = <<x>> <=> cr = start_line + 1 /\ read_buf[start_line + 1] = x
    BY <1>2, <1>3, TextOfLine
  <2>2. Text(cr) = <<"get">> => cr = 1 /\ read_buf[1] = "get"
    BY <1>2, <2>1
  <2>3. ~(cr = 1 /\ s[1] = "get")
    BY <1>1, <1>4 DEF BadFirstLine
  <2>4. QED
    BY <1>3, <2>2, <2>3
<1>6. BadRequestLine(cr)
  BY <1>1, <1>5 DEF LineActions, ParseRequestLine, ParseHeader, EndOfHeaders, Parsing
<1>7. pc' = "answer" /\ result' = "BAD_REQUEST" /\ ~linger_'
  BY <1>2, <1>6 DEF BadRequestLine, Return, header_vars
<1>8. read_index' >= request.line
  BY <1>1, <1>3, <1>4, AtNextLine
<1>9. QED
  BY <1>1, <1>7, <1>8 DEF UnderstoodBad, AnswerIsRight, InProcess

\* The lines in front of what is out of place are not the end of a request.
LEMMA LineOfBroken ==
  ASSUME Invariant, Understood, request.kind = "broken",
         NEW cr \in 0..(read_index - 1), LineActions(cr)
  PROVE  UnderstoodBroken' /\ pc' # "answer"
<1> DEFINE s == request.stream
<1>1. /\ pc = "parse" /\ InProcess /\ check_state # "CONTENT" /\ NextLine(cr) /\ LineEndsAt(cr)
      /\ UNCHANGED request
  BY DEF LineActions, ParseRequestLine, BadRequestLine, ParseHeader, EndOfHeaders, Parsing,
         NextLine, InProcess, client_vars, Understood, UnderstoodBroken
<1>2. PICK p \in 1..Len(s) :
        /\ BrokenAt(s, p) /\ start_line < p
        /\ check_state = "HEADER" => start_line > 0 /\ s[start_line] = "LF"
  BY <1>1 DEF Understood, UnderstoodBroken
<1>3. /\ cr >= start_line /\ start_line \in Nat /\ cr \in Nat
      /\ s[cr + 1] = "CR" /\ s[cr + 2] = "LF"
      /\ \A i \in (start_line + 1)..cr : s[i] \notin {"CR", "LF"}
      /\ read_buf[start_line + 1] = s[start_line + 1]
  BY <1>1, LineOfRequest
<1>4. p \in Nat
  BY LenProperties DEF Invariant, TypeOK, Request
<1>5. cr + 2 < p
  <2>1. ~(p <= cr)
    BY <1>2, <1>3, <1>4 DEF BrokenAt
  <2>2. p # cr + 1
    <3>1. SUFFICES ASSUME p = cr + 1
                   PROVE  FALSE
      OBVIOUS
    <3>2. s[p] = "CR" /\ s[p + 1] = "LF"
      <4>1. p + 1 = cr + 2
        BY <1>3, <3>1
      <4>2. QED
        BY <1>3, <3>1, <4>1
    <3>3. QED
      BY <1>2, <3>2 DEF BrokenAt
  <2>3. p # cr + 2
    <3>1. SUFFICES ASSUME p = cr + 2
                   PROVE  FALSE
      OBVIOUS
    <3>2. Paired(s, cr + 1)
      BY <1>2, <1>3, <3>1 DEF BrokenAt
    <3>3. QED
      BY <1>3, <3>2 DEF Paired
  <2>4. QED
    BY <1>3, <1>4, <2>1, <2>2, <2>3
<1>6. s[1] = "get" /\ s[2] = "CR" /\ ~EmptyLineAt(s, cr + 1)
  BY <1>2, <1>3, <1>4, <1>5 DEF BrokenAt
<1>7. start_line' = cr + 2
  BY <1>1, AtNextLine
<1>8. CASE check_state = "REQUESTLINE"
  <2>1. start_line = 0
    BY <1>1, <1>8 DEF Understood, AtFirstLine
  <2>2. cr = 1
    <3>1. cr # 0
      BY <1>3, <1>6
    <3>2. ~(cr >= 2)
      BY <1>3, <1>6, <2>1
    <3>3. QED
      BY <1>3, <3>1, <3>2
  <2>3. Text(cr) = <<"get">>
    <3>1. cr = start_line + 1 /\ read_buf[start_line + 1] = "get"
      BY <1>3, <1>6, <2>1, <2>2
    <3>2. QED
      BY <1>3, <3>1, TextOfLine
  <2>4. ParseRequestLine(cr)
    BY <1>8, <2>3 DEF LineActions, BadRequestLine, ParseHeader, EndOfHeaders, Parsing
  <2>5. check_state' = "HEADER" /\ pc' = "parse"
    BY <1>1, <2>4 DEF ParseRequestLine, GoOn
  <2>6. QED
    BY <1>1, <1>2, <1>3, <1>5, <1>7, <2>5 DEF UnderstoodBroken
<1>9. CASE check_state = "HEADER"
  <2>1. cr # start_line
    <3>1. SUFFICES ASSUME cr = start_line
                   PROVE  FALSE
      OBVIOUS
    <3>2. (cr + 1) - 1 = cr
      BY <1>3
    <3>3. QED
      BY <1>2, <1>3, <1>6, <1>9, <3>1, <3>2 DEF EmptyLineAt, LineAt
  <2>2. ParseHeader(cr)
    BY <1>3, <1>9, <2>1, TextOfLine
    DEF LineActions, ParseRequestLine, BadRequestLine, EndOfHeaders, Parsing
  <2>3. check_state' = "HEADER" /\ pc' = "parse"
    BY <1>1, <1>9, <2>2 DEF ParseHeader, GoOn
  <2>4. QED
    BY <1>1, <1>2, <1>3, <1>5, <1>7, <2>3 DEF UnderstoodBroken
<1>10. QED
  BY <1>1, <1>8, <1>9 DEF Invariant, TypeOK, CheckStates

\* What is in front of a request makes its first line bad.
LEMMA LineOfSpoilt ==
  ASSUME Invariant, Understood, request.kind = "spoilt",
         NEW cr \in 0..(read_index - 1), LineActions(cr)
  PROVE  UnderstoodSpoilt' /\ AnswerIsRight'
<1>1. /\ InProcess /\ check_state = "REQUESTLINE" /\ NextLine(cr) /\ LineEndsAt(cr)
      /\ UNCHANGED request /\ start_line = 0 /\ ~linger_
  BY DEF LineActions, ParseRequestLine, BadRequestLine, ParseHeader, EndOfHeaders, Parsing,
         NextLine, InProcess, client_vars, Understood, UnderstoodSpoilt, AtFirstLine
<1>2. Text(cr) # <<"get">>
  <2>1. cr >= start_line
    BY <1>1, EndOfLine DEF Understood
  <2>2. read_buf[start_line + 1] # "get"
    <3>1. read_index \in Nat
      BY LenProperties DEF Invariant, TypeOK, read_index
    <3>2. read_index > 0
      BY <3>1
    <3>3. QED
      BY <1>1, <3>2 DEF Understood, UnderstoodSpoilt
  <2>3. QED
    BY <2>1, <2>2, TextOfLine
<1>3. BadRequestLine(cr)
  BY <1>1, <1>2 DEF LineActions, ParseRequestLine, ParseHeader, EndOfHeaders, Parsing
<1>4. pc' = "answer" /\ result' = "BAD_REQUEST" /\ ~linger_'
  BY <1>1, <1>3 DEF BadRequestLine, Return, header_vars
<1>5. QED
  BY <1>1, <1>4 DEF UnderstoodSpoilt, AnswerIsRight, InProcess

\* A line keeps the invariant, whatever the request is.
LEMMA LineKeeps ==
  ASSUME Invariant, Understood, NEW cr \in 0..(read_index - 1), LineActions(cr)
  PROVE  Understood'
<1>1. NextLine(cr) /\ UNCHANGED client_vars /\ UNCHANGED request
  BY DEF LineActions, ParseRequestLine, BadRequestLine, ParseHeader, EndOfHeaders, Parsing,
         client_vars
<1>2. Received' /\ AtLine' /\ InStep'
  BY <1>1, NextLineKeeps
<1>3. AtFirstLine'
  BY DEF LineActions, ParseRequestLine, BadRequestLine, ParseHeader, EndOfHeaders, Parsing,
         Return, GoOn, AtFirstLine, InProcess
<1>4. NothingOverlooked'
  BY DEF LineActions, ParseRequestLine, BadRequestLine, ParseHeader, EndOfHeaders, Parsing,
         Return, GoOn, NothingOverlooked
<1>5. request.kind \in {"ok", "bad_line", "broken", "spoilt"}
  BY DEF Invariant, TypeOK, Request
<1>6. /\ request.kind # "ok" => UnderstoodGood'
      /\ request.kind # "bad_line" => UnderstoodBad'
      /\ request.kind # "broken" => UnderstoodBroken'
      /\ request.kind # "spoilt" => UnderstoodSpoilt'
  BY <1>1 DEF UnderstoodGood, UnderstoodBad, UnderstoodBroken, UnderstoodSpoilt
<1>7. /\ UnderstoodGood' /\ UnderstoodBad' /\ UnderstoodBroken' /\ UnderstoodSpoilt'
      /\ AnswerIsRight'
  <2>1. CASE request.kind = "broken"
    <3>1. UnderstoodBroken' /\ pc' # "answer"
      BY <2>1, LineOfBroken
    <3>2. QED
      BY <1>6, <2>1, <3>1 DEF AnswerIsRight
  <2>2. QED
    BY <1>5, <1>6, <2>1, LineOfGood, LineOfBad, LineOfSpoilt
<1>8. QED
  BY <1>2, <1>3, <1>4, <1>7 DEF Understood

-----------------------------------------------------------------------------
(* The body, the end of the input, and what arrives.                       *)

\* parse_content(): the body is counted from behind the headers at least.
LEMMA ContentKeeps ==
  ASSUME Invariant, Invariant', Understood, ParseContent \/ ContentMissing
  PROVE  Understood'
<1>1. AtContent /\ UNCHANGED client_vars /\ UNCHANGED header_vars /\ pc = "parse"
      /\ check_state = "CONTENT" /\ InProcess
  BY DEF ParseContent, ContentMissing, AtContent, Parsing, InProcess
<1>2. UNCHANGED <<request, coming, check_state, content_length, linger_>>
  BY <1>1 DEF client_vars, header_vars
<1>3. request.kind = "ok"
  BY <1>1 DEF Understood, UnderstoodBad, UnderstoodBroken, UnderstoodSpoilt, Invariant, TypeOK,
              Request
<1>4. AtBody /\ GoodRequest(request.stream, request)
  BY <1>1, <1>3 DEF Understood, UnderstoodGood
<1>5. /\ checked_index' >= checked_index /\ read_index' = read_index
      /\ Received'
  <2>1. CASE line_status = "OK"
    <3>1. start_line' = checked_index /\ UNCHANGED <<read_buf, checked_index>>
      BY <1>1, <2>1 DEF AtContent
    <3>2. checked_index \in Nat /\ start_line \in Nat /\ start_line <= checked_index
      BY DEF Invariant, TypeOK, IndexesInOrder
    <3>3. Received'
      BY <1>2, <3>1, <3>2 DEF Understood, Received, read_index
    <3>4. QED
      BY <3>1, <3>2, <3>3 DEF read_index
  <2>2. CASE line_status # "OK"
    <3>1. PICK cr \in 0..(read_index - 1) : NextLine(cr)
      BY <1>1, <2>2 DEF AtContent
    <3>2. checked_index' = cr + 2 /\ cr + 2 > checked_index /\ read_index' = read_index
      BY <3>1, AtNextLine
    <3>3. Received'
      BY <1>1, <3>1, NextLineKeeps
    <3>4. QED
      BY <3>2, <3>3 DEF Invariant, TypeOK
  <2>3. QED
    BY <2>1, <2>2
<1>6. /\ checked_index \in Nat /\ checked_index' \in Nat /\ read_index \in Nat
      /\ request.head \in Nat /\ request.body \in Nat
  BY LenProperties DEF Invariant, TypeOK, Request, read_index
<1>7. checked_index' >= request.head
  BY <1>4, <1>5, <1>6 DEF AtBody
<1>8. CASE ParseContent
  <2>1. pc' = "answer"
    BY <1>8 DEF ParseContent, Return
  <2>2. read_index >= request.head + request.body
    BY <1>4, <1>5, <1>6, <1>7, <1>8 DEF ParseContent, BodyAfter, AtBody
  <2>3. AnswerIsRight'
    BY <1>2, <1>3, <1>4, <1>5, <2>2 DEF AnswerIsRight, AtBody
  <2>4. QED
    BY <1>2, <1>3, <1>5, <2>1, <2>3
    DEF Understood, AtLine, AtFirstLine, UnderstoodGood, UnderstoodBad, UnderstoodBroken,
        UnderstoodSpoilt, InStep, NothingOverlooked, InProcess
<1>9. CASE ContentMissing
  <2>1. pc' = "parse"
    BY <1>1, <1>9 DEF ContentMissing, GoOn
  <2>2. AtBody'
    BY <1>2, <1>4, <1>7 DEF AtBody
  <2>3. UnderstoodGood'
    BY <1>1, <1>2, <1>4, <2>2 DEF UnderstoodGood
  <2>4. QED
    BY <1>1, <1>2, <1>3, <1>5, <2>1, <2>3
    DEF Understood, AtLine, AtFirstLine, UnderstoodBad, UnderstoodBroken,
        UnderstoodSpoilt, InStep, NothingOverlooked, AnswerIsRight, InProcess
<1>10. QED
  BY <1>8, <1>9

\* Where the CR and LF of s up to n belong together and its last two symbols are
\* such a pair, parse_line() does not stop in front of them.
LEMMA NoLineInFront ==
  ASSUME NEW s, NEW n \in Nat, n >= 2, Paired(s, n), s[n - 1] = "CR",
         NEW start \in 0..(n - 2), start > 0 => s[start] = "LF",
         NEW i \in Nat, i >= start, \A j \in (start + 1)..i : s[j] \notin {"CR", "LF"},
         i < n => s[i + 1] \in {"CR", "LF"},
         i + 2 <= n => ~(s[i + 1] = "CR" /\ s[i + 2] = "LF")
  PROVE  FALSE
<1>1. i + 1 < n
  BY DEF Paired
<1>2. CASE s[i + 1] = "CR"
  <2>1. i + 1 \in 1..n /\ (i + 1) + 1 = i + 2
    BY <1>1
  <2>2. s[i + 2] = "LF"
    BY <1>2, <2>1 DEF Paired
  <2>3. QED
    BY <1>1, <1>2, <2>2
<1>3. CASE s[i + 1] = "LF"
  <2>1. i + 1 \in 1..n /\ (i + 1) - 1 = i
    BY <1>1
  <2>2. i >= 1 /\ s[i] = "CR"
    BY <1>3, <2>1 DEF Paired
  <2>3. i = start
    BY <2>2
  <2>4. QED
    BY <2>2, <2>3
<1>4. QED
  BY <1>1, <1>2, <1>3

\* Where parse_line() finds no end of a line.
LEMMA AtNoLine ==
  ASSUME Invariant, AtLine, InProcess, check_state # "CONTENT",
         NEW i \in checked_index..read_index, NoLine(i)
  PROVE  /\ \A j \in (start_line + 1)..i : read_buf[j] \notin {"CR", "LF"}
         /\ i < read_index => read_buf[i + 1] \in {"CR", "LF"}
         /\ i + 2 <= read_index => ~(read_buf[i + 1] = "CR" /\ read_buf[i + 2] = "LF")
<1>1. /\ read_index \in Nat /\ start_line \in Nat /\ checked_index \in Nat
      /\ start_line <= checked_index /\ checked_index <= i /\ i <= read_index /\ i \in Nat
  BY LenProperties DEF Invariant, TypeOK, IndexesInOrder, read_index
<1>2. ASSUME NEW j \in (start_line + 1)..i
      PROVE  read_buf[j] \notin {"CR", "LF"}
  <2>1. CASE j <= checked_index
    BY <1>1, <2>1 DEF AtLine
  <2>2. CASE j > checked_index
    <3>1. j - 1 \in checked_index..(i - 1) /\ (j - 1) + 1 = j
      BY <1>1, <2>2
    <3>2. QED
      BY <3>1 DEF NoLine, PassesOver, At
  <2>3. QED
    BY <1>1, <2>1, <2>2
<1>3. i < read_index => read_buf[i + 1] \in {"CR", "LF"}
  BY DEF NoLine, At
<1>4. ASSUME i + 2 <= read_index, read_buf[i + 1] = "CR", read_buf[i + 2] = "LF"
      PROVE  FALSE
  <2>1. i \in 0..(read_index - 1) /\ i + 1 < read_index /\ (i + 1) + 1 = i + 2
    BY <1>1, <1>4
  <2>2. LineEndsAt(i)
    BY <1>1, <1>4, <2>1 DEF LineEndsAt, At, NoLine
  <2>3. QED
    BY <2>1, <2>2 DEF NoLine
<1>5. QED
  BY <1>2, <1>3, <1>4

\* process_read() asks for more: there is more to come.
LEMMA NoMoreLinesKeeps ==
  ASSUME Invariant, Invariant', Understood,
         NEW i \in checked_index..read_index, NoMoreLines(i)
  PROVE  Understood'
<1> DEFINE s == request.stream
<1>1. /\ InProcess /\ pc = "parse" /\ pc' = "read" /\ checked_index' = i /\ NoLine(i)
      /\ UNCHANGED <<request, coming, read_buf, start_line, check_state, content_length, linger_>>
  BY DEF NoMoreLines, InProcess, client_vars, header_vars
<1>2. /\ read_index \in Nat /\ start_line \in Nat /\ checked_index \in Nat
      /\ checked_index <= i /\ i \in Nat /\ i >= start_line
      /\ request.head \in Nat /\ request.line \in Nat
  BY LenProperties DEF Invariant, TypeOK, IndexesInOrder, Request, read_index
<1>3. check_state # "CONTENT" => \A j \in (start_line + 1)..i : read_buf[j] \notin {"CR", "LF"}
  BY <1>1, AtNoLine DEF Understood
<1>4. AtLine'
  BY <1>1, <1>3 DEF Understood, AtLine, InProcess
<1>5. /\ Received' /\ AtFirstLine' /\ UnderstoodBad' /\ UnderstoodBroken' /\ UnderstoodSpoilt'
      /\ InStep' /\ AnswerIsRight'
  BY <1>1 DEF Understood, Received, AtFirstLine, UnderstoodBad, UnderstoodBroken,
              UnderstoodSpoilt, InStep, AnswerIsRight, InProcess, read_index
<1>6. UnderstoodGood'
  <2>1. AtBody => AtBody'
    BY <1>1, <1>2 DEF AtBody
  <2>2. AtHeader(s) => AtHeader(s)'
    BY <1>1 DEF AtHeader
  <2>3. QED
    BY <1>1, <2>1, <2>2 DEF Understood, UnderstoodGood, InProcess
<1>7. ASSUME check_state # "CONTENT", request.kind # "spoilt",
             NEW n \in Nat, n >= 2, n <= read_index, Paired(s, n), s[n - 1] = "CR",
             start_line <= n - 2, start_line > 0 => s[start_line] = "LF"
      PROVE  FALSE
  <2>1. \A j \in (start_line + 1)..read_index : read_buf[j] = s[j]
    BY <1>7 DEF Understood, Received
  <2>2. /\ \A j \in (start_line + 1)..i : s[j] \notin {"CR", "LF"}
        /\ i < n => s[i + 1] \in {"CR", "LF"}
        /\ i + 2 <= n => ~(s[i + 1] = "CR" /\ s[i + 2] = "LF")
    <3>1. /\ \A j \in (start_line + 1)..i : read_buf[j] \notin {"CR", "LF"}
          /\ i < read_index => read_buf[i + 1] \in {"CR", "LF"}
          /\ i + 2 <= read_index => ~(read_buf[i + 1] = "CR" /\ read_buf[i + 2] = "LF")
      BY <1>1, <1>7, AtNoLine DEF Understood
    <3>2. /\ i < n => i + 1 \in (start_line + 1)..read_index
          /\ i + 2 <= n => i + 1 \in (start_line + 1)..read_index
                           /\ i + 2 \in (start_line + 1)..read_index
          /\ \A j \in (start_line + 1)..i : j \in (start_line + 1)..read_index
      BY <1>2, <1>7
    <3>3. QED
      BY <1>2, <1>7, <2>1, <3>1, <3>2
  <2>3. start_line \in 0..(n - 2)
    BY <1>2, <1>7
  <2>4. QED
    BY <1>2, <1>7, <2>2, <2>3, NoLineInFront
<1>8. NothingOverlooked'
  <2>1. ASSUME request.kind = "ok", request.body = 0, ~(read_index < request.head)
        PROVE  FALSE
    <3>1. /\ GoodRequest(s, request) /\ check_state # "CONTENT"
          /\ check_state = "HEADER" => AtHeader(s)
      BY <1>1, <2>1 DEF Understood, UnderstoodGood, AtBody
    <3>2. /\ request.head >= 5 /\ request.head <= read_index
          /\ Paired(s, request.head) /\ s[request.head - 1] = "CR"
      BY <1>2, <2>1, <3>1 DEF GoodRequest, EmptyLineAt
    <3>3. start_line <= request.head - 2 /\ (start_line > 0 => s[start_line] = "LF")
      <4>1. CASE check_state = "HEADER"
        BY <1>2, <3>1, <4>1 DEF AtHeader
      <4>2. CASE check_state = "REQUESTLINE"
        BY <1>1, <1>2, <3>2, <4>2 DEF Understood, AtFirstLine
      <4>3. QED
        BY <3>1, <4>1, <4>2 DEF Invariant, TypeOK, CheckStates
    <3>4. QED
      BY <1>2, <1>7, <2>1, <3>1, <3>2, <3>3
  <2>2. ASSUME request.kind = "bad_line", ~(read_index < request.line)
        PROVE  FALSE
    <3>1. BadFirstLine(s, request.line) /\ check_state = "REQUESTLINE" /\ start_line = 0
      BY <1>1, <2>2 DEF Understood, UnderstoodBad, AtFirstLine
    <3>2. /\ request.line >= 2 /\ request.line <= read_index
          /\ Paired(s, request.line) /\ s[request.line - 1] = "CR"
      BY <1>2, <2>2, <3>1 DEF BadFirstLine
    <3>3. QED
      BY <1>2, <1>7, <2>2, <3>1, <3>2
  <2>3. QED
    BY <1>1, <2>1, <2>2 DEF NothingOverlooked, read_index
<1>9. QED
  BY <1>4, <1>5, <1>6, <1>8 DEF Understood

\* read(): what arrives is the next piece of the request.
LEMMA ReadKeeps ==
  ASSUME Invariant, Invariant', Understood, NEW n \in 1..Len(coming), Read(n)
  PROVE  Understood'
<1> DEFINE s == request.stream
<1>1. /\ pc = "read" /\ pc' = "parse" /\ InProcess
      /\ read_buf' = read_buf \o SubSeq(coming, 1, n)
      /\ coming' = SubSeq(coming, n + 1, Len(coming))
      /\ UNCHANGED <<request, checked_index, start_line, check_state, content_length, linger_>>
  BY DEF Read, Arrive, InProcess, header_vars
<1>2. /\ coming \in Seq(Symbols) /\ Len(coming) \in Nat /\ n \in Nat /\ n <= Len(coming)
      /\ \A i \in 1..Len(coming) : coming[i] \in Symbols
      /\ read_buf \in Seq(Cells) /\ read_index \in Nat
      /\ start_line \in Nat /\ checked_index \in Nat
      /\ start_line <= checked_index /\ checked_index <= read_index
      /\ s \in Seq(Symbols) /\ Len(s) \in Nat /\ \A i \in 1..Len(s) : s[i] \in Symbols
  BY LenProperties DEF Invariant, TypeOK, IndexesInOrder, Cells, Request, read_index
<1>3. /\ read_index' = read_index + n
      /\ \A i \in 1..read_index : read_buf'[i] = read_buf[i]
      /\ \A i \in (read_index + 1)..(read_index + n) : read_buf'[i] = coming[i - read_index]
  <2> DEFINE piece == SubSeq(coming, 1, n)
  <2>1. /\ piece \in Seq(Cells) /\ Len(piece) = n /\ \A i \in 1..n : piece[i] = coming[i]
    <3>1. \A i \in 1..n : coming[i] \in Cells
      BY <1>2 DEF Cells
    <3>2. QED
      BY <1>2, <3>1, SubSeqProperties
  <2>2. /\ Len(read_buf \o piece) = read_index + n
        /\ \A i \in 1..(read_index + n) :
             (read_buf \o piece)[i] = IF i <= read_index THEN read_buf[i] ELSE piece[i - read_index]
    BY <1>2, <2>1, ConcatProperties DEF read_index
  <2> HIDE DEF piece
  <2>3. read_buf' = read_buf \o piece
    BY <1>1 DEF piece
  <2>4. read_index' = read_index + n
    BY <2>2, <2>3 DEF read_index
  <2>5. \A i \in (read_index + 1)..(read_index + n) : i - read_index \in 1..n
    BY <1>2
  <2>6. QED
    BY <1>2, <2>1, <2>2, <2>3, <2>4, <2>5
<1>4. Received'
  <2> SUFFICES ASSUME request.kind # "spoilt"
               PROVE  /\ read_index + n <= Len(s)
                      /\ coming' = SubSeq(s, (read_index + n) + 1, Len(s))
                      /\ \A i \in (start_line + 1)..(read_index + n) : read_buf'[i] = s[i]
    BY <1>1, <1>3 DEF Received
  <2>1. /\ read_index <= Len(s) /\ coming = SubSeq(s, read_index + 1, Len(s))
        /\ \A i \in (start_line + 1)..read_index : read_buf[i] = s[i]
    BY DEF Understood, Received
  <2>2. /\ Len(coming) = Len(s) - read_index
        /\ \A i \in 1..Len(coming) : coming[i] = s[read_index + i]
    <3>1. \A i \in (read_index + 1)..Len(s) : s[i] \in Symbols
      BY <1>2
    <3>2. /\ Len(SubSeq(s, read_index + 1, Len(s)))
               = IF read_index + 1 <= Len(s) THEN Len(s) - (read_index + 1) + 1 ELSE 0
          /\ \A i \in 1..(Len(s) - (read_index + 1) + 1) :
               SubSeq(s, read_index + 1, Len(s))[i] = s[(read_index + 1) + i - 1]
      BY <1>2, <3>1, SubSeqProperties
    <3>3. QED
      BY <1>2, <2>1, <3>2
  <2>3. read_index + n <= Len(s)
    BY <1>2, <2>1, <2>2
  <2>4. coming' = SubSeq(s, (read_index + n) + 1, Len(s))
    <3> DEFINE rest == SubSeq(s, (read_index + n) + 1, Len(s))
    <3>1. /\ coming' \in Seq(Symbols)
          /\ Len(coming') = IF n + 1 <= Len(coming) THEN Len(coming) - (n + 1) + 1 ELSE 0
          /\ \A i \in 1..(Len(coming) - (n + 1) + 1) : coming'[i] = coming[(n + 1) + i - 1]
      <4>1. \A i \in (n + 1)..Len(coming) : coming[i] \in Symbols
        BY <1>2
      <4>2. QED
        BY <1>1, <1>2, <4>1, SubSeqProperties
    <3>2. /\ rest \in Seq(Symbols)
          /\ Len(rest) = IF (read_index + n) + 1 <= Len(s)
                         THEN Len(s) - ((read_index + n) + 1) + 1 ELSE 0
          /\ \A i \in 1..(Len(s) - ((read_index + n) + 1) + 1) :
               rest[i] = s[((read_index + n) + 1) + i - 1]
      <4>1. \A i \in ((read_index + n) + 1)..Len(s) : s[i] \in Symbols
        BY <1>2
      <4>2. QED
        BY <1>2, <4>1, SubSeqProperties
    <3> HIDE DEF rest
    <3>3. Len(coming') = Len(rest)
      BY <1>2, <2>2, <3>1, <3>2
    <3>4. ASSUME NEW i \in 1..Len(coming')
          PROVE  coming'[i] = rest[i]
      <4>1. i \in 1..(Len(coming) - n) /\ n + i \in 1..Len(coming)
        BY <1>2, <3>1
      <4>2. coming'[i] = coming[n + i]
        BY <1>2, <3>1, <4>1
      <4>3. coming[n + i] = s[read_index + (n + i)]
        BY <2>2, <4>1
      <4>4. rest[i] = s[(read_index + n) + i]
        BY <1>2, <2>2, <3>2, <4>1
      <4>5. read_index + (n + i) = (read_index + n) + i
        BY <1>2, <4>1
      <4>6. QED
        BY <4>2, <4>3, <4>4, <4>5
    <3>5. coming' = rest
      BY <3>1, <3>2, <3>3, <3>4, SeqEqual
    <3>6. QED
      BY <3>5 DEF rest
  <2>5. ASSUME NEW i \in (start_line + 1)..(read_index + n)
        PROVE  read_buf'[i] = s[i]
    <3>1. CASE i <= read_index
      BY <1>2, <1>3, <2>1, <3>1
    <3>2. CASE i > read_index
      <4>1. i - read_index \in 1..Len(coming) /\ read_index + (i - read_index) = i
        BY <1>2, <3>2
      <4>2. QED
        BY <1>2, <1>3, <2>2, <3>2, <4>1
    <3>3. QED
      BY <1>2, <3>1, <3>2
  <2>6. QED
    BY <2>3, <2>4, <2>5
<1>5. AtLine'
  <2> SUFFICES ASSUME check_state # "CONTENT"
               PROVE  /\ \A i \in (start_line + 1)..checked_index : read_buf'[i] \notin {"CR", "LF"}
                      /\ start_line > 0 => read_buf'[start_line] = "NUL"
    BY <1>1 DEF AtLine
  <2>1. \A i \in 1..checked_index : read_buf'[i] = read_buf[i]
    BY <1>2, <1>3
  <2>2. /\ \A i \in (start_line + 1)..checked_index : read_buf[i] \notin {"CR", "LF"}
        /\ start_line > 0 => read_buf[start_line] = "NUL"
    BY <1>1 DEF Understood, AtLine
  <2>3. /\ \A i \in (start_line + 1)..checked_index : i \in 1..checked_index
        /\ start_line > 0 => start_line \in 1..checked_index
    BY <1>2
  <2>4. QED
    BY <2>1, <2>2, <2>3
<1>6. UnderstoodGood'
  <2>1. /\ AtBody => AtBody'
        /\ AtHeader(s) => AtHeader(s)'
    BY <1>1 DEF AtBody, AtHeader
  <2>2. QED
    BY <1>1, <2>1 DEF Understood, UnderstoodGood, InProcess
<1>7. UnderstoodSpoilt'
  <2> SUFFICES ASSUME request.kind = "spoilt"
               PROVE  check_state = "REQUESTLINE" /\ read_buf'[1] # "get"
    BY <1>1, <1>2, <1>3 DEF UnderstoodSpoilt
  <2>1. /\ check_state = "REQUESTLINE"
        /\ read_index > 0 => read_buf[1] # "get"
        /\ read_index = 0 => coming[1] # "get"
    BY <1>1 DEF Understood, UnderstoodSpoilt
  <2>2. QED
    BY <1>2, <1>3, <2>1
<1>8. /\ AtFirstLine' /\ UnderstoodBad' /\ UnderstoodBroken' /\ InStep'
      /\ NothingOverlooked' /\ AnswerIsRight'
  BY <1>1 DEF Understood, AtFirstLine, UnderstoodBad, UnderstoodBroken, InStep,
              NothingOverlooked, AnswerIsRight, InProcess
<1>9. QED
  BY <1>4, <1>5, <1>6, <1>7, <1>8 DEF Understood

-----------------------------------------------------------------------------
(* Requests come and go.                                                   *)

\* A connection at the start of a request: what init() and a client's next request
\* make of it.
AtStart ==
  /\ read_buf = <<>> /\ checked_index = 0 /\ start_line = 0
  /\ check_state = "REQUESTLINE" /\ content_length = 0 /\ ~linger_
  /\ pc = "read"

NewRequest == AtStart /\ request \in Requests /\ coming = request.stream

\* Something that is no request is in front of the next one.
SpoiltRequest ==
  AtStart /\ request.kind = "spoilt" /\ coming # <<>> /\ coming[1] # "get"

LEMMA StartIsUnderstood == NewRequest \/ SpoiltRequest => Understood
<1>1. ASSUME AtStart
      PROVE  /\ AtLine /\ AtFirstLine /\ read_index = 0 /\ InProcess /\ AnswerIsRight
             /\ start_line = 0 /\ check_state = "REQUESTLINE"
  BY <1>1, EmptySeq DEF AtStart, AtLine, AtFirstLine, read_index, InProcess, AnswerIsRight
<1>2. CASE NewRequest
  <2>1. /\ request \in Requests /\ request \in Request /\ request.stream \in Seq(Symbols)
        /\ coming = request.stream
    BY <1>2, ParserAssumption DEF NewRequest, Request
  <2>2. \/ /\ request.kind = "ok" /\ GoodRequest(request.stream, request)
           /\ request.keep =>
                OthersAreRequests(request.stream, request.head + request.body + 1)
        \/ request.kind = "bad_line" /\ BadFirstLine(request.stream, request.line)
        \/ request.kind = "broken"
           /\ \E p \in 1..Len(request.stream) : BrokenAt(request.stream, p)
    BY <2>1, RequestsAssumption
  <2>3. Received
    <3>1. SubSeq(request.stream, 1, Len(request.stream)) = request.stream
      BY <2>1, SubSeqFull
    <3>2. Len(request.stream) \in Nat /\ 0 + 1 = 1
      BY <2>1, LenProperties
    <3>3. QED
      BY <1>1, <1>2, <2>1, <3>1, <3>2 DEF NewRequest, Received
  <2>4. UnderstoodGood /\ UnderstoodBad /\ UnderstoodSpoilt /\ InStep
    BY <1>1, <1>2, <2>2
    DEF NewRequest, UnderstoodGood, UnderstoodBad, UnderstoodSpoilt, InStep
  <2>5. UnderstoodBroken
    BY <1>1, <1>2, <2>2 DEF NewRequest, AtStart, UnderstoodBroken
  <2>6. NothingOverlooked
    <3>1. request.head \in Nat /\ request.line \in Nat
      BY <2>1 DEF Request
    <3>2. QED
      BY <1>1, <1>2, <2>2, <3>1 DEF NewRequest, NothingOverlooked, GoodRequest, BadFirstLine
  <2>7. QED
    BY <1>1, <1>2, <2>3, <2>4, <2>5, <2>6 DEF Understood, NewRequest
<1>3. CASE SpoiltRequest
  BY <1>1, <1>3
  DEF SpoiltRequest, Understood, Received, UnderstoodGood, UnderstoodBad, UnderstoodBroken,
      UnderstoodSpoilt, InStep, NothingOverlooked
<1>4. QED
  BY <1>2, <1>3

\* What is left of what a client sent is a request that has not been touched, or
\* does not begin like one.
LEMMA NextRequestStarts ==
  ASSUME Invariant, Understood, NEW req \in Requests, NextRequest(req)
  PROVE  (NewRequest \/ SpoiltRequest)'
<1>1. AtStart'
  BY DEF NextRequest, ResetParser, AtStart
<1>2. CASE request' = req /\ coming' = req.stream
  BY <1>1, <1>2 DEF NewRequest
<1>3. CASE /\ Unread \notin {<<>>} \union {r.stream : r \in Requests}
           /\ request' = [req EXCEPT !.kind = "spoilt"]
           /\ coming' = Unread \o req.stream
  <2> DEFINE s == request.stream
  <2>1. pc = "answer" /\ linger_ /\ Unread = coming /\ coming # <<>>
    BY <1>3 DEF NextRequest, Unread
  <2>2. /\ request.kind = "ok" /\ request.keep
        /\ read_index >= request.head + request.body
    BY <2>1 DEF Understood, AnswerIsRight, Invariant, TypeOK
  <2>3. /\ s \in Seq(Symbols) /\ Len(s) \in Nat /\ coming \in Seq(Symbols)
        /\ \A i \in 1..Len(s) : s[i] \in Symbols
        /\ read_index \in Nat /\ request.head \in Nat /\ request.body \in Nat
    BY LenProperties DEF Invariant, TypeOK, Request, read_index
  <2>4. read_index <= Len(s) /\ coming = SubSeq(s, read_index + 1, Len(s))
    BY <2>2 DEF Understood, Received
  <2>5. read_index + 1 \in 1..Len(s) /\ coming[1] = s[read_index + 1]
    <3>1. read_index + 1 <= Len(s)
      BY <2>1, <2>3, <2>4, SubSeqEmpty
    <3>2. \A i \in (read_index + 1)..Len(s) : s[i] \in Symbols
      BY <2>3
    <3>3. \A i \in 1..(Len(s) - (read_index + 1) + 1) : coming[i] = s[(read_index + 1) + i - 1]
      BY <2>3, <2>4, <3>2, SubSeqProperties
    <3>4. 1 \in 1..(Len(s) - (read_index + 1) + 1) /\ (read_index + 1) + 1 - 1 = read_index + 1
      BY <2>3, <3>1
    <3>5. QED
      BY <2>3, <3>1, <3>3, <3>4
  <2>6. coming[1] # "get"
    <3>1. SUFFICES ASSUME coming[1] = "get"
                   PROVE  FALSE
      OBVIOUS
    <3>2. OthersAreRequests(s, request.head + request.body + 1)
      BY <2>2 DEF Understood, InStep
    <3>3. \E r \in Requests : r.stream = coming
      BY <2>2, <2>3, <2>4, <2>5, <3>1, <3>2 DEF OthersAreRequests
    <3>4. QED
      BY <1>3, <2>1, <3>3
  <2>7. coming' # <<>> /\ coming'[1] # "get"
    <3>1. req.stream \in Seq(Symbols)
      BY ParserAssumption DEF Request
    <3>2. Len(coming) \in Nat \ {0} /\ Len(req.stream) \in Nat
      BY <2>1, <2>3, <3>1, EmptySeq, LenProperties
    <3>3. /\ Len(coming \o req.stream) = Len(coming) + Len(req.stream)
          /\ (coming \o req.stream)[1] = coming[1]
      BY <2>3, <3>1, <3>2, ConcatProperties
    <3>4. coming \o req.stream # <<>>
      BY <3>2, <3>3, EmptySeq
    <3>5. QED
      BY <1>3, <2>1, <2>6, <3>3, <3>4
  <2>8. request'.kind = "spoilt"
    BY <1>3, ParserAssumption DEF Request
  <2>9. QED
    BY <1>1, <2>7, <2>8 DEF SpoiltRequest
<1>4. QED
  BY <1>2, <1>3 DEF NextRequest

-----------------------------------------------------------------------------
(* The theorems.                                                           *)

LEMMA UnderstoodHolds == Spec => []Understood
<1>1. Init => Understood
  BY StartIsUnderstood DEF Init, NewRequest, AtStart
<1>2. Invariant /\ Invariant' /\ Understood /\ [Next]_vars => Understood'
  <2> SUFFICES ASSUME Invariant, Invariant', Understood, [Next]_vars
               PROVE  Understood'
    OBVIOUS
  <2>1. ASSUME NEW cr \in 0..(read_index - 1), LineActions(cr)
        PROVE  Understood'
    BY <2>1, LineKeeps
  <2>2. CASE ParseContent \/ ContentMissing
    BY <2>2, ContentKeeps
  <2>3. ASSUME NEW i \in checked_index..read_index, NoMoreLines(i)
        PROVE  Understood'
    BY <2>3, NoMoreLinesKeeps
  <2>4. ASSUME NEW n \in 1..Len(coming), Read(n)
        PROVE  Understood'
    BY <2>4, ReadKeeps
  <2>5. ASSUME NEW req \in Requests, NextRequest(req)
        PROVE  Understood'
    <3>1. (NewRequest \/ SpoiltRequest)'
      BY <2>5, NextRequestStarts
    <3>2. (NewRequest \/ SpoiltRequest)' => Understood'
      BY StartIsUnderstood, PTL
    <3>3. QED
      BY <3>1, <3>2
  <2>6. CASE Close \/ UNCHANGED vars
    <3>1. /\ UNCHANGED <<client_vars, line_vars, header_vars, result>>
          /\ pc' = pc \/ pc' = "closed"
      BY <2>6 DEF Close, vars
    <3>2. UNCHANGED <<request, coming, read_buf, checked_index, start_line, check_state,
                      content_length, linger_>>
      BY <3>1 DEF client_vars, line_vars, header_vars
    <3>3. AtBody' = AtBody /\ AtHeader(request.stream)' = AtHeader(request.stream)
      BY <3>2 DEF AtBody, AtHeader
    <3>4. QED
      BY <3>1, <3>2, <3>3
      DEF Understood, Received, AtLine, AtFirstLine, UnderstoodGood, UnderstoodBad,
          UnderstoodBroken, UnderstoodSpoilt, InStep, NothingOverlooked, AnswerIsRight,
          InProcess, read_index
  <2>7. QED
    BY <2>1, <2>2, <2>3, <2>4, <2>5, <2>6 DEF Next, process_read, LineActions
<1>3. QED
  BY <1>1, <1>2, InvariantHolds, PTL DEF Spec

\* What process_read() has answered is the request, complete and with its own wish
\* for the connection; what is no request gets a 400 or nothing, also when it comes
\* from a client that did not wait for its answers.
THEOREM AnswersAreRight == Spec => []AnswerIsRight
<1>1. Understood => AnswerIsRight
  BY DEF Understood
<1>2. QED
  BY <1>1, UnderstoodHolds, PTL

\* process_read() never goes back to sleep over a request without a body that has
\* been received, nor over a bad first line.
THEOREM NothingIsOverlooked == Spec => []NothingOverlooked
<1>1. Understood => NothingOverlooked
  BY DEF Understood
<1>2. QED
  BY <1>1, UnderstoodHolds, PTL

=============================================================================
