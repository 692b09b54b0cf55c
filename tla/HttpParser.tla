------------------------------ MODULE HttpParser ------------------------------
(***************************************************************************)
(* The request parser of class httpConn, the same code in                  *)
(* src/threadPool/httpConn.cc and src/eventLoop/httpConn.cc: read() puts   *)
(* what the socket has into read_buf, and process_read() goes on from      *)
(* where it was, line by line.                                             *)
(*                                                                         *)
(* A request is a sequence of symbols, which the socket delivers in pieces *)
(* of any size.  Two symbols are the characters CR and LF, the others are  *)
(* texts without them:                                                     *)
(*                                                                         *)
(*   "get"      a request line parse_request_line() accepts                *)
(*   "keep"     Connection: keep-alive                                     *)
(*   "length"   Content-Length: with the value ContentLength               *)
(*   "x"        anything else                                              *)
(*                                                                         *)
(* parse_line() looks for CR and LF only and the other functions see whole *)
(* lines, so pieces that end within a text do nothing that pieces that end *)
(* at its borders do not.  Sizes, the Content-Length too, count symbols; a *)
(* Content-Length is no negative number.                                   *)
(*                                                                         *)
(* Grain.  One thread at a time has the connection (ReactorServer and      *)
(* EventLoop), so a round of process_read()'s loop is an action.           *)
(***************************************************************************)
EXTENDS Integers, Sequences

CONSTANTS
  Requests,         \* what a client may send, see below
  ContentLength,
  READ_BUFFER_SIZE

Symbols == {"CR", "LF", "get", "keep", "length", "x"}

\* A request comes with what it means (RequestsAssumption): its kind ("bad_line":
\* parse_request_line() does not accept the first line; "broken": it has a CR or
\* an LF outside a CR LF; "spoilt": something is in front of it), the lengths of
\* the first line, of the lines up to the empty one, and of the body, and whether
\* the connection is to be kept alive.  What its stream has beyond the body the client sends
\* without waiting for the answer: a further request, or characters that belong
\* to none, as those at the end of the request of stressTest.cc.
Request ==
  [stream : Seq(Symbols), kind : {"ok", "bad_line", "broken", "spoilt"},
   line : Nat, head : Nat, body : Nat, keep : BOOLEAN]

ASSUME ParserAssumption ==
  /\ Requests \subseteq Request
  /\ ContentLength \in Nat \ {0}
  /\ READ_BUFFER_SIZE \in Nat \ {0}

\* In the first n symbols of s a CR and an LF occur as CR LF only.
Paired(s, n) ==
  \A i \in 1..n : /\ s[i] = "CR" => i < n /\ s[i + 1] = "LF"
                  /\ s[i] = "LF" => i > 1 /\ s[i - 1] = "CR"

\* A line of s starts at i; one that starts with CR is the empty line.
LineAt(s, i) == i = 1 \/ s[i - 1] = "LF"
EmptyLineAt(s, i) == LineAt(s, i) /\ s[i] = "CR"

\* One of the lines in the first n symbols of s is that header.
KeepLine(s, n) == \E i \in 1..n : LineAt(s, i) /\ s[i] = "keep" /\ s[i + 1] = "CR"
LengthLine(s, n) == \E i \in 1..n : LineAt(s, i) /\ s[i] = "length"

\* s starts with a request line that is accepted, header lines and the empty
\* line, its first one, and req says so.
GoodRequest(s, req) ==
  /\ req.head \in 5..Len(s)
  /\ s[1] = "get" /\ s[2] = "CR"
  /\ Paired(s, req.head)
  /\ EmptyLineAt(s, req.head - 1) /\ \A i \in 1..(req.head - 2) : ~EmptyLineAt(s, i)
  /\ req.keep <=> KeepLine(s, req.head)
  /\ req.body = IF LengthLine(s, req.head) THEN ContentLength ELSE 0

\* The first n symbols of s are a line that parse_request_line() rejects.
BadFirstLine(s, n) ==
  /\ n \in 2..Len(s)
  /\ s[n - 1] = "CR" /\ Paired(s, n) /\ \A i \in 1..(n - 2) : s[i] # "CR"
  /\ n = 3 => s[1] # "get"

\* The first CR or LF that is out of place is at p, after a first line that is
\* accepted, if it is one, and before an empty line.
BrokenAt(s, p) ==
  /\ Paired(s, p - 1)
  /\ s[p] = "LF" \/ (s[p] = "CR" /\ p < Len(s) /\ s[p + 1] # "LF")
  /\ \A i \in 1..(p - 1) : s[i] = "CR" => s[1] = "get" /\ s[2] = "CR" /\ ~EmptyLineAt(s, i)

\* What follows a request that is kept has no other requests in it.
OthersAreRequests(s, n) ==
  \A i \in n..Len(s) : s[i] = "get" => \E r \in Requests : r.stream = SubSeq(s, i, Len(s))

\* The meaning a request comes with is the one its stream has.
ASSUME RequestsAssumption ==
  \A req \in Requests :
    \/ /\ req.kind = "ok" /\ GoodRequest(req.stream, req)
       /\ req.keep => OthersAreRequests(req.stream, req.head + req.body + 1)
    \/ req.kind = "bad_line" /\ BadFirstLine(req.stream, req.line)
    \/ req.kind = "broken" /\ \E p \in 1..Len(req.stream) : BrokenAt(req.stream, p)

VARIABLES
  request,          \* what read_buf and coming start with
  coming,           \* what the client has sent and read() has not received
  read_buf,         \* read_buf[0..read_index-1]
  checked_index,
  start_line,
  check_state,
  line_status,      \* the local variable of process_read(), at the loop's head
  content_length,
  linger_,
  pc,               \* where the connection is
  result            \* what process_read() returned

client_vars == <<request, coming>>
line_vars == <<read_buf, checked_index, start_line, line_status>>
header_vars == <<check_state, content_length, linger_>>
vars == <<client_vars, line_vars, header_vars, pc, result>>

read_index == Len(read_buf)

\* "read": waiting for input; "parse": in the loop of process_read();
\* "answer": process_read() has returned something to answer; "closed".
States == {"read", "parse", "answer", "closed"}

CheckStates == {"REQUESTLINE", "HEADER", "CONTENT"}

\* What do_request() may return: it depends on the file.
FileResults == {"NO_RESOURCE", "FORBIDDEN_REQUEST", "BAD_REQUEST", "FILE_REQUEST"}

TypeOK ==
  /\ request \in Request
  /\ coming \in Seq(Symbols)
  /\ read_buf \in Seq(Symbols \union {"NUL"}) /\ read_index <= READ_BUFFER_SIZE
  /\ checked_index \in Nat
  /\ start_line \in Nat
  /\ check_state \in CheckStates
  /\ line_status \in {"OK", "OPEN"}
  /\ content_length \in {0, ContentLength}
  /\ linger_ \in BOOLEAN
  /\ pc \in States
  /\ result \in {"NO_REQUEST"} \union FileResults

-----------------------------------------------------------------------------

\* Mutant of ResetParser: checked_index keeps its value.
ResetParserUnchecked ==
  /\ read_buf' = <<>>
  /\ start_line' = 0
  /\ check_state' = "REQUESTLINE"
  /\ content_length' = 0
  /\ linger_' = FALSE
  /\ UNCHANGED checked_index

\* Mutant of ResetParser: linger_ keeps its value.
ResetParserLingers ==
  /\ read_buf' = <<>>
  /\ checked_index' = 0
  /\ start_line' = 0
  /\ check_state' = "REQUESTLINE"
  /\ content_length' = 0
  /\ UNCHANGED linger_

\* init().
ResetParser ==
  /\ read_buf' = <<>>
  /\ checked_index' = 0
  /\ start_line' = 0
  /\ check_state' = "REQUESTLINE"
  /\ content_length' = 0
  /\ linger_' = FALSE

Init ==
  /\ request \in Requests
  /\ coming = request.stream
  /\ read_buf = <<>>
  /\ checked_index = 0
  /\ start_line = 0
  /\ check_state = "REQUESTLINE"
  /\ line_status = "OK"
  /\ content_length = 0
  /\ linger_ = FALSE
  /\ pc = "read"
  /\ result = "NO_REQUEST"

\* What a connection that is kept still has to read; a closed one has nothing.
Unread == IF pc = "closed" THEN <<>> ELSE coming

\* The answer is out and the connection is kept, or it is closed and its
\* httpConn used for a new one: either way init(), which drops what has been read
\* of further requests.  The next one is sent when it is its turn, or it was sent
\* with the one before and nothing of it has been dropped, or it follows the
\* remains of what was.
NextRequest(req) ==
  /\ pc = "closed" \/ (pc = "answer" /\ linger_)
  /\ ResetParser
  /\ \/ Unread = <<>> /\ request' = req /\ coming' = req.stream
     \/ Unread = req.stream /\ request' = req /\ coming' = Unread
     \/ /\ Unread \notin {<<>>} \union {r.stream : r \in Requests}
        /\ request' = [req EXCEPT !.kind = "spoilt"]
        /\ coming' = Unread \o req.stream
  /\ pc' = "read"
  /\ result' = "NO_REQUEST"
  /\ UNCHANGED line_status

\* The connection is closed: recv() fails, the client is gone, or read_buf is full
\* and there is more to come (when read() is called, or when its loop asks recv()
\* for 0 bytes and 0 are returned); or the answer could not be sent, or was and the
\* connection is not to be kept.
Close ==
  /\ pc \in {"read", "answer"}
  /\ pc' = "closed"
  /\ UNCHANGED <<client_vars, line_vars, header_vars, result>>

-----------------------------------------------------------------------------
(* read().                                                                 *)

\* n symbols have arrived; process_read() starts with line_status = LINE_OK.
Arrive(n) ==
  /\ pc = "read"
  /\ read_buf' = read_buf \o SubSeq(coming, 1, n)
  /\ coming' = SubSeq(coming, n + 1, Len(coming))
  /\ line_status' = "OK"
  /\ pc' = "parse"
  /\ UNCHANGED <<request, checked_index, start_line, header_vars, result>>

\* Mutant of Read: recv() is asked for READ_BUFFER_SIZE bytes wherever they go.
ReadTooMuch(n) == n <= READ_BUFFER_SIZE /\ Arrive(n)

\* The loop around recv() ends with EAGAIN, also where the buffer is full: recv() of
\* 0 bytes fails so as long as nothing else has arrived.
Read(n) == read_index + n <= READ_BUFFER_SIZE /\ Arrive(n)

-----------------------------------------------------------------------------
(* parse_line().                                                           *)

At(i) == read_buf[i + 1]

\* The symbols from checked_index up to i are no CR and no LF.
PassesOver(i) == \A j \in checked_index..(i - 1) : At(j) \notin {"CR", "LF"}

\* Mutant of LineEndsAt: (checked_index + 2) == read_index for + 1.
LineEndsAtOffByOne(cr) ==
  /\ cr + 2 < read_index /\ At(cr) = "CR" /\ At(cr + 1) = "LF"
  /\ cr >= checked_index /\ PassesOver(cr)

\* parse_line() returns LINE_OK for a CR LF at cr: it comes across the CR, or,
\* if it stopped after that, across the LF.
LineEndsAt(cr) ==
  /\ cr + 1 < read_index /\ At(cr) = "CR" /\ At(cr + 1) = "LF"
  /\ \/ cr >= checked_index /\ PassesOver(cr)
     \/ cr > 0 /\ cr + 1 = checked_index

\* It overwrites the CR LF, and process_read() sets start_line for the next line.
NextLine(cr) ==
  /\ LineEndsAt(cr)
  /\ read_buf' = [read_buf EXCEPT ![cr + 1] = "NUL", ![cr + 2] = "NUL"]
  /\ checked_index' = cr + 2
  /\ start_line' = cr + 2

\* parse_line() returns LINE_OPEN or LINE_BAD with checked_index = i.
NoLine(i) ==
  /\ PassesOver(i)
  /\ i < read_index => At(i) \in {"CR", "LF"}
  /\ \A cr \in 0..(read_index - 1) : ~LineEndsAt(cr)

\* get_line(), up to its '\0'.
Text(cr) == SubSeq(read_buf, start_line + 1, cr)

-----------------------------------------------------------------------------
(* process_read(): a round of its loop.                                    *)

Parsing(state) ==
  /\ pc = "parse"
  /\ check_state = state
  /\ UNCHANGED client_vars

Return(code) == pc' = "answer" /\ result' = code

GoOn == UNCHANGED <<pc, result>>

\* The loop ends with LINE_OPEN or with LINE_BAD, and process_read() returns
\* NO_REQUEST in both cases.
NoMoreLines(i) ==
  /\ pc = "parse"
  /\ check_state = "CONTENT" => line_status = "OPEN"
  /\ NoLine(i)
  /\ checked_index' = i
  /\ pc' = "read"
  /\ UNCHANGED <<client_vars, read_buf, start_line, line_status, header_vars, result>>

ParseRequestLine(cr) ==
  /\ Parsing("REQUESTLINE") /\ NextLine(cr)
  /\ Text(cr) = <<"get">>
  /\ check_state' = "HEADER"
  /\ GoOn
  /\ UNCHANGED <<line_status, content_length, linger_>>

BadRequestLine(cr) ==
  /\ Parsing("REQUESTLINE") /\ NextLine(cr)
  /\ Text(cr) # <<"get">>
  /\ Return("BAD_REQUEST")
  /\ UNCHANGED <<line_status, header_vars>>

\* parse_headers() with a line that is not empty.
ParseHeader(cr) ==
  /\ Parsing("HEADER") /\ NextLine(cr)
  /\ Text(cr) # <<>>
  /\ linger_' = (linger_ \/ Text(cr) = <<"keep">>)
  /\ content_length' = IF Head(Text(cr)) = "length" THEN ContentLength ELSE content_length
  /\ GoOn
  /\ UNCHANGED <<line_status, check_state>>

\* parse_headers() with the empty line; method_ is never HEAD.
EndOfHeaders(cr) ==
  /\ Parsing("HEADER") /\ NextLine(cr)
  /\ Text(cr) = <<>>
  /\ \/ content_length # 0 /\ check_state' = "CONTENT" /\ GoOn
     \/ content_length = 0 /\ (\E code \in FileResults : Return(code)) /\ UNCHANGED check_state
  /\ UNCHANGED <<line_status, content_length, linger_>>

\* parse_content() is called without a parse_line() when line_status is
\* LINE_OK, and whenever one finds a line in the body otherwise.
AtContent ==
  /\ Parsing("CONTENT")
  /\ \/ /\ line_status = "OK"
        /\ start_line' = checked_index
        /\ UNCHANGED <<read_buf, checked_index>>
     \/ /\ line_status = "OPEN"
        /\ \E cr \in 0..(read_index - 1) : NextLine(cr)
  /\ UNCHANGED header_vars

\* Mutant of BodyAfter: everything that was received counts.
BodyAnywhere(i) == read_index >= content_length

BodyAfter(i) == read_index >= content_length + i

\* parse_content() returns GET_REQUEST.  The '\0' it puts behind the body is not
\* looked at before init().
ParseContent ==
  /\ AtContent
  /\ BodyAfter(checked_index')
  /\ \E code \in FileResults : Return(code)
  /\ UNCHANGED line_status

\* Mutant of ContentMissing: line_status stays LINE_OK.
ContentMissingRetries ==
  /\ AtContent
  /\ ~BodyAfter(checked_index')
  /\ GoOn
  /\ UNCHANGED line_status

\* parse_content() returns NO_REQUEST: the loop goes on with parse_line().
ContentMissing ==
  /\ AtContent
  /\ ~BodyAfter(checked_index')
  /\ GoOn
  /\ line_status' = "OPEN"

-----------------------------------------------------------------------------

process_read ==
  \/ ParseContent \/ ContentMissing
  \/ \E i \in checked_index..read_index : NoMoreLines(i)
  \/ \E cr \in 0..(read_index - 1) :
       \/ ParseRequestLine(cr) \/ BadRequestLine(cr)
       \/ ParseHeader(cr) \/ EndOfHeaders(cr)

Next ==
  \/ process_read
  \/ Close
  \/ \E n \in 1..Len(coming) : Read(n)
  \/ \E req \in Requests : NextRequest(req)

Spec == Init /\ [][Next]_vars

\* The thread that is in process_read() runs.
FairSpec == Spec /\ WF_vars(process_read)

-----------------------------------------------------------------------------
(* Properties.                                                             *)

\* The indices stay in order, whatever the pieces: a line starts no later than
\* where parse_line() is, and that is no later than what was received.
IndexesInOrder == start_line <= checked_index /\ checked_index <= read_index

\* What is answered, and whether the connection is kept, depends on the request
\* and not on the pieces it arrived in, and a request is answered when it has been
\* received to its end.  A line that is no line (LINE_BAD) is never answered.  And
\* a connection that got out of step, because the client did not wait and init()
\* dropped a part of what it sent, or left characters in front of the next
\* request, is never taken for one that is: it gets a 400, which closes it.
AnswerIsRight ==
  pc = "answer" =>
    \/ /\ request.kind = "ok"
       /\ read_index >= request.head + request.body
       /\ linger_ = request.keep
    \/ /\ request.kind \in {"bad_line", "spoilt"}
       /\ request.kind = "bad_line" => read_index >= request.line
       /\ result = "BAD_REQUEST" /\ ~linger_

\* Whenever process_read() asks for more, there is more to come: no request
\* without a body is overlooked, nor a bad request line.
NothingOverlooked ==
  pc = "read" =>
    /\ request.kind = "ok" /\ request.body = 0 => read_index < request.head
    /\ request.kind = "bad_line" => read_index < request.line

\* The same of requests with a body, of which parse_content() is to determine
\* "whether it has been read completely" (threadPool/httpConn.cc:229).
BodyNotOverlooked ==
  pc = "read" /\ request.kind = "ok" => read_index < request.head + request.body

\* The '\0' of parse_content() goes to text[content_length], the line that begins
\* at start_line, while the test before it counts from checked_index, which
\* parse_line() may have moved on: still it overwrites what was received or the
\* byte behind it.  That is the byte behind read_buf when the buffer is full.
TerminatorAtBody == [][ParseContent => start_line + content_length <= read_index]_vars

\* process_read() returns.
ProcessReadReturns == pc = "parse" ~> pc # "parse"

=============================================================================
