------------------------------- MODULE HttpConn -------------------------------
(***************************************************************************)
(* A connection of class httpConn from request to answer: the parser and   *)
(* the writer, composed as process() and write() compose them.  While the  *)
(* parser is at "answer" the writer goes through its own states.           *)
(*                                                                         *)
(* Who calls read(), process() and write(), and when, is the subject of    *)
(* ReactorServer and EventLoop: one thread at a time has the connection.   *)
(***************************************************************************)
EXTENDS HttpParser, HttpWriter

conn_vars == <<vars, writer_vars>>

ConnInit == Init /\ WriterInit

-----------------------------------------------------------------------------

\* read() and process_read(): nothing of the writer takes part.
Parse ==
  /\ process_read \/ \E n \in 1..Len(coming) : Read(n)
  /\ UNCHANGED writer_vars

\* process(): process_read() has returned a code, and if that is FILE_REQUEST it
\* has mapped a file of that size; process_write() prepares the answer.
Respond(size) == pc = "answer" /\ Prepare(result, size, linger_) /\ UNCHANGED vars

\* process_write() returns false, and process() calls close_conn().
RespondFails(size) == pc = "answer" /\ PrepareFails(result, size, linger_) /\ Close

\* write() until it takes the answer for sent.
SendAnswer ==
  /\ WriteBlocks \/ \E n \in 1..Len(Iov) : Writev(n)
  /\ UNCHANGED vars

\* Mutant of SendFails: every error is taken for EAGAIN.
SendFailsRetries == wpc = "write" /\ UNCHANGED conn_vars

\* write() returns false, and its caller closes the connection.
SendFails == WriteFails /\ Close

\* Mutant of Keeps: init() before the test of linger_.
KeepsAfterInit == FALSE

\* write() looks at linger_ when the answer is out.
Keeps == linger_

\* The connection is kept: init(), and the client's next request.
KeepAlive(req) ==
  /\ wpc = "sent" /\ Keeps
  /\ NextRequest(req)
  /\ ResetWriter(file_address)

\* It is not: write() returns false.
CloseSent ==
  /\ wpc = "sent" /\ ~Keeps
  /\ Close /\ Abandon

\* Waiting for EPOLLIN or EPOLLOUT: recv() fails, or an error or a hang-up is
\* reported.
HangUp ==
  /\ pc = "read" \/ (wpc = "write" /\ bytes_have_send = 0)
  /\ Close /\ Abandon

\* A new connection.  In src/threadPool the httpConn is the one that had the
\* descriptor before, with its file_address, or one of the zero pages that users[]
\* consists of at first; in src/eventLoop it is a new one, in memory that may have
\* been an httpConn's or anything's.
Accept(req) ==
  /\ pc = "closed"
  /\ NextRequest(req)
  /\ \E address \in {"null", "stray", file_address} : ResetWriter(address)

ConnNext ==
  \/ Parse \/ SendAnswer \/ SendFails \/ CloseSent \/ HangUp
  \/ \E size \in FileSizes : Respond(size) \/ RespondFails(size)
  \/ \E req \in Requests : KeepAlive(req) \/ Accept(req)

ConnSpec == ConnInit /\ [][ConnNext]_conn_vars

\* The threads that have the connection run, and a client that waits for its
\* answer reads: the socket has room for all of it at last.
ConnFairness ==
  /\ WF_conn_vars(process_read /\ UNCHANGED writer_vars)
  /\ WF_conn_vars(\E size \in FileSizes : Respond(size) \/ RespondFails(size))
  /\ WF_conn_vars(Writev(Len(Iov)) /\ UNCHANGED vars)
  /\ WF_conn_vars(BadAddress /\ SendFails)

ConnFairSpec == ConnSpec /\ ConnFairness

-----------------------------------------------------------------------------
(* Properties.                                                             *)

\* A client reads s as a response with this status: the headers tell the length
\* of what follows them, and whether the connection is kept.
IsResponse(s, code, keep) ==
  /\ Len(s) > 4
  /\ s[1] = Status(code) /\ s[4] = Blank
  /\ {s[2], s[3]} = {ContentLen(Len(s) - 4), Connection(keep)}
  /\ SubSeq(s, 5, Len(s)) = IF code = "FILE_REQUEST" THEN File(Len(s) - 4) ELSE <<Form(code)>>

\* "The response has been sent successfully" (threadPool/httpConn.cc:361): what
\* write() takes for a sent answer is one, whole and once.
AnswerSent ==
  wpc = "sent" => IsResponse(out, result, request.kind = "ok" /\ request.keep)

\* The same as long as no writev() takes a part only, whether it blocks first or
\* not: what the client receives is the response to what it sent.
WholeAnswerSent == short \/ AnswerSent

\* The server keeps its word: after an answer the connection is kept exactly if
\* the answer says so.
KeepsItsWord ==
  [][wpc = "sent" /\ wpc' = "idle" =>
       (pc' = "read" <=> \E i \in 1..write_index : write_buf[i] = Connection(TRUE))]_conn_vars

\* writev() is never given a file that has been unmapped, however often it
\* blocks, and whatever became of the connections before this one.
MappedWhileSending == wpc = "write" /\ file_blocks > 0 => file_address # "null"

\* A connection that waits for its next request holds no mapping: only one that
\* is closed in the middle of an answer leaves one behind.
MappingReturned ==
  [][pc = "answer" /\ pc' = "read" => file_address' = "null"]_conn_vars

\* A request that has been received is answered or its connection is closed, also
\* when its file could not be mapped.
AnswerGoesOut == pc = "answer" ~> (wpc = "sent" \/ pc = "closed")

=============================================================================
