---------------------------- MODULE HttpConnProofs ----------------------------
(***************************************************************************)
(* Theorems about HttpConn, for every set of requests and of files and     *)
(* every size of the buffers.                                              *)
(***************************************************************************)
EXTENDS HttpConn, HttpAnswerProofs

-----------------------------------------------------------------------------
(* The parser within the connection.                                       *)

\* A connection that answers its requests is still a parser: what process() and
\* write() do with it are the steps HttpParser leaves open when a request has to
\* be answered, or none.
LEMMA StepImplementsParser == [ConnNext]_conn_vars => [Next]_vars
<1> SUFFICES ASSUME [ConnNext]_conn_vars PROVE [Next]_vars
  OBVIOUS
<1>1. CASE UNCHANGED conn_vars
  BY <1>1 DEF conn_vars
<1>2. CASE Parse
  BY <1>2 DEF Parse, Next
<1>3. CASE SendAnswer
  BY <1>3 DEF SendAnswer
<1>4. CASE SendFails \/ CloseSent \/ HangUp
  BY <1>4 DEF SendFails, CloseSent, HangUp, Next
<1>5. ASSUME NEW size \in FileSizes, Respond(size) \/ RespondFails(size) PROVE [Next]_vars
  BY <1>5 DEF Respond, RespondFails, Next
<1>6. ASSUME NEW req \in Requests, KeepAlive(req) \/ Accept(req) PROVE [Next]_vars
  BY <1>6 DEF KeepAlive, Accept, Next
<1>7. QED
  BY <1>1, <1>2, <1>3, <1>4, <1>5, <1>6 DEF ConnNext

THEOREM ConnImplementsParser == ConnSpec => Spec
<1>1. ConnInit => Init
  BY DEF ConnInit
<1>2. QED
  BY <1>1, StepImplementsParser, PTL DEF ConnSpec, Spec

-----------------------------------------------------------------------------
(* The writer.                                                             *)

\* buf starts with the headers of an answer.
HasHeaders(buf, code, content_len, linger) ==
  /\ buf[1] = Status(code) /\ buf[2] = ContentLen(content_len)
  /\ buf[3] = Connection(linger) /\ buf[4] = Blank

\* What is going out: the headers of this answer and the file, or the headers and
\* a form.
Prepared ==
  \/ /\ result = "FILE_REQUEST" /\ file_blocks > 0
     /\ write_index = 4 /\ HasHeaders(write_buf, result, file_blocks, linger_)
  \/ /\ result # "FILE_REQUEST" /\ file_blocks = 0
     /\ write_index = 5 /\ HasHeaders(write_buf, result, 1, linger_)
     /\ write_buf[5] = Form(result)

\* The writer is at work while the parser waits at "answer" and at no other time;
\* bytes_have_send counts within a call of write() only; a mapping is there as
\* long as its file is to be sent and gone when it was; and while no writev() took
\* a part only, nothing or all has been sent.
WriterInvariant ==
  /\ WriterTypeOK
  /\ pc = "answer" => result \in Codes
  /\ pc # "answer" => wpc = "idle"
  /\ wpc # "write" => bytes_have_send = 0
  /\ wpc # "idle" => Prepared
  /\ MappedWhileSending
  /\ wpc = "sent" => file_address = "null"
  /\ wpc = "write" /\ ~short => out = <<>>
  /\ wpc = "sent" /\ ~short => out = Iov


\* add_response() never takes the last place, and where there is room it appends.
LEMMA AddResponseTypes ==
  ASSUME NEW buf \in Seq(Part), NEW part \in Part, Len(buf) < WRITE_BUFFER_SIZE
  PROVE  /\ add_response(buf, part) \in Seq(Part)
         /\ Len(add_response(buf, part)) < WRITE_BUFFER_SIZE
<1>1. Append(buf, part) \in Seq(Part) /\ Len(Append(buf, part)) = Len(buf) + 1
  BY AppendProperties
<1>2. QED
  BY <1>1, WriterAssumption DEF add_response, HasRoom

\* more is buf, of n parts, and part.
Extends(more, buf, n, part) ==
  /\ more \in Seq(Part) /\ Len(more) = n + 1
  /\ more[n + 1] = part /\ \A i \in 1..n : more[i] = buf[i]

LEMMA AddResponseFits ==
  ASSUME NEW buf \in Seq(Part), NEW part \in Part,
         NEW n \in Nat, Len(buf) = n, n + 1 < WRITE_BUFFER_SIZE
  PROVE  Extends(add_response(buf, part), buf, n, part)
<1>1. add_response(buf, part) = Append(buf, part)
  BY DEF add_response, HasRoom
<1>2. QED
  BY <1>1, AppendProperties DEF Extends

\* The parts of a response are parts.
LEMMA PartTypes ==
  ASSUME NEW code \in Codes, NEW n \in Nat, NEW keep \in BOOLEAN
  PROVE  /\ Status(code) \in Part /\ Form(code) \in Part
         /\ ContentLen(n) \in Part /\ Connection(keep) \in Part /\ Blank \in Part
<1>1. Status(code) \in Part /\ Form(code) \in Part
  BY DEF Part, Status, Form
<1>2. ContentLen(n) \in Part
  BY DEF Part, ContentLen
<1>3. Connection(keep) \in Part
  BY DEF Part, Connection
<1>4. Blank \in Part
  BY DEF Part
<1>5. QED
  BY <1>1, <1>2, <1>3, <1>4

\* There is room for all headers, in their order.
LEMMA HeadersFit ==
  ASSUME NEW code \in Codes, NEW n \in Nat, NEW keep \in BOOLEAN
  PROVE  /\ Headed(code, n, keep) \in Seq(Part) /\ Len(Headed(code, n, keep)) = 4
         /\ HasHeaders(Headed(code, n, keep), code, n, keep)
<1>1. /\ Status(code) \in Part /\ ContentLen(n) \in Part
      /\ Connection(keep) \in Part /\ Blank \in Part
  BY PartTypes
<1> DEFINE one == add_response(<<>>, Status(code))
           two == add_response(one, ContentLen(n))
           three == add_response(two, Connection(keep))
           four == add_response(three, Blank)
<1>2. one \in Seq(Part) /\ Len(one) = 1 /\ one[1] = Status(code)
  <2>1. <<>> \in Seq(Part) /\ Len(<<>>) = 0 /\ 0 \in Nat /\ 0 + 1 < WRITE_BUFFER_SIZE
    BY EmptySeq, WriterAssumption
  <2>2. Extends(one, <<>>, 0, Status(code))
    BY <1>1, <2>1, AddResponseFits, Zenon
  <2>3. QED
    BY <2>2 DEF Extends
<1> HIDE DEF one
<1>3. two \in Seq(Part) /\ Len(two) = 2 /\ two[1] = Status(code) /\ two[2] = ContentLen(n)
  <2>1. 1 \in Nat /\ 1 + 1 < WRITE_BUFFER_SIZE
    BY WriterAssumption
  <2>2. Extends(two, one, 1, ContentLen(n))
    BY <1>1, <1>2, <2>1, AddResponseFits, Zenon
  <2>3. QED
    BY <1>2, <2>2 DEF Extends
<1> HIDE DEF two
<1>4. /\ three \in Seq(Part) /\ Len(three) = 3 /\ three[1] = Status(code)
      /\ three[2] = ContentLen(n) /\ three[3] = Connection(keep)
  <2>1. 2 \in Nat /\ 2 + 1 < WRITE_BUFFER_SIZE
    BY WriterAssumption
  <2>2. Extends(three, two, 2, Connection(keep))
    BY <1>1, <1>3, <2>1, AddResponseFits, Zenon
  <2>3. QED
    BY <1>3, <2>2 DEF Extends
<1> HIDE DEF three
<1>5. /\ four \in Seq(Part) /\ Len(four) = 4 /\ four[1] = Status(code)
      /\ four[2] = ContentLen(n) /\ four[3] = Connection(keep) /\ four[4] = Blank
  <2>1. 3 \in Nat /\ 3 + 1 < WRITE_BUFFER_SIZE
    BY WriterAssumption
  <2>2. Extends(four, three, 3, Blank)
    BY <1>1, <1>4, <2>1, AddResponseFits, Zenon
  <2>3. QED
    BY <1>4, <2>2 DEF Extends
<1>6. Headed(code, n, keep) = four
  BY DEF Headed, add_headers, one, two, three
<1>7. QED
  BY <1>5, <1>6 DEF HasHeaders

\* File(size) is a sequence of so many parts.
LEMMA FileTypes ==
  ASSUME NEW size \in Nat
  PROVE  File(size) \in Seq(Part) /\ Len(File(size)) = size
<1>1. \A i \in 1..size : <<"file", i>> \in Part
  BY DEF Part
<1>2. QED
  BY <1>1 DEF File

\* An idle writer has little to preserve.
LEMMA IdleWriter ==
  ASSUME WriterTypeOK', wpc' = "idle", bytes_have_send' = 0,
         pc' = "answer" => result' \in Codes
  PROVE  WriterInvariant'
BY DEF WriterInvariant, MappedWhileSending

\* process_read() runs while the writer is idle, and what it returns for an answer
\* is a code process_write() knows.
LEMMA ParseReturnsCode ==
  ASSUME Parse
  PROVE  pc # "answer" /\ (pc' = "answer" => result' \in Codes)
<1>1. CASE process_read
  <2>1. ASSUME NEW i \in checked_index..read_index, NoMoreLines(i)
        PROVE  pc # "answer" /\ pc' # "answer"
    BY <2>1 DEF NoMoreLines
  <2>2. ASSUME NEW cr \in 0..(read_index - 1),
               \/ ParseRequestLine(cr) \/ BadRequestLine(cr)
               \/ ParseHeader(cr) \/ EndOfHeaders(cr)
        PROVE  pc # "answer" /\ (pc' = "answer" => result' \in Codes)
    BY <2>2 DEF ParseRequestLine, BadRequestLine, ParseHeader, EndOfHeaders, Parsing,
       Return, GoOn, FileResults, Codes
  <2>3. CASE ParseContent \/ ContentMissing
    BY <2>3 DEF ParseContent, ContentMissing, AtContent, Parsing, Return, GoOn,
       FileResults, Codes
  <2>4. QED
    BY <1>1, <2>1, <2>2, <2>3 DEF process_read
<1>2. ASSUME NEW n \in 1..Len(coming), Read(n)
      PROVE  pc # "answer" /\ pc' # "answer"
  BY <1>2 DEF Read, Arrive
<1>3. QED
  BY <1>1, <1>2 DEF Parse

\* process_write() prepares an answer.
LEMMA RespondPrepares ==
  ASSUME TypeOK, WriterInvariant, NEW size \in FileSizes, Respond(size)
  PROVE  WriterInvariant'
<1>1. result \in Codes /\ linger_ \in BOOLEAN /\ size \in Nat /\ 1 \in Nat
  BY WriterAssumption DEF Respond, WriterInvariant, TypeOK
<1>2. UNCHANGED vars /\ pc' = "answer" /\ result' = result /\ linger_' = linger_
  BY DEF Respond, vars, header_vars
<1>3. wpc' = "write" /\ bytes_have_send' = 0 /\ out' = <<>> /\ short' = FALSE
  BY DEF Respond, Prepare, NothingSent
<1>4. out' \in Seq(Part)
  BY <1>3, EmptySeq
<1>5. CASE IsFile(result, size)
  <2>1. result = "FILE_REQUEST" /\ size > 0 /\ file_blocks' = size
        /\ write_buf' = Headed(result, size, linger_)
    BY <1>5 DEF Respond, Prepare, IsFile
  <2>2. file_address' \in {"file", "failed"}
    BY <1>1, <2>1 DEF Respond, Prepare, MapFile, Mapped
  <2>3. /\ write_buf' \in Seq(Part) /\ Len(write_buf') = 4
        /\ HasHeaders(write_buf', result, size, linger_)
    BY <1>1, <2>1, HeadersFit
  <2>4. WriterTypeOK'
    <3>1. 0 \in 0..Len(write_buf') /\ 0 < Len(write_buf') /\ Len(write_buf') < WRITE_BUFFER_SIZE
      BY <2>3, WriterAssumption
    <3>2. QED
      BY <1>1, <1>3, <1>4, <2>1, <2>2, <2>3, <3>1
         DEF WriterTypeOK, WriterStates, Addresses, write_index
  <2>5. Prepared'
    BY <1>2, <2>1, <2>3 DEF Prepared, HasHeaders, write_index
  <2>6. QED
    BY <1>1, <1>2, <1>3, <2>2, <2>4, <2>5 DEF WriterInvariant, MappedWhileSending
<1>6. CASE ~IsFile(result, size)
  <2> DEFINE headed == Headed(result, 1, linger_)
  <2>1. result # "FILE_REQUEST" /\ file_blocks' = 0 /\ HasRoom(headed)
        /\ write_buf' = Append(headed, Form(result))
    BY <1>6 DEF Respond, Prepare
  <2>2. file_address' \in Addresses
    BY <2>1 DEF Respond, Prepare, MapFile, WriterInvariant, WriterTypeOK
  <2>3. headed \in Seq(Part) /\ Len(headed) = 4 /\ HasHeaders(headed, result, 1, linger_)
    BY <1>1, HeadersFit
  <2> HIDE DEF headed
  <2>4. Form(result) \in Part
    BY <1>1, PartTypes
  <2>5. /\ write_buf' \in Seq(Part) /\ Len(write_buf') = 5
        /\ HasHeaders(write_buf', result, 1, linger_) /\ write_buf'[5] = Form(result)
    <3>1. 4 \in Nat /\ 4 + 1 < WRITE_BUFFER_SIZE
      BY WriterAssumption
    <3>2. Extends(add_response(headed, Form(result)), headed, 4, Form(result))
      BY <2>3, <2>4, <3>1, AddResponseFits, Zenon
    <3>3. QED
      BY <2>1, <2>3, <3>2 DEF add_response, Extends, HasHeaders
  <2>6. WriterTypeOK'
    <3>1. 0 \in 0..Len(write_buf') /\ 0 < Len(write_buf') /\ Len(write_buf') < WRITE_BUFFER_SIZE
      BY <2>5, WriterAssumption
    <3>2. QED
      BY <1>3, <1>4, <2>1, <2>2, <2>5, <3>1 DEF WriterTypeOK, WriterStates, write_index
  <2>7. Prepared'
    BY <1>2, <2>1, <2>5 DEF Prepared, HasHeaders, write_index
  <2>8. QED
    BY <1>1, <1>2, <1>3, <2>1, <2>6, <2>7 DEF WriterInvariant, MappedWhileSending
<1>7. QED
  BY <1>5, <1>6

\* What writev() is given is a sequence of parts, and each of its beginnings is.
LEMMA IovTypes ==
  ASSUME WriterTypeOK
  PROVE  /\ Iov \in Seq(Part) /\ Len(Iov) = write_index + file_blocks
         /\ Beginnings(Iov) \subseteq Seq(Part)
<1>1. File(file_blocks) \in Seq(Part) /\ Len(File(file_blocks)) = file_blocks
  BY FileTypes DEF WriterTypeOK
<1>2. write_buf \in Seq(Part)
  BY DEF WriterTypeOK
<1>3. Iov \in Seq(Part) /\ Len(Iov) = write_index + file_blocks
  BY <1>1, <1>2, ConcatProperties DEF Iov, write_index
<1>4. ASSUME NEW i \in 0..Len(Iov) PROVE SubSeq(Iov, 1, i) \in Seq(Part)
  <2>1. Iov \in Seq(Part)
    BY <1>3
  <2> HIDE DEF Iov
  <2>2. \A j \in 1..i : Iov[j] \in Part
    BY <2>1
  <2>3. QED
    BY <2>1, <2>2, SubSeqProperties
<1>5. QED
  BY <1>3, <1>4 DEF Beginnings

\* All of it, taken at once.
LEMMA WholeIov ==
  ASSUME WriterTypeOK
  PROVE  /\ <<>> \o SubSeq(Iov, 1, Len(Iov)) = Iov
         /\ Iov \in Beginnings(Iov)
<1>1. Iov \in Seq(Part) /\ Len(Iov) \in Nat
  BY IovTypes, LenProperties
<1> HIDE DEF Iov
<1>2. SubSeq(Iov, 1, Len(Iov)) = Iov
  BY <1>1, SubSeqFull
<1>3. <<>> \o Iov = Iov
  BY <1>1, ConcatEmptySeq
<1>4. Len(Iov) \in 0..Len(Iov)
  BY <1>1
<1>5. QED
  BY <1>2, <1>3, <1>4 DEF Beginnings

\* A round of the loop of write().
LEMMA WritevPreserves ==
  ASSUME WriterInvariant, NEW n \in 1..Len(Iov), Writev(n), UNCHANGED vars
  PROVE  WriterInvariant'
<1> DEFINE have == bytes_have_send + n
           taken == out \o SubSeq(Iov, 1, n)
<1>1. WriterTypeOK /\ wpc = "write" /\ Prepared
  BY DEF WriterInvariant, Writev
<1>2. /\ write_buf' = write_buf /\ file_blocks' = file_blocks /\ write_index' = write_index
      /\ Iov' = Iov /\ pc' = pc /\ result' = result /\ Prepared'
  BY <1>1 DEF Writev, Iov, File, write_index, vars, header_vars, Prepared, HasHeaders
<1>3. /\ write_index \in Nat /\ file_blocks \in Nat /\ bytes_have_send \in Nat /\ n \in Nat
      /\ have \in Nat /\ n <= have /\ n <= Len(Iov) /\ Len(Iov) = write_index + file_blocks
  BY <1>1, IovTypes DEF WriterTypeOK, write_index
<1>4. out' \in Seq(Part) \union {Garbled} /\ short' \in BOOLEAN
  BY <1>1, IovTypes DEF Writev, WriterTypeOK
<1> DEFINE partly == n < Len(Iov)
<1>5. short' <=> short \/ partly
  BY DEF Writev
<1>6. ~partly => n = Len(Iov)
  BY <1>3
<1> HIDE DEF partly
<1>7. CASE IsSent(have)
  <2>1. file_address' = "null" /\ wpc' = "sent" /\ bytes_have_send' = 0
    BY <1>7 DEF Writev, unmap
  <2>2. WriterTypeOK'
    BY <1>1, <1>2, <1>3, <1>4, <2>1 DEF WriterTypeOK, WriterStates, Addresses, write_index
  <2>3. ASSUME ~short' PROVE out' = Iov'
    <3>1. ~short /\ n = Len(Iov)
      BY <1>5, <1>6, <2>3
    <3>2. taken = Iov
      BY <1>1, <3>1, WholeIov DEF WriterInvariant
    <3>3. QED
      BY <1>1, <1>2, <3>2, WholeIov DEF Writev
  <2>4. QED
    BY <1>1, <1>2, <2>1, <2>2, <2>3 DEF WriterInvariant, MappedWhileSending, Writev
<1>8. CASE ~IsSent(have)
  <2>1. file_address' = file_address /\ wpc' = "write" /\ bytes_have_send' = have
    BY <1>1, <1>8 DEF Writev
  <2>2. have < write_index
    BY <1>3, <1>8 DEF IsSent
  <2>3. short'
    <3>1. partly
      BY <1>3, <2>2 DEF partly
    <3>2. QED
      BY <1>5, <3>1
  <2>4. WriterTypeOK'
    BY <1>1, <1>2, <1>3, <1>4, <2>1, <2>2 DEF WriterTypeOK, write_index
  <2>5. QED
    BY <1>1, <1>2, <2>1, <2>3, <2>4 DEF WriterInvariant, MappedWhileSending
<1>9. QED
  BY <1>7, <1>8

\* EAGAIN.
LEMMA WriteBlocksPreserves ==
  ASSUME WriterInvariant, WriteBlocks, UNCHANGED vars
  PROVE  WriterInvariant'
<1>1. WriterTypeOK /\ wpc = "write" /\ Prepared
  BY DEF WriterInvariant, WriteBlocks
<1>2. /\ Prepared' /\ Iov' = Iov /\ pc' = pc /\ result' = result /\ short' = short
      /\ file_blocks' = file_blocks /\ file_address' = file_address /\ wpc' = wpc /\ out' = out
  BY <1>1 DEF WriteBlocks, Iov, File, write_index, vars, header_vars, Prepared, HasHeaders
<1>3. WriterTypeOK'
  BY <1>1 DEF WriteBlocks, WriterTypeOK, write_index
<1>4. QED
  BY <1>1, <1>2, <1>3 DEF WriterInvariant, MappedWhileSending

\* The steps after which the writer is idle.
LEMMA IdleAgain ==
  ASSUME TypeOK, WriterInvariant,
         \/ \E size \in FileSizes : RespondFails(size)
         \/ SendFails \/ CloseSent \/ HangUp
         \/ \E req \in Requests : KeepAlive(req) \/ Accept(req)
  PROVE  WriterInvariant'
<1>1. WriterTypeOK
  BY DEF WriterInvariant
<1>2. ASSUME NEW size \in FileSizes, RespondFails(size) PROVE WriterInvariant'
  <2>1. result \in Codes /\ linger_ \in BOOLEAN /\ 1 \in Nat /\ size \in Nat
        /\ wpc = "idle" /\ bytes_have_send = 0
    BY <1>2, WriterAssumption DEF RespondFails, PrepareFails, WriterInvariant, TypeOK
  <2>2. pc' = "closed" /\ wpc' = "idle" /\ bytes_have_send' = 0 /\ UNCHANGED <<file_blocks, out, short>>
    BY <1>2, <2>1 DEF RespondFails, PrepareFails, Close
  <2>3. file_address' \in Addresses
    BY <1>1, <1>2 DEF RespondFails, PrepareFails, MapFile, Mapped, WriterTypeOK, Addresses
  <2> DEFINE headed == Headed(result, 1, linger_)
  <2>4. headed \in Seq(Part) /\ Len(headed) = 4
    BY <2>1, HeadersFit
  <2>5. write_buf' = add_response(headed, Form(result))
    BY <1>2 DEF RespondFails, PrepareFails
  <2> HIDE DEF headed
  <2>6. Form(result) \in Part /\ Len(headed) < WRITE_BUFFER_SIZE
    BY <2>1, <2>4, PartTypes, WriterAssumption
  <2>7. write_buf' \in Seq(Part) /\ Len(write_buf') < WRITE_BUFFER_SIZE
    BY <2>4, <2>5, <2>6, AddResponseTypes
  <2>8. WriterTypeOK'
    BY <1>1, <2>2, <2>3, <2>7 DEF WriterTypeOK, WriterStates, write_index
  <2>9. QED
    BY <2>2, <2>8, IdleWriter
<1>3. CASE SendFails
  <2>1. pc' = "closed" /\ wpc' = "idle" /\ bytes_have_send' = 0 /\ file_address' = "null"
        /\ write_buf' = write_buf /\ file_blocks' = file_blocks /\ out' = <<>> /\ short' = FALSE
    BY <1>3 DEF SendFails, WriteFails, Close, unmap, NothingSent
  <2>2. WriterTypeOK'
    <3>1. out' \in Seq(Part)
      BY <2>1, EmptySeq
    <3>2. 0 \in 0..write_index /\ write_index' = write_index
      BY <1>1, <2>1 DEF WriterTypeOK, write_index
    <3>3. QED
      BY <1>1, <2>1, <3>1, <3>2 DEF WriterTypeOK, WriterStates, Addresses
  <2>3. QED
    BY <2>1, <2>2, IdleWriter
<1>4. CASE CloseSent \/ HangUp
  <2>1. /\ pc' = "closed" /\ wpc' = "idle" /\ bytes_have_send' = 0 /\ file_address' = file_address
        /\ write_buf' = write_buf /\ file_blocks' = file_blocks /\ out' = <<>> /\ short' = FALSE
    BY <1>4 DEF CloseSent, HangUp, Abandon, Close, NothingSent, WriterInvariant
  <2>2. WriterTypeOK'
    <3>1. out' \in Seq(Part)
      BY <2>1, EmptySeq
    <3>2. 0 \in 0..write_index /\ write_index' = write_index
      BY <1>1, <2>1 DEF WriterTypeOK, write_index
    <3>3. QED
      BY <1>1, <2>1, <3>1, <3>2 DEF WriterTypeOK, WriterStates
  <2>3. QED
    BY <2>1, <2>2, IdleWriter
<1>5. ASSUME NEW req \in Requests, KeepAlive(req) \/ Accept(req) PROVE WriterInvariant'
  <2>1. /\ pc' = "read" /\ wpc' = "idle" /\ bytes_have_send' = 0
        /\ write_buf' = <<>> /\ file_blocks' = file_blocks /\ out' = <<>> /\ short' = FALSE
    BY <1>5 DEF KeepAlive, Accept, NextRequest, ResetWriter, NothingSent, WriterInvariant
  <2>2. file_address' \in Addresses
    BY <1>1, <1>5 DEF KeepAlive, Accept, ResetWriter, WriterTypeOK, Addresses
  <2>3. write_buf' \in Seq(Part) /\ Len(write_buf') = 0 /\ 0 < WRITE_BUFFER_SIZE /\ 0 \in 0..0
    BY <2>1, EmptySeq, WriterAssumption
  <2>4. WriterTypeOK'
    BY <1>1, <2>1, <2>2, <2>3 DEF WriterTypeOK, WriterStates, write_index
  <2>5. QED
    BY <2>1, <2>4, IdleWriter
<1>6. QED
  BY <1>2, <1>3, <1>4, <1>5

LEMMA WriterInvariantHolds == ConnSpec => []WriterInvariant
<1>1. ConnInit => WriterInvariant
  <2> SUFFICES ASSUME ConnInit PROVE WriterInvariant
    OBVIOUS
  <2>1. write_buf \in Seq(Part) /\ out \in Seq(Part) /\ write_index = 0 /\ 0 < WRITE_BUFFER_SIZE
    BY EmptySeq, WriterAssumption DEF ConnInit, WriterInit, write_index
  <2>2. WriterTypeOK
    <3>1. bytes_have_send \in 0..write_index /\ write_index < WRITE_BUFFER_SIZE
      BY <2>1 DEF ConnInit, WriterInit
    <3>2. QED
      BY <2>1, <3>1 DEF ConnInit, WriterInit, WriterTypeOK, WriterStates, Addresses
  <2>3. QED
    BY <2>2 DEF ConnInit, Init, WriterInit, WriterInvariant, MappedWhileSending
<1>2. TypeOK /\ WriterInvariant /\ [ConnNext]_conn_vars => WriterInvariant'
  <2> SUFFICES ASSUME TypeOK, WriterInvariant, [ConnNext]_conn_vars PROVE WriterInvariant'
    OBVIOUS
  <2>1. CASE UNCHANGED conn_vars
    BY <2>1 DEF conn_vars, vars, header_vars, writer_vars, WriterInvariant, WriterTypeOK,
       Prepared, HasHeaders, MappedWhileSending, Iov, File, write_index
  <2>2. CASE Parse
    <3>1. wpc = "idle" /\ bytes_have_send = 0 /\ WriterTypeOK
      BY <2>2, ParseReturnsCode DEF WriterInvariant
    <3>2. UNCHANGED writer_vars
      BY <2>2 DEF Parse
    <3>3. wpc' = "idle" /\ bytes_have_send' = 0 /\ WriterTypeOK'
      BY <3>1, <3>2 DEF writer_vars, WriterTypeOK, write_index
    <3>4. QED
      BY <2>2, <3>3, ParseReturnsCode, IdleWriter
  <2>3. CASE SendAnswer
    BY <2>3, WriteBlocksPreserves, WritevPreserves DEF SendAnswer
  <2>4. ASSUME NEW size \in FileSizes, Respond(size) PROVE WriterInvariant'
    BY <2>4, RespondPrepares
  <2>5. QED
    BY <2>1, <2>2, <2>3, <2>4, IdleAgain DEF ConnNext
<1>3. Invariant => TypeOK
  BY DEF Invariant
<1>4. QED
  BY <1>1, <1>2, <1>3, ConnImplementsParser, InvariantHolds, PTL DEF ConnSpec

\* Type correctness of the writer: write_buf is never filled to its last place,
\* and what writev() is asked for is never nothing.
THEOREM WriterTypeCorrect == ConnSpec => []WriterTypeOK
<1>1. WriterInvariant => WriterTypeOK
  BY DEF WriterInvariant
<1>2. QED
  BY <1>1, WriterInvariantHolds, PTL

\* While a file is going out its mapping is there, or write() finds out with its
\* first writev() that there is none.
THEOREM FileStaysMapped == ConnSpec => []MappedWhileSending
<1>1. WriterInvariant => MappedWhileSending
  BY DEF WriterInvariant
<1>2. QED
  BY <1>1, WriterInvariantHolds, PTL

\* A connection that is kept has given its mapping back.
THEOREM NoMappingKept == ConnSpec => MappingReturned
<1> DEFINE Returned == pc = "answer" /\ pc' = "read" => file_address' = "null"
<1>1. WriterInvariant /\ [ConnNext]_conn_vars => [Returned]_conn_vars
  <2> SUFFICES ASSUME WriterInvariant, ConnNext, pc = "answer", pc' = "read"
               PROVE  file_address' = "null"
    BY DEF conn_vars
  <2>1. \E req \in Requests : KeepAlive(req)
    <3>1. ~Parse
      BY ParseReturnsCode
    <3>2. ~SendAnswer
      BY DEF SendAnswer, vars
    <3>3. ~SendFails /\ ~CloseSent /\ ~HangUp
      BY DEF SendFails, CloseSent, HangUp, Close
    <3>4. \A size \in FileSizes : ~Respond(size) /\ ~RespondFails(size)
      BY DEF Respond, RespondFails, Close, vars
    <3>5. \A req \in Requests : ~Accept(req)
      BY DEF Accept
    <3>6. QED
      BY <3>1, <3>2, <3>3, <3>4, <3>5 DEF ConnNext
  <2>2. QED
    BY <2>1 DEF KeepAlive, ResetWriter, WriterInvariant
<1>2. QED
  BY <1>1, WriterInvariantHolds, PTL DEF ConnSpec, MappingReturned

\* The header that was sent says what write() will look at.
LEMMA SaysWhatItDoes ==
  ASSUME Prepared
  PROVE  linger_ = TRUE <=> \E i \in 1..write_index : write_buf[i] = Connection(TRUE)
<1>1. \A code : Status(code) # Connection(TRUE) /\ Form(code) # Connection(TRUE)
  BY DEF Status, Form, Connection
<1>2. \A n : ContentLen(n) # Connection(TRUE)
  BY DEF ContentLen, Connection
<1>3. Blank # Connection(TRUE)
  BY DEF Blank, Connection
<1>4. Connection(linger_) = Connection(TRUE) <=> linger_ = TRUE
  BY DEF Connection
<1>5. write_index \in {4, 5} /\ write_buf[3] = Connection(linger_)
  BY DEF Prepared, HasHeaders
<1>6. \A i \in 1..write_index : i # 3 => write_buf[i] # Connection(TRUE)
  <2>1. /\ write_buf[1] # Connection(TRUE) /\ write_buf[2] # Connection(TRUE)
        /\ write_buf[4] # Connection(TRUE)
        /\ write_index = 5 => write_buf[5] # Connection(TRUE)
    BY <1>1, <1>2, <1>3, Zenon DEF Prepared, HasHeaders
  <2>2. \A i \in 1..write_index : i \in {1, 2, 3, 4} \/ (i = 5 /\ write_index = 5)
    BY <1>5
  <2>3. QED
    BY <2>1, <2>2
<1>7. 3 \in 1..write_index
  BY <1>5
<1>8. QED
  BY <1>4, <1>5, <1>6, <1>7

\* After every answer, the connection is kept exactly if the answer said so.
THEOREM ServerKeepsItsWord == ConnSpec => KeepsItsWord
<1> DEFINE Kept == wpc = "sent" /\ wpc' = "idle" =>
                     (pc' = "read" <=> \E i \in 1..write_index : write_buf[i] = Connection(TRUE))
<1>1. TypeOK /\ WriterInvariant /\ [ConnNext]_conn_vars => [Kept]_conn_vars
  <2> SUFFICES ASSUME TypeOK, WriterInvariant, ConnNext, wpc = "sent", wpc' = "idle"
               PROVE  pc' = "read" <=> \E i \in 1..write_index : write_buf[i] = Connection(TRUE)
    BY DEF conn_vars
  <2>1. pc = "answer" /\ Prepared
    BY DEF WriterInvariant
  <2>2. CloseSent \/ \E req \in Requests : KeepAlive(req)
    <3>1. ~Parse
      BY <2>1, ParseReturnsCode
    <3>2. ~SendAnswer
      BY DEF SendAnswer, WriteBlocks, Writev
    <3>3. ~SendFails /\ ~HangUp
      BY <2>1 DEF SendFails, WriteFails, HangUp
    <3>4. \A size \in FileSizes : ~Respond(size) /\ ~RespondFails(size)
      BY DEF Respond, Prepare, RespondFails, PrepareFails
    <3>5. \A req \in Requests : ~Accept(req)
      BY <2>1 DEF Accept
    <3>6. QED
      BY <3>1, <3>2, <3>3, <3>4, <3>5 DEF ConnNext
  <2>3. pc' = "read" <=> linger_ = TRUE
    BY <2>2 DEF CloseSent, Close, KeepAlive, NextRequest, Keeps, TypeOK
  <2>4. QED
    BY <2>1, <2>3, SaysWhatItDoes
<1>2. Invariant => TypeOK
  BY DEF Invariant
<1>3. QED
  BY <1>1, <1>2, ConnImplementsParser, InvariantHolds, WriterInvariantHolds, PTL
     DEF ConnSpec, KeepsItsWord

\* What is prepared, whole, is a response.
LEMMA PreparedIsResponse ==
  ASSUME WriterTypeOK, Prepared
  PROVE  IsResponse(Iov, result, linger_)
<1>1. /\ write_buf \in Seq(Part) /\ Len(write_buf) >= 4 /\ file_blocks \in Nat
      /\ File(file_blocks) \in Seq(Part) /\ Len(File(file_blocks)) = file_blocks
  <2>1. write_buf \in Seq(Part) /\ file_blocks \in Nat
    BY DEF WriterTypeOK
  <2>2. Len(write_buf) = 4 \/ Len(write_buf) = 5
    BY DEF Prepared, write_index
  <2>3. QED
    BY <2>1, <2>2, FileTypes
<1>2. /\ Iov \in Seq(Part) /\ Len(Iov) = Len(write_buf) + file_blocks
      /\ \A i \in 1..Len(write_buf) : Iov[i] = write_buf[i]
      /\ \A i \in 1..file_blocks : Iov[Len(write_buf) + i] = File(file_blocks)[i]
  <2>1. Iov \in Seq(Part) /\ Len(Iov) = Len(write_buf) + file_blocks
    BY IovTypes DEF write_index
  <2>2. QED
    BY <1>1, <2>1, ConcatProperties DEF Iov
<1> DEFINE rest == SubSeq(Iov, 5, Len(Iov))
<1>3. rest \in Seq(Part) /\ Len(rest) = Len(Iov) - 4
      /\ \A i \in 1..(Len(Iov) - 4) : rest[i] = Iov[i + 4]
  <2>1. \A i \in 5..Len(Iov) : Iov[i] \in Part
    BY <1>2
  <2>2. Len(Iov) \in Int /\ 5 \in Int /\ Len(Iov) >= 4
    BY <1>1, <1>2
  <2> HIDE DEF Iov
  <2>3. QED
    BY <1>2, <2>1, <2>2, SubSeqProperties
<1> HIDE DEF rest
<1>4. CASE result = "FILE_REQUEST"
  <2>1. Len(write_buf) = 4 /\ file_blocks > 0 /\ HasHeaders(write_buf, result, file_blocks, linger_)
    BY <1>4 DEF Prepared, write_index
  <2>2. Len(Iov) - 4 = file_blocks /\ Len(Iov) > 4
    BY <1>1, <1>2, <2>1
  <2>3. rest = File(file_blocks)
    <3>1. \A i \in 1..Len(rest) : rest[i] = File(file_blocks)[i]
      BY <1>1, <1>2, <1>3, <2>1, <2>2
    <3>2. Len(rest) = Len(File(file_blocks))
      BY <1>1, <1>3, <2>2
    <3>3. QED
      BY <1>1, <1>3, <3>1, <3>2, SeqEqual
  <2>4. /\ Iov[1] = Status(result) /\ Iov[4] = Blank
        /\ Iov[2] = ContentLen(file_blocks) /\ Iov[3] = Connection(linger_)
    BY <1>2, <2>1 DEF HasHeaders
  <2>5. QED
    BY <1>4, <2>2, <2>3, <2>4 DEF IsResponse, rest
<1>5. CASE result # "FILE_REQUEST"
  <2>1. /\ Len(write_buf) = 5 /\ file_blocks = 0 /\ HasHeaders(write_buf, result, 1, linger_)
        /\ write_buf[5] = Form(result)
    BY <1>5 DEF Prepared, write_index
  <2>2. Len(Iov) - 4 = 1 /\ Len(Iov) > 4
    BY <1>2, <2>1
  <2>3. /\ Iov[1] = Status(result) /\ Iov[4] = Blank /\ Iov[5] = Form(result)
        /\ Iov[2] = ContentLen(1) /\ Iov[3] = Connection(linger_)
    BY <1>2, <2>1 DEF HasHeaders
  <2>4. rest = <<Form(result)>>
    <3>1. Len(rest) = 1 /\ rest[1] = Form(result)
      BY <1>2, <1>3, <2>2, <2>3
    <3>2. QED
      BY <1>3, <3>1
  <2>5. QED
    BY <1>5, <2>2, <2>3, <2>4 DEF IsResponse, rest
<1>6. QED
  BY <1>4, <1>5

\* What was sent without a short write is the response with the status that
\* process_read() returned and the Connection header it asked for, whole and once,
\* however often the socket was full before.
THEOREM WholeAnswerIsResponse ==
  ConnSpec => [](wpc = "sent" /\ ~short => IsResponse(out, result, linger_))
<1>1. WriterInvariant => (wpc = "sent" /\ ~short => IsResponse(out, result, linger_))
  <2> SUFFICES ASSUME WriterInvariant, wpc = "sent", ~short
               PROVE  IsResponse(out, result, linger_)
    OBVIOUS
  <2>1. out = Iov /\ WriterTypeOK /\ Prepared
    BY DEF WriterInvariant
  <2>2. IsResponse(Iov, result, linger_)
    BY <2>1, PreparedIsResponse
  <2>3. QED
    BY <2>1, <2>2
<1>2. QED
  BY <1>1, WriterInvariantHolds, PTL

\* What a client receives is the response to the request it sent, whole and once,
\* as long as no writev() is short: the status is process_read()'s, and the
\* connection is kept if the client asked for it and its request was a good one.
THEOREM ClientGetsItsAnswer == ConnSpec => []WholeAnswerSent
<1>1. WriterInvariant /\ AnswerIsRight /\ TypeOK => WholeAnswerSent
  <2> SUFFICES ASSUME WriterInvariant, AnswerIsRight, TypeOK, ~short, wpc = "sent"
               PROVE  IsResponse(out, result, request.kind = "ok" /\ request.keep)
    BY DEF WholeAnswerSent, AnswerSent
  <2>1. out = Iov /\ WriterTypeOK /\ Prepared /\ pc = "answer"
    BY DEF WriterInvariant
  <2>2. linger_ = (request.kind = "ok" /\ request.keep)
    BY <2>1 DEF AnswerIsRight, TypeOK, Request
  <2>3. QED
    BY <2>1, <2>2, PreparedIsResponse
<1>2. ConnSpec => []AnswerIsRight /\ []TypeOK
  BY ConnImplementsParser, AnswersAreRight, ParserTypeCorrect, PTL
<1>3. QED
  BY <1>1, <1>2, WriterInvariantHolds, PTL

=============================================================================
