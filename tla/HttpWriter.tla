------------------------------ MODULE HttpWriter ------------------------------
(***************************************************************************)
(* The response writer of class httpConn, the same code in                 *)
(* src/threadPool/httpConn.cc and src/eventLoop/httpConn.cc: do_request()  *)
(* maps the file, process_write() puts the response together, and write()  *)
(* hands it to the socket.                                                 *)
(*                                                                         *)
(* A response is a sequence of parts: its lines, and the file in blocks.   *)
(* Sizes count parts.  writev() may take any number of them, so that an    *)
(* answer is cut in every place that matters, or none (EAGAIN).            *)
(*                                                                         *)
(* The module has the writer's variables and operations; HttpConn composes *)
(* them with the parser, which provides linger_ and the HTTP_CODE.         *)
(***************************************************************************)
EXTENDS Integers, Sequences

CONSTANTS
  FileSizes,          \* st_size of the files under doc_root
  WRITE_BUFFER_SIZE

\* WRITE_BUFFER_SIZE is 1024; an answer without a file has four lines and a
\* content, 170 bytes at most.
ASSUME WriterAssumption ==
  /\ FileSizes \subseteq Nat
  /\ WRITE_BUFFER_SIZE \in Nat /\ WRITE_BUFFER_SIZE > 6

VARIABLES
  write_buf,          \* write_buf[0..write_index-1]
  file_blocks,        \* iv_[1].iov_len, or 0 where iv_count = 1
  file_address,
  bytes_have_send,    \* the local variable of write(), at the head of its loop
  wpc,                \* where the writer is
  out,                \* what the socket has taken for this answer, or Garbled
                      \* once that is not what an answer begins with
  short               \* a writev() took only a part of what it was given

writer_vars == <<write_buf, file_blocks, file_address, bytes_have_send, wpc, out, short>>

Codes == {"NO_RESOURCE", "FORBIDDEN_REQUEST", "BAD_REQUEST", "FILE_REQUEST"}

Status(code) == <<"HTTP/1.1", code>>
ContentLen(n) == <<"Content-Length", n>>
Connection(keep) == <<"Connection", keep>>
Blank == <<"", "">>
Garbled == <<<<"garbled", "">>>>
Form(code) == <<"content", code>>
File(size) == [i \in 1..size |-> <<"file", i>>]

Part ==
  ({"HTTP/1.1", "content"} \X Codes) \union ({"Content-Length", "file"} \X Nat)
    \union ({"Connection"} \X BOOLEAN) \union {Blank}

write_index == Len(write_buf)

\* What file_address may be: "file": the mapping of the file; "failed":
\* MAP_FAILED, which is no null pointer either; "stray": what memory held that
\* nobody initialised, and munmap() gets for a mapping.
Addresses == {"null", "file", "failed", "stray"}

\* "idle": no answer; "write": waiting for EPOLLOUT, or in the loop of write();
\* "sent": write() takes the answer for sent.
WriterStates == {"idle", "write", "sent"}

WriterTypeOK ==
  /\ write_buf \in Seq(Part) /\ write_index < WRITE_BUFFER_SIZE
  /\ file_blocks \in Nat
  /\ file_address \in Addresses
  /\ bytes_have_send \in 0..write_index
  /\ wpc \in WriterStates
  /\ wpc = "write" => write_index > 0
  /\ out \in Seq(Part) \union {Garbled}
  /\ short \in BOOLEAN

WriterInit ==
  /\ write_buf = <<>>
  /\ file_blocks = 0
  /\ file_address = "null"
  /\ bytes_have_send = 0
  /\ wpc = "idle"
  /\ out = <<>>
  /\ short = FALSE

\* out and short are about one answer.
NothingSent == out' = <<>> /\ short' = FALSE

-----------------------------------------------------------------------------
(* do_request() and process_write(), in process().                         *)

\* mmap(): MAP_FAILED for a file of size 0, and where open() failed.
Mapped(size) == IF size = 0 THEN {"failed"} ELSE {"file", "failed"}

\* Only FILE_REQUEST comes with a mapping; an old one is overwritten.
MapFile(code, size) ==
  IF code = "FILE_REQUEST" THEN file_address' \in Mapped(size) ELSE UNCHANGED file_address

HasRoom(buf) == Len(buf) + 1 < WRITE_BUFFER_SIZE

add_response(buf, part) == IF HasRoom(buf) THEN Append(buf, part) ELSE buf

\* add_content_length(), add_linger() and add_blank_line(), whose results
\* nobody looks at.
add_headers(buf, content_len, linger) ==
  add_response(add_response(add_response(buf, ContentLen(content_len)), Connection(linger)), Blank)

\* The status line and the headers, and the content where it is no file.
Headed(code, content_len, linger) ==
  add_headers(add_response(<<>>, Status(code)), content_len, linger)

IsFile(code, size) == code = "FILE_REQUEST" /\ size > 0

\* Mutant of Prepare: iv_count = 1 also for a file.
PrepareOneVector(code, size, linger) ==
  /\ wpc = "idle"
  /\ MapFile(code, size)
  /\ write_buf' = Headed(code, IF size = 0 THEN 1 ELSE size, linger)
  /\ file_blocks' = 0
  /\ wpc' = "write"
  /\ bytes_have_send' = 0 /\ NothingSent

\* process_write() returns true: an error, or a file that is not empty.
Prepare(code, size, linger) ==
  /\ wpc = "idle"
  /\ MapFile(code, size)
  /\ IF IsFile(code, size)
     THEN /\ write_buf' = Headed(code, size, linger)
          /\ file_blocks' = size
     ELSE /\ code # "FILE_REQUEST"
          /\ HasRoom(Headed(code, 1, linger))
          /\ write_buf' = Append(Headed(code, 1, linger), Form(code))
          /\ file_blocks' = 0
  /\ wpc' = "write"
  /\ bytes_have_send' = 0 /\ NothingSent

\* process_write() returns false: the 200 of an empty file is put together and
\* falls through to the default of the switch, or a content has no room.
PrepareFails(code, size, linger) ==
  /\ wpc = "idle"
  /\ MapFile(code, size)
  /\ ~IsFile(code, size)
  /\ code = "FILE_REQUEST" \/ ~HasRoom(Headed(code, 1, linger))
  /\ write_buf' = add_response(Headed(code, 1, linger), Form(code))
  /\ UNCHANGED <<file_blocks, bytes_have_send, wpc, out, short>>

-----------------------------------------------------------------------------
(* write().                                                                *)

\* Mutant of unmap: does nothing.
unmapNothing == UNCHANGED file_address

unmap == file_address' = "null"

\* What every writev() is given: iv_, which write() never moves forward.
Iov == write_buf \o File(file_blocks)

Beginnings(s) == {SubSeq(s, 1, i) : i \in 0..Len(s)}

BadAddress == file_blocks > 0 /\ file_address = "failed"

\* Mutant of IsSent: == for <=.
IsSentExactly(have) == write_index - have = have

\* bytes_to_send <= bytes_have_send, where the one has become less by what the
\* other has become more.
IsSent(have) == write_index - have <= have

\* A round of the loop: writev() takes n parts.
Writev(n) ==
  /\ wpc = "write" /\ ~BadAddress
  /\ LET have == bytes_have_send + n
         taken == out \o SubSeq(Iov, 1, n) IN
       /\ out' = IF taken \in Beginnings(Iov) THEN taken ELSE Garbled
       /\ short' = (short \/ n < Len(Iov))
       /\ \/ IsSent(have) /\ unmap /\ wpc' = "sent" /\ bytes_have_send' = 0
          \/ ~IsSent(have) /\ bytes_have_send' = have /\ UNCHANGED <<file_address, wpc>>
  /\ UNCHANGED <<write_buf, file_blocks>>

\* Mutant of WriteBlocks: unmap() before every return.
WriteBlocksUnmaps ==
  /\ wpc = "write" /\ ~BadAddress
  /\ unmap
  /\ bytes_have_send' = 0
  /\ UNCHANGED <<write_buf, file_blocks, wpc, out, short>>

\* EAGAIN: the answer waits for EPOLLOUT, and the next write() starts it again.
WriteBlocks ==
  /\ wpc = "write" /\ ~BadAddress
  /\ bytes_have_send' = 0
  /\ UNCHANGED <<write_buf, file_blocks, file_address, wpc, out, short>>

\* Any other error, as EFAULT for MAP_FAILED.
WriteFails ==
  /\ wpc = "write"
  /\ unmap
  /\ bytes_have_send' = 0
  /\ wpc' = "idle" /\ NothingSent
  /\ UNCHANGED <<write_buf, file_blocks>>

\* The connection is closed in the middle or at the end of an answer:
\* close_conn() leaves the mapping where it is.
Abandon ==
  /\ wpc' = "idle" /\ NothingSent
  /\ UNCHANGED <<write_buf, file_blocks, file_address, bytes_have_send>>

\* init() of a connection, whose httpConn has an address in file_address that
\* init() leaves alone.
ResetWriter(address) ==
  /\ write_buf' = <<>>
  /\ file_address' = address
  /\ wpc' = "idle" /\ NothingSent
  /\ UNCHANGED <<file_blocks, bytes_have_send>>

=============================================================================
