----------------------------- MODULE MCHttpParser -----------------------------
(* The requests that clients send to a small instance of HttpParser. *)
EXTENDS HttpParser, SequencesExt

Line(text) == text \o <<"CR", "LF">>

\* At most two header lines.
Headers == {<<>>} \union {<<h>> : h \in {"keep", "length", "x"}}
             \union {<<g, h>> : g, h \in {"keep", "length", "x"}}

HeaderLines(headers) == FlattenSeq([i \in 1..Len(headers) |-> Line(<<headers[i]>>)])

Declares(headers, h) == \E i \in 1..Len(headers) : headers[i] = h

\* Bodies, also with what looks like a line.
Bodies(headers) ==
  IF Declares(headers, "length") THEN {<<"x", "x">>, <<"CR", "LF">>, <<"x", "CR">>} ELSE {<<>>}

MakeRequest(kind, line, headers, body) ==
  LET head == line \o headers \o <<"CR", "LF">> IN
    [stream |-> head \o body, kind |-> kind,
     line |-> Len(line), head |-> Len(head), body |-> Len(body), keep |-> FALSE]

GoodRequests ==
  UNION {{[MakeRequest("ok", Line(<<"get">>), HeaderLines(headers), body)
             EXCEPT !.keep = Declares(headers, "keep")] : body \in Bodies(headers)}
         : headers \in Headers}

BadLines ==
  {MakeRequest("bad_line", Line(text), HeaderLines(headers), <<>>) :
     text \in {<<>>, <<"x">>, <<"get", "x">>}, headers \in {<<>>, <<"keep">>}}

\* CR and LF out of place, in the first line or in a header.
BrokenRequests ==
  {MakeRequest("broken", line, header, <<>>) :
     line \in {<<"get", "LF">>, <<"CR", "get">>}, header \in {<<>>, Line(<<"keep">>)}}
    \union
  {MakeRequest("broken", Line(<<"get">>), header, <<>>) :
     header \in {<<"keep", "LF">>, Line(<<"x", "CR">>), <<"LF">>}}

\* A client that does not wait: what stressTest.cc sends, once and twice, and a
\* short request that goes with one before it.
KeptRequest == MakeRequest("ok", Line(<<"get">>), Line(<<"keep">>), <<>>)
StressRequest == [KeptRequest EXCEPT !.stream = @ \o <<"x", "x">>, !.keep = TRUE]
ShortRequest == MakeRequest("ok", Line(<<"get">>), <<>>, <<>>)
PipelinedRequests ==
  {ShortRequest, StressRequest, [StressRequest EXCEPT !.stream = @ \o @],
   [KeptRequest EXCEPT !.stream = @ \o ShortRequest.stream, !.keep = TRUE]}

SomeRequests == PipelinedRequests \union GoodRequests \union BadLines \union BrokenRequests

BodyRequests == {req \in GoodRequests : req.body > 0 /\ req.head < 9}

=============================================================================
