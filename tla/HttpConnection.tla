--------------------------- MODULE HttpConnection ---------------------------
(***************************************************************************)
(* One HTTP connection and the requests that come in on it, one after the  *)
(* other: HttpConnection with its HttpParser.  SubReactor hands the        *)
(* connection to one worker at a time, so the handlers need no lock here;  *)
(* what varies is where TCP cuts the stream of requests, and what the      *)
(* parser has in its buffer when it is called again.                       *)
(*                                                                         *)
(* A request is a stream of pieces: the text of its first line, a line     *)
(* end, the text of its headers, which stand for one line, a line end, the *)
(* empty line, and its body: bytes, or, if it is multipart, a boundary,    *)
(* which a preamble may come before, a part with its headers and its data, *)
(* and the boundary with two dashes that ends it.  A request that is bad   *)
(* has a header line without a colon, or a boundary with no line end.      *)
(*                                                                         *)
(* When a connection is over, its HttpConnection goes back to the pool,    *)
(* and the next connection is served by the same object.                   *)
(***************************************************************************)
EXTENDS Naturals, Sequences

CONSTANTS MaxRequests,  \* bound: the requests of the client
          Kinds,        \* the requests: [type, len, keep, bad]
          Cuts,         \* <<a, b>>: a TCP segment may end between a and b
          Pipelining    \* the next request may come before the response

Types == {"get", "post", "multipart", "upgrade", "misplaced"}

ASSUME KindsAssumption ==
  Kinds \subseteq [type : Types, len : Nat, keep : BOOLEAN, bad : BOOLEAN]
ASSUME SwitchesAssumption == MaxRequests \in Nat /\ Pipelining \in BOOLEAN

VARIABLES
  asked,      \* the requests the client has begun to send
  unsent,     \* the pieces of the last one that are still to be sent
  gone,       \* the client has closed its end
  kernel,     \* the pieces received and not yet read
  place,      \* "in" and "out": armed for it; "parse", "write": in a handler;
              \* "closed", "upgraded"; "pooled": the object is free
  buffer,     \* m_read_buffer
  processed,  \* processed_bytes: how much of it parse has gone over
  state,      \* m_state of the parser
  request,    \* m_request: its kind once the headers are parsed, its body
  files,      \* which of m_file_fd ("send") and m_file_stream ("upload") are open
  toSend,     \* m_bytes_to_send: 0, 1 or 2 halves of a response
  code,       \* the status of the response being sent
  answers     \* the statuses of the responses sent in full

clientVars == <<asked, unsent, gone>>
parseVars  == <<buffer, processed, state, request>>
writeVars  == <<toSend, code, answers>>
vars == <<clientVars, kernel, place, parseVars, files, writeVars>>

NoKind == [type |-> "none", len |-> 0, keep |-> FALSE, bad |-> FALSE]
NoRequest == [kind |-> NoKind, body |-> 0]

Init ==
  /\ asked = <<>> /\ unsent = <<>> /\ gone = FALSE
  /\ kernel = <<>> /\ place = "in"
  /\ buffer = <<>> /\ processed = 0 /\ state = "REQUEST_LINE"
  /\ request = NoRequest /\ files = {}
  /\ toSend = 0 /\ code = 200 /\ answers = <<>>

-----------------------------------------------------------------------------
(* The client and the network. *)

Piece(what, k) == [what |-> what, kind |-> k]

Body(k, preamble) ==
  CASE k.type = "post" -> [i \in 1 .. k.len |-> "body"]
    [] k.type = "multipart" ->
         IF k.bad THEN <<"boundary", "body">>
         ELSE preamble \o <<"boundary", "eol", "part", "eol", "empty">>
           \o [i \in 1 .. k.len |-> "body"] \o <<"eol", "boundary", "dashes", "eol">>
    [] OTHER -> <<>>

Pieces(k, preamble) ==
  LET text == <<"first", "eol", "header", "eol", "empty">> \o Body(k, preamble)
  IN [i \in DOMAIN text |-> Piece(text[i], k)]

ClientAsks ==
  /\ Len(asked) < MaxRequests /\ ~gone /\ unsent = <<>>
  /\ Pipelining \/ Len(answers) = Len(asked)
  /\ \E k \in Kinds, preamble \in {<<>>, <<"preamble", "eol">>} :
       asked' = Append(asked, k) /\ unsent' = Pieces(k, preamble)
  /\ UNCHANGED <<files, gone, kernel, place, parseVars, writeVars>>

NetworkDelivers ==
  /\ unsent # <<>>
  /\ \E n \in 1 .. Len(unsent) :
       /\ n < Len(unsent) => <<unsent[n].what, unsent[n + 1].what>> \in Cuts
       /\ kernel' = kernel \o SubSeq(unsent, 1, n)
       /\ unsent' = SubSeq(unsent, n + 1, Len(unsent))
  /\ UNCHANGED <<files, asked, gone, place, parseVars, writeVars>>

ClientCloses ==
  /\ ~gone /\ gone' = TRUE
  /\ UNCHANGED <<files, asked, unsent, kernel, place, parseVars, writeVars>>

\* The reactor closes a connection that hangs up while no handler runs.
HangUp ==
  /\ gone /\ place \in {"in", "out"}
  /\ place' = "closed"
  /\ UNCHANGED <<files, clientVars, kernel, parseVars, writeVars>>

-----------------------------------------------------------------------------
(* handle_read. *)

\* recv until there is no more; at the end of the stream the handler closes
\* the connection and parses nothing.
Receive ==
  /\ place = "in" /\ kernel # <<>>
  /\ buffer' = buffer \o kernel /\ kernel' = <<>>
  /\ processed' = 0
  /\ place' = IF gone THEN "closed" ELSE "parse"
  /\ UNCHANGED <<files, clientVars, state, request, writeVars>>

\* What handle_static_file answers with a path: a large file, or else a text.
ByPath(status) == status = 200 /\ request.kind.type = "get"

\* prepare_response: a text, which is sent in one or two halves, or a file that
\* is opened and sent after its header, or, if that fails, the text of an error.
PrepareResponse(status) ==
  /\ \/ code' = status /\ toSend' \in 1 .. 2 /\ UNCHANGED files
     \/ /\ ByPath(status) /\ code' = status
        /\ toSend' = 2 /\ files' = files \cup {"send"}
     \/ ByPath(status) /\ code' = 404 /\ toSend' \in 1 .. 2 /\ UNCHANGED files
  /\ place' = "out"
  /\ UNCHANGED answers

Erase(n) == buffer' = SubSeq(buffer, n + 1, Len(buffer))

Is(i, whats) == i \in 1 .. Len(buffer) /\ buffer[i].what \in whats
IsEnd(i) == Is(i, {"eol", "empty"})

\* The positions that parse has not gone over, of line ends among others.
Ahead == processed + 1 .. Len(buffer)
LineEnds == {i \in Ahead : IsEnd(i)}
FirstOf(S) == CHOOSE i \in S : \A j \in S : i <= j

\* A line that parse_request_line, or parse_header_line, accepts.
IsFirst(i) == Is(i, {"first"})

IsHeader(i) ==
  /\ Is(i, {"header"})
  /\ buffer[i].kind.bad => buffer[i].kind.type = "multipart"

InLines == place = "parse" /\ state \in {"REQUEST_LINE", "HEADERS"}
InBody == place = "parse" /\ state = "BODY" /\ processed < Len(buffer)

\* The first line, the headers, and the empty line, each up to its end.
RequestLine ==
  /\ InLines /\ state = "REQUEST_LINE" /\ LineEnds # {}
  /\ IsFirst(processed + 1)
  /\ processed' = FirstOf(LineEnds)
  /\ state' = "HEADERS"
  /\ UNCHANGED <<files, clientVars, kernel, place, buffer, request, writeVars>>

HeaderLine ==
  /\ InLines /\ state = "HEADERS" /\ LineEnds # {}
  /\ FirstOf(LineEnds) > processed + 1
  /\ IsHeader(processed + 1)
  /\ processed' = FirstOf(LineEnds)
  /\ request' = [request EXCEPT !.kind = buffer[processed + 1].kind]
  /\ UNCHANGED <<files, clientVars, kernel, place, buffer, state, writeVars>>

EmptyLine ==
  /\ InLines /\ state = "HEADERS" /\ LineEnds # {}
  /\ FirstOf(LineEnds) = processed + 1
  /\ processed' = processed + 1
  /\ state' = CASE request.kind.type = "multipart" -> "BOUNDARY_SEARCH"
                [] request.kind.type = "post" -> "BODY"
                [] OTHER -> "DONE"
  /\ UNCHANGED <<files, clientVars, kernel, place, buffer, request, writeVars>>

\* A line that is not what it should be: a first line is no header, as it has no
\* colon.  The buffer keeps everything.
ParseError ==
  /\ InLines /\ LineEnds # {}
  /\ \/ state = "REQUEST_LINE" /\ ~IsFirst(processed + 1)
     \/ /\ state = "HEADERS" /\ ~IsHeader(processed + 1)
        /\ FirstOf(LineEnds) > processed + 1
  /\ PrepareResponse(400)
  /\ UNCHANGED <<clientVars, kernel, parseVars>>

\* A line whose end is not there: the handler waits for more, and neither what
\* was gone over nor the state that was reached is taken back.
LineIncomplete ==
  /\ InLines /\ processed < Len(buffer) /\ LineEnds = {}
  /\ place' = "in"
  /\ UNCHANGED <<files, clientVars, kernel, parseVars, writeVars>>

\* As much of the body as is there and belongs to the request.
BodyBytes ==
  /\ InBody
  /\ LET missing == request.kind.len - request.body
         there   == Len(buffer) - processed
         n       == IF there < missing THEN there ELSE missing
     IN  /\ processed' = processed + n
         /\ request' = [request EXCEPT !.body = @ + n]
         /\ state' = IF n = missing THEN "DONE" ELSE state
  /\ UNCHANGED <<files, clientVars, kernel, place, buffer, writeVars>>

(***************************************************************************)
(* handle_multipart.  What it leaves for the next call stays in the buffer. *)
(***************************************************************************)
InPart(s) == place = "parse" /\ state = s /\ Ahead # {}

\* The search steps over a line end at its start, and waits for a boundary.
SearchStart == IF IsEnd(processed + 1) THEN processed + 2 ELSE processed + 1
Boundaries == {i \in SearchStart .. Len(buffer) : buffer[i].what = "boundary"}

BoundaryMissing ==
  /\ InPart("BOUNDARY_SEARCH") /\ Boundaries = {}
  /\ processed' = SearchStart - 1
  /\ Erase(processed')
  /\ place' = "in"
  /\ UNCHANGED <<clientVars, kernel, state, request, files, writeVars>>

\* A part begins, or the dashes end the body with the line end after them.
BoundaryFound ==
  /\ InPart("BOUNDARY_SEARCH") /\ Boundaries # {}
  /\ LET next == FirstOf(Boundaries) + 1 IN
       \/ /\ Is(next, {"dashes"})
          /\ processed' = IF IsEnd(next + 1) THEN next + 1 ELSE next
          /\ state' = "DONE"
       \/ /\ IsEnd(next)
          /\ processed' = next
          /\ state' = "PART_HEADERS"
  /\ UNCHANGED <<clientVars, kernel, place, buffer, request, files, writeVars>>

\* Behind the boundary there is neither, if only because it has not come in.
BoundaryError ==
  /\ InPart("BOUNDARY_SEARCH") /\ Boundaries # {}
  /\ LET next == FirstOf(Boundaries) + 1 IN ~Is(next, {"dashes"}) /\ ~IsEnd(next)
  /\ PrepareResponse(400)
  /\ UNCHANGED <<clientVars, kernel, parseVars>>

PartEnds == {i \in Ahead : IsEnd(i) /\ IsEnd(i + 1)}

\* The part is a field of the form, or a file that is opened for its data.
PartHeaders ==
  /\ InPart("PART_HEADERS") /\ PartEnds # {}
  /\ processed' = FirstOf(PartEnds) + 1
  /\ state' = "PART_DATA"
  /\ files' \in {files, files \cup {"upload"}}
  /\ UNCHANGED <<clientVars, kernel, place, buffer, request, writeVars>>

PartHeadersIncomplete ==
  /\ InPart("PART_HEADERS") /\ PartEnds = {}
  /\ Erase(processed)
  /\ place' = "in"
  /\ UNCHANGED <<clientVars, kernel, processed, state, request, files, writeVars>>

DataEnds == {i \in Ahead : IsEnd(i) /\ Is(i + 1, {"boundary"})}

Store(n) == request' = [request EXCEPT !.body = @ + n - processed]

\* Mutant: the line end before the boundary is stored with the data.
PartDataLong ==
  /\ InPart("PART_DATA") /\ DataEnds # {}
  /\ processed' = FirstOf(DataEnds) - 1
  /\ Store(processed' + 1)
  /\ state' = "BOUNDARY_SEARCH"
  /\ files' = files \ {"upload"}
  /\ UNCHANGED <<clientVars, kernel, place, buffer, writeVars>>

\* The data ends before a line end with the boundary behind it.
PartData ==
  /\ InPart("PART_DATA") /\ DataEnds # {}
  /\ processed' = FirstOf(DataEnds) - 1
  /\ Store(processed')
  /\ state' = "BOUNDARY_SEARCH"
  /\ files' = files \ {"upload"}
  /\ UNCHANGED <<clientVars, kernel, place, buffer, writeVars>>

\* Without such an end everything that is there is data.
PartDataIncomplete ==
  /\ InPart("PART_DATA") /\ DataEnds = {}
  /\ processed' = Len(buffer)
  /\ Store(processed')
  /\ Erase(processed')
  /\ place' = "in"
  /\ UNCHANGED <<clientVars, kernel, state, files, writeVars>>

\* The loop of parse ends with the buffer.
BufferIncomplete ==
  /\ place = "parse" /\ state # "DONE" /\ processed = Len(buffer)
  /\ Erase(processed)
  /\ place' = "in"
  /\ UNCHANGED <<files, clientVars, kernel, processed, state, request, writeVars>>

\* The route is found and its handler run: an upgrade is answered 101 on its own
\* path only.  404 stands for every status of a refusal (400 of a handler, 401, 403,
\* 404, 405, 500), so that 400 is the parser's.
Statuses(type) ==
  CASE type = "upgrade" -> {101} [] type = "misplaced" -> {404} [] OTHER -> {200, 404}

Complete ==
  /\ place = "parse" /\ state = "DONE"
  /\ Erase(processed)
  /\ \E status \in Statuses(request.kind.type) : PrepareResponse(status)
  /\ UNCHANGED <<clientVars, kernel, processed, state, request>>

-----------------------------------------------------------------------------
(* handle_write. *)

Writable ==
  /\ place = "out" /\ ~gone
  /\ place' = "write"
  /\ UNCHANGED <<files, clientVars, kernel, parseVars, writeVars>>

\* Mutant: what was sent is counted twice.
WriteSomeTwice ==
  /\ place = "write" /\ toSend > 0
  /\ toSend' = toSend - 2
  /\ UNCHANGED <<files, clientVars, kernel, place, parseVars, code, answers>>

WriteSome ==
  /\ place = "write" /\ toSend > 0
  /\ toSend' = toSend - 1
  /\ UNCHANGED <<files, clientVars, kernel, place, parseVars, code, answers>>

\* Mutant: the handler asks for input while it has output.
WriteAgainRead ==
  /\ place = "write" /\ toSend > 0
  /\ place' = IF gone THEN "closed" ELSE "in"
  /\ UNCHANGED <<clientVars, kernel, parseVars, files, writeVars>>

\* The socket takes no more, or fails when the client is gone.
WriteAgain ==
  /\ place = "write" /\ toSend > 0
  /\ place' = IF gone THEN "closed" ELSE "out"
  /\ files' = IF gone THEN files \ {"send"} ELSE files
  /\ UNCHANGED <<clientVars, kernel, parseVars, writeVars>>

ResetParser == state' = "REQUEST_LINE" /\ request' = NoRequest

\* Mutant: the parser is not reset for the next request.
ResetBuffers ==
  /\ buffer' = <<>> /\ processed' = 0 /\ files' = {}
  /\ UNCHANGED <<state, request>>

\* Mutant: the stream of an upload is not closed.
ResetKeepsStream ==
  /\ ResetParser
  /\ buffer' = <<>> /\ processed' = 0
  /\ files' = files \ {"send"}

\* reset_for_keep_alive, and reset: everything, the read buffer too.
Reset ==
  /\ ResetParser
  /\ buffer' = <<>> /\ processed' = 0
  /\ files' = {}

\* m_is_websocket, from handle_read.
IsWebSocket == state = "DONE" /\ request.kind.type \in {"upgrade", "misplaced"}

\* The response is sent: the connection waits for the next request, is upgraded,
\* or is closed.
WriteDone ==
  /\ place = "write" /\ toSend = 0
  /\ answers' = Append(answers, code)
  /\ IF request.kind.keep
       THEN place' = "in" /\ Reset
       ELSE /\ place' = IF IsWebSocket THEN "upgraded" ELSE "closed"
            /\ files' = files \ {"send"}
            /\ UNCHANGED parseVars
  /\ UNCHANGED <<clientVars, kernel, toSend, code>>

-----------------------------------------------------------------------------
(***************************************************************************)
(* HttpConnectionPool: an object is reset when it is released, and once    *)
(* more when it is acquired for the next connection.                       *)
(***************************************************************************)
Release ==
  /\ place \in {"closed", "upgraded"} /\ place' = "pooled"
  /\ Reset /\ toSend' = 0
  /\ UNCHANGED <<clientVars, kernel, code, answers>>

Acquire ==
  /\ place = "pooled" /\ place' = "in"
  /\ asked' = <<>> /\ unsent' = <<>> /\ gone' = FALSE
  /\ kernel' = <<>> /\ answers' = <<>> /\ code' = 200
  /\ Reset /\ UNCHANGED toSend

-----------------------------------------------------------------------------
Client == ClientAsks \/ ClientCloses

HandleRead ==
  \/ Receive \/ RequestLine \/ HeaderLine \/ EmptyLine \/ ParseError
  \/ LineIncomplete \/ BodyBytes \/ BufferIncomplete \/ Complete
  \/ BoundaryMissing \/ BoundaryFound \/ BoundaryError
  \/ PartHeaders \/ PartHeadersIncomplete \/ PartData \/ PartDataIncomplete

HandleWrite == Writable \/ WriteSome \/ WriteAgain \/ WriteDone

Next ==
  \/ Client \/ NetworkDelivers \/ HangUp \/ HandleRead \/ HandleWrite
  \/ Release \/ Acquire

Safe == Init /\ [][Next]_vars

\* What was sent arrives, the threads run, and a client that does not go away
\* takes some of its response in the end.
Spec ==
  /\ Safe
  /\ WF_vars(NetworkDelivers)
  /\ WF_vars(HandleRead) /\ WF_vars(HandleWrite \/ HangUp)
  /\ SF_vars(WriteSome)

-----------------------------------------------------------------------------
AllPieces ==
  [what : {"first", "eol", "header", "empty", "body", "preamble", "boundary",
           "part", "dashes"},
   kind : Kinds]

TypeOK ==
  /\ asked \in Seq(Kinds) /\ Len(asked) <= MaxRequests
  /\ unsent \in Seq(AllPieces) /\ kernel \in Seq(AllPieces)
  /\ gone \in BOOLEAN
  /\ place \in {"in", "out", "parse", "write", "closed", "upgraded", "pooled"}
  /\ buffer \in Seq(AllPieces) /\ processed \in Nat
  /\ state \in {"REQUEST_LINE", "HEADERS", "BODY", "DONE",
               "BOUNDARY_SEARCH", "PART_HEADERS", "PART_DATA"}
  /\ request \in [kind : Kinds \cup {NoKind}, body : Nat]
  /\ files \subseteq {"send", "upload"}
  /\ toSend \in 0 .. 2 /\ code \in {101, 200, 400, 404}
  /\ answers \in Seq({101, 200, 400, 404})

\* Response i is to request i: there is none to a request that is not all
\* there, the parser's 400 is for what the client got wrong, and the connection
\* becomes a WebSocket when, and only when, the client was told so.
RightAnswers ==
  /\ Len(answers) <= Len(asked)
  /\ \A i \in 1 .. Len(answers) :
       /\ (answers[i] = 400) = asked[i].bad
       /\ answers[i] = 101 => i = Len(answers) /\ place \in {"upgraded", "pooled"}
  /\ place = "upgraded" => answers # <<>> /\ answers[Len(answers)] = 101

\* A response is begun when its request has come in to the last byte and its
\* body is stored as it was sent, unless the parser found it wrong.
NoEarlyAnswer ==
  place \in {"out", "write"} /\ code # 400 => request.body = request.kind.len

\* No file is left open behind the request it belongs to: not while the
\* connection waits for the next one, nor in an object that is free.
FilesClosed ==
  place = "pooled" \/ (place = "in" /\ state = "REQUEST_LINE") => files = {}

\* Every request is answered, unless the connection ends.
Answered ==
  \A i \in 1 .. MaxRequests :
    Len(asked) >= i ~> Len(answers) >= i \/ place \in {"closed", "upgraded", "pooled"}
=============================================================================
