------------------------ MODULE HttpConnectionProofs ------------------------
(***************************************************************************)
(* Proofs about HttpConnection, for any kinds of requests, any lengths of  *)
(* bodies and any number of requests.                                      *)
(*                                                                         *)
(* TypeCorrect and FilesClosedHolds have no hypothesis.  They rest on      *)
(* Types2: the types, that the body stored never exceeds what the headers  *)
(* told (BodyFits, without which missing in BodyBytes is no natural        *)
(* number), and where each file may be open (FilesInv).                    *)
(*                                                                         *)
(* RightAnswersHold and NoEarlyAnswerHolds suppose Served: no pipelining,  *)
(* no cut of BadCuts, no upgrade outside its path or with keep-alive, no   *)
(* body that a kind has not.  In each of the other cases the code really   *)
(* answers wrongly or not at all, as the README tells.  Their invariant is *)
(* StreamInv: the connection waits for a request, is reading one, is       *)
(* answering one, or is over; while it reads, the buffer, the kernel and   *)
(* what is unsent are, one behind the other, the text of the last request  *)
(* from some position on, and the state of the parser is what the text up  *)
(* to there makes of it.                                                   *)
(***************************************************************************)
EXTENDS HttpConnection, Integers, SequenceTheorems, WellFoundedInduction, TLAPS

USE KindsAssumption, SwitchesAssumption

States == {"REQUEST_LINE", "HEADERS", "BODY", "DONE",
           "BOUNDARY_SEARCH", "PART_HEADERS", "PART_DATA"}
Codes == {101, 200, 400, 404}

\* What parse has stored of the body is never more than the headers told.
BodyFits ==
  /\ state \in {"REQUEST_LINE", "HEADERS"} => request.body = 0
  /\ state = "BODY" => request.body <= request.kind.len

\* A stream of an upload is open only while the data of its part comes in, a file
\* that is sent only from the response on, until the connection is over.
FilesInv ==
  /\ "upload" \in files => state = "PART_DATA"
  /\ "send" \in files => place \in {"out", "write", "closed"}
  /\ place = "pooled" => files = {}

-----------------------------------------------------------------------------
(* Sequences and first positions. *)

Less == {p \in Nat \X Nat : p[1] < p[2]}

LEMMA FirstIsLeast ==
  ASSUME NEW S, S \subseteq Nat, S # {}
  PROVE  FirstOf(S) \in S /\ \A j \in S : FirstOf(S) <= j
<1>1. IsWellFoundedOn(Less, Nat)
  BY NatLessThanWellFounded DEF Less, OpToRel
<1>2. IsWellFoundedOn(Less, Nat) => \E i \in S : \A j \in S : ~ <<j, i>> \in Less
  BY WFMin
<1>3. PICK i \in S : \A j \in S : ~ <<j, i>> \in Less
  BY <1>1, <1>2
<1>4. \A j \in S : i <= j
  <2> SUFFICES ASSUME NEW j \in S PROVE i <= j
    OBVIOUS
  <2>1. i \in Nat /\ j \in Nat
    OBVIOUS
  <2>2. ~ j < i
    BY <1>3, <2>1 DEF Less
  <2> QED BY <2>1, <2>2
<1> QED BY <1>3, <1>4 DEF FirstOf

LEMMA RestType ==
  ASSUME NEW T, NEW q \in Seq(T), NEW n \in Nat
  PROVE  SubSeq(q, n + 1, Len(q)) \in Seq(T)
<1>1. Len(q) \in Nat
  OBVIOUS
<1>2. CASE n + 1 <= Len(q)
  BY <1>1, <1>2, SubSeqProperties
<1>3. CASE ~ n + 1 <= Len(q)
  BY <1>1, <1>3, SubSeqProperties
<1> QED BY <1>2, <1>3

-----------------------------------------------------------------------------
(* The pieces of a request. *)

Whats == {"first", "eol", "header", "empty", "body", "preamble", "boundary",
          "part", "dashes"}
Preambles == {<<>>, <<"preamble", "eol">>}

LEMMA BodyType ==
  ASSUME NEW k \in Kinds, NEW preamble \in Preambles
  PROVE  Body(k, preamble) \in Seq(Whats)
<1>1. k.len \in Nat
  OBVIOUS
<1>2. [i \in 1 .. k.len |-> "body"] \in Seq(Whats)
  BY <1>1 DEF Whats
<1>3. preamble \in Seq(Whats)
  <2>1. <<>> \in Seq(Whats) /\ <<"preamble", "eol">> \in Seq(Whats)
    BY DEF Whats
  <2> QED BY <2>1 DEF Preambles
<1>4. /\ <<"boundary", "body">> \in Seq(Whats)
      /\ <<"boundary", "eol", "part", "eol", "empty">> \in Seq(Whats)
      /\ <<"eol", "boundary", "dashes", "eol">> \in Seq(Whats)
      /\ <<>> \in Seq(Whats)
  BY DEF Whats
<1> HIDE DEF Whats, Preambles
<1>5. (preamble \o <<"boundary", "eol", "part", "eol", "empty">>
         \o [i \in 1 .. k.len |-> "body"] \o <<"eol", "boundary", "dashes", "eol">>)
        \in Seq(Whats)
  BY <1>2, <1>3, <1>4
<1> QED BY <1>2, <1>4, <1>5 DEF Body

LEMMA PiecesType ==
  ASSUME NEW k \in Kinds, NEW preamble \in Preambles
  PROVE  Pieces(k, preamble) \in Seq(AllPieces)
<1> DEFINE text == <<"first", "eol", "header", "eol", "empty">> \o Body(k, preamble)
<1>1. text \in Seq(Whats)
  <2>1. <<"first", "eol", "header", "eol", "empty">> \in Seq(Whats)
    BY DEF Whats
  <2> QED BY <2>1, BodyType
<1>2. Len(text) \in Nat /\ DOMAIN text = 1 .. Len(text)
  BY <1>1
<1>3. \A i \in 1 .. Len(text) : Piece(text[i], k) \in AllPieces
  <2> TAKE i \in 1 .. Len(text)
  <2>1. text[i] \in Whats
    BY <1>1, ElementOfSeq
  <2> HIDE DEF text
  <2> QED BY <2>1 DEF Piece, AllPieces, Whats
<1>4. Pieces(k, preamble) = [i \in 1 .. Len(text) |-> Piece(text[i], k)]
  BY <1>2 DEF Pieces
<1> HIDE DEF text
<1> QED BY <1>2, <1>3, <1>4, SeqDef

-----------------------------------------------------------------------------
(* Types. *)

LEMMA InitTypes == Init => TypeOK /\ BodyFits /\ FilesInv
<1> HAVE Init
<1>1. <<>> \in Seq(Kinds) /\ <<>> \in Seq(AllPieces) /\ <<>> \in Seq(Codes)
  OBVIOUS
<1>2. Len(asked) <= MaxRequests /\ toSend \in 0 .. 2
  BY DEF Init
<1>3. request \in [kind : Kinds \cup {NoKind}, body : Nat] /\ request.body = 0
  BY DEF Init, NoRequest
<1>4. TypeOK
  <2> HIDE DEF AllPieces, NoKind
  <2>1. asked \in Seq(Kinds) /\ answers \in Seq({101, 200, 400, 404})
    BY <1>1 DEF Init, Codes
  <2>2. unsent \in Seq(AllPieces) /\ kernel \in Seq(AllPieces)
          /\ buffer \in Seq(AllPieces)
    BY <1>1 DEF Init
  <2>3. processed \in Nat /\ code \in {101, 200, 400, 404}
    BY DEF Init
  <2>4. gone \in BOOLEAN /\ place = "in" /\ state = "REQUEST_LINE" /\ files = {}
    BY DEF Init
  <2> QED BY <1>2, <1>3, <2>1, <2>2, <2>3, <2>4 DEF TypeOK
<1> QED BY <1>3, <1>4 DEF Init, BodyFits, FilesInv

\* TypeOK with the two invariants, by the groups of variables.
ClientTypes ==
  /\ asked \in Seq(Kinds) /\ Len(asked) <= MaxRequests
  /\ unsent \in Seq(AllPieces) /\ gone \in BOOLEAN

ParseTypes ==
  /\ buffer \in Seq(AllPieces) /\ processed \in Nat /\ state \in States
  /\ request \in [kind : Kinds \cup {NoKind}, body : Nat]
  /\ BodyFits

WriteTypes == toSend \in 0 .. 2 /\ code \in Codes /\ answers \in Seq(Codes)

PlaceTypes ==
  /\ place \in {"in", "out", "parse", "write", "closed", "upgraded", "pooled"}
  /\ files \subseteq {"send", "upload"}
  /\ FilesInv

Types2 ==
  /\ ClientTypes /\ kernel \in Seq(AllPieces) /\ ParseTypes /\ WriteTypes
  /\ PlaceTypes

LEMMA TypesParts == TypeOK /\ BodyFits /\ FilesInv <=> Types2
  BY DEF TypeOK, Types2, ClientTypes, ParseTypes, WriteTypes, PlaceTypes, States, Codes

LEMMA Same ==
  /\ ClientTypes /\ UNCHANGED clientVars => ClientTypes'
  /\ ParseTypes /\ UNCHANGED parseVars => ParseTypes'
  /\ WriteTypes /\ UNCHANGED writeVars => WriteTypes'
  /\ PlaceTypes /\ UNCHANGED <<place, files, state>> => PlaceTypes'
<1>1. ClientTypes /\ UNCHANGED clientVars => ClientTypes'
  BY DEF ClientTypes, clientVars
<1>2. ParseTypes /\ UNCHANGED parseVars => ParseTypes'
  BY DEF ParseTypes, parseVars, BodyFits
<1>3. WriteTypes /\ UNCHANGED writeVars => WriteTypes'
  BY DEF WriteTypes, writeVars
<1>4. PlaceTypes /\ UNCHANGED <<place, files, state>> => PlaceTypes'
  BY DEF PlaceTypes, FilesInv
<1> QED BY <1>1, <1>2, <1>3, <1>4

LEMMA ClientStep ==
  ASSUME Types2, ClientAsks \/ ClientCloses \/ NetworkDelivers \/ HangUp
  PROVE  Types2'
<1>1. CASE ClientAsks
  <2>1. PICK k \in Kinds, preamble \in Preambles :
          asked' = Append(asked, k) /\ unsent' = Pieces(k, preamble)
    BY <1>1 DEF ClientAsks, Preambles
  <2>2. Len(asked) < MaxRequests /\ asked \in Seq(Kinds) /\ gone' \in BOOLEAN
    BY <1>1 DEF ClientAsks, Types2, ClientTypes
  <2>3. asked' \in Seq(Kinds) /\ Len(asked') <= MaxRequests
    BY <2>1, <2>2
  <2>4. ClientTypes'
    BY <2>1, <2>2, <2>3, PiecesType DEF ClientTypes
  <2>5. UNCHANGED <<files, kernel, place, state, parseVars, writeVars>>
    BY <1>1 DEF ClientAsks, parseVars
  <2> QED BY <2>4, <2>5, Same DEF Types2
<1>2. CASE ClientCloses
  <2>1. UNCHANGED <<files, kernel, place, state, parseVars, writeVars, asked, unsent>>
          /\ gone' = TRUE
    BY <1>2 DEF ClientCloses, parseVars
  <2>2. ClientTypes'
    BY <2>1 DEF ClientTypes, Types2
  <2> QED BY <2>1, <2>2, Same DEF Types2
<1>3. CASE NetworkDelivers
  <2>1. PICK n \in 1 .. Len(unsent) :
          /\ kernel' = kernel \o SubSeq(unsent, 1, n)
          /\ unsent' = SubSeq(unsent, n + 1, Len(unsent))
    BY <1>3 DEF NetworkDelivers
  <2>2. unsent \in Seq(AllPieces) /\ kernel \in Seq(AllPieces)
    BY DEF Types2, ClientTypes
  <2>3. unsent' \in Seq(AllPieces)
    BY <2>1, <2>2, RestType
  <2>4. SubSeq(unsent, 1, n) \in Seq(AllPieces)
    BY <2>2, SubSeqProperties
  <2>5. kernel' \in Seq(AllPieces)
    BY <2>1, <2>2, <2>4
  <2>6. UNCHANGED <<files, place, state, parseVars, writeVars, asked, gone>>
    BY <1>3 DEF NetworkDelivers, parseVars
  <2>7. ClientTypes'
    BY <2>3, <2>6 DEF ClientTypes, Types2
  <2> QED BY <2>5, <2>6, <2>7, Same DEF Types2
<1>4. CASE HangUp
  <2>1. UNCHANGED <<files, kernel, state, clientVars, parseVars, writeVars>>
          /\ place' = "closed"
    BY <1>4 DEF HangUp, parseVars
  <2>2. PlaceTypes'
    BY <2>1 DEF PlaceTypes, FilesInv, Types2
  <2> QED BY <2>1, <2>2, Same DEF Types2
<1> QED BY <1>1, <1>2, <1>3, <1>4

LEMMA PrepareTypes ==
  ASSUME Types2, NEW status \in Codes, PrepareResponse(status), UNCHANGED state,
         place = "parse"
  PROVE  WriteTypes' /\ PlaceTypes'
<1>1. toSend' \in 0 .. 2 /\ code' \in Codes /\ answers' = answers /\ place' = "out"
  BY DEF PrepareResponse, Codes
<1>2. files' = files \/ files' = files \cup {"send"}
  BY DEF PrepareResponse
<1>3. WriteTypes'
  BY <1>1 DEF Types2, WriteTypes
<1>4. PlaceTypes'
  BY <1>1, <1>2 DEF Types2, PlaceTypes, FilesInv
<1> QED BY <1>3, <1>4

LEMMA EraseType ==
  ASSUME Types2, NEW n \in Nat, Erase(n)
  PROVE  buffer' \in Seq(AllPieces)
  BY RestType DEF Erase, Types2, ParseTypes

\* The first of some positions that parse has not gone over.
LEMMA AheadFirst ==
  ASSUME Types2, NEW S, S \subseteq Ahead, S # {}
  PROVE  /\ FirstOf(S) \in S /\ FirstOf(S) \in Nat
         /\ FirstOf(S) > processed /\ FirstOf(S) <= Len(buffer)
         /\ \A j \in S : FirstOf(S) <= j
<1>1. processed \in Nat /\ Len(buffer) \in Nat
  BY DEF Types2, ParseTypes
<1>2. S \subseteq Nat /\ \A i \in S : i > processed /\ i <= Len(buffer)
  BY <1>1 DEF Ahead
<1> QED BY <1>2, FirstIsLeast

\* The facts about the parser that its steps start from.
LEMMA ParseFacts ==
  ASSUME Types2
  PROVE  /\ buffer \in Seq(AllPieces) /\ Len(buffer) \in Nat /\ processed \in Nat
         /\ request \in [kind : Kinds \cup {NoKind}, body : Nat]
         /\ request.kind.len \in Nat /\ request.body \in Nat
         /\ \A i \in 1 .. Len(buffer) : buffer[i].kind \in Kinds
<1>1. /\ buffer \in Seq(AllPieces) /\ processed \in Nat
      /\ request \in [kind : Kinds \cup {NoKind}, body : Nat]
  BY DEF Types2, ParseTypes
<1>2. request.kind.len \in Nat
  BY <1>1 DEF NoKind
<1>3. \A i \in 1 .. Len(buffer) : buffer[i].kind \in Kinds
  <2>1. \A i \in 1 .. Len(buffer) : buffer[i] \in AllPieces
    BY <1>1, ElementOfSeq
  <2> QED BY <2>1 DEF AllPieces
<1> QED BY <1>1, <1>2, <1>3

LEMMA LineStep ==
  ASSUME Types2, RequestLine \/ HeaderLine \/ EmptyLine \/ LineIncomplete
  PROVE  Types2'
<1> USE ParseFacts
<1>0. LineEnds \subseteq Ahead
  BY DEF LineEnds
<1>1. CASE RequestLine
  <2>1. /\ processed' = FirstOf(LineEnds) /\ state' = "HEADERS"
        /\ UNCHANGED <<files, clientVars, kernel, place, buffer, request, writeVars>>
        /\ LineEnds # {} /\ state = "REQUEST_LINE"
    BY <1>1 DEF RequestLine
  <2>2. processed' \in Nat
    BY <1>0, <2>1, AheadFirst
  <2>3. ParseTypes'
    BY <2>1, <2>2 DEF Types2, ParseTypes, BodyFits, States
  <2>4. PlaceTypes'
    BY <2>1 DEF PlaceTypes, FilesInv, Types2
  <2> QED BY <2>1, <2>3, <2>4, Same DEF Types2
<1>2. CASE HeaderLine
  <2>1. /\ processed' = FirstOf(LineEnds) /\ state = "HEADERS"
        /\ request' = [request EXCEPT !.kind = buffer[processed + 1].kind]
        /\ UNCHANGED <<files, clientVars, kernel, place, buffer, state, writeVars>>
        /\ LineEnds # {}
    BY <1>2 DEF HeaderLine
  <2>2. processed + 1 \in 1 .. Len(buffer)
    BY <1>2 DEF HeaderLine, IsHeader, Is
  <2>3. processed' \in Nat
    BY <1>0, <2>1, AheadFirst
  <2>4. buffer[processed + 1].kind \in Kinds
    BY <2>2
  <2>5. request' \in [kind : Kinds \cup {NoKind}, body : Nat] /\ request'.body = request.body
    BY <2>1, <2>4
  <2>6. ParseTypes'
    BY <2>1, <2>3, <2>5 DEF Types2, ParseTypes, BodyFits
  <2> QED BY <2>1, <2>6, Same DEF Types2
<1>3. CASE EmptyLine
  <2>1. /\ processed' = processed + 1 /\ state = "HEADERS"
        /\ state' \in {"BOUNDARY_SEARCH", "BODY", "DONE"}
        /\ UNCHANGED <<files, clientVars, kernel, place, buffer, request, writeVars>>
    BY <1>3 DEF EmptyLine
  <2>2. processed' \in Nat
    BY <2>1
  <2>3. request.body = 0
    BY <2>1 DEF Types2, ParseTypes, BodyFits
  <2>4. ParseTypes'
    BY <2>1, <2>2, <2>3 DEF Types2, ParseTypes, BodyFits, States
  <2>5. PlaceTypes'
    BY <2>1 DEF PlaceTypes, FilesInv, Types2
  <2> QED BY <2>1, <2>4, <2>5, Same DEF Types2
<1>4. CASE LineIncomplete
  <2>1. /\ place = "parse" /\ place' = "in"
        /\ UNCHANGED <<files, clientVars, kernel, state, parseVars, writeVars>>
    BY <1>4 DEF LineIncomplete, InLines, parseVars
  <2>2. PlaceTypes'
    BY <2>1 DEF PlaceTypes, FilesInv, Types2
  <2> QED BY <2>1, <2>2, Same DEF Types2
<1> QED BY <1>1, <1>2, <1>3, <1>4

LEMMA BodyStep ==
  ASSUME Types2, Receive \/ BodyBytes \/ BufferIncomplete
  PROVE  Types2'
<1> USE ParseFacts
<1>1. CASE Receive
  <2>1. /\ buffer' = buffer \o kernel /\ kernel' = <<>> /\ processed' = 0
        /\ place = "in" /\ place' \in {"closed", "parse"}
        /\ UNCHANGED <<files, clientVars, state, request, writeVars>>
    BY <1>1 DEF Receive
  <2>2. buffer' \in Seq(AllPieces) /\ kernel' \in Seq(AllPieces) /\ processed' \in Nat
    BY <2>1 DEF Types2
  <2>3. ParseTypes'
    BY <2>1, <2>2 DEF Types2, ParseTypes, BodyFits
  <2>4. PlaceTypes'
    BY <2>1 DEF PlaceTypes, FilesInv, Types2
  <2> QED BY <2>1, <2>2, <2>3, <2>4, Same DEF Types2
<1>2. CASE BodyBytes
  <2> DEFINE missing == request.kind.len - request.body
             there == Len(buffer) - processed
             n == IF there < missing THEN there ELSE missing
  <2>1. /\ processed' = processed + n
        /\ request' = [request EXCEPT !.body = @ + n]
        /\ state' = IF n = missing THEN "DONE" ELSE state
        /\ state = "BODY" /\ processed < Len(buffer)
        /\ UNCHANGED <<files, clientVars, kernel, place, buffer, writeVars>>
    BY <1>2 DEF BodyBytes, InBody
  <2>2. request.body <= request.kind.len
    BY <2>1 DEF Types2, ParseTypes, BodyFits
  <2>3. n \in Nat /\ n <= missing
    BY <2>1, <2>2
  <2> HIDE DEF n
  <2>4. /\ processed' \in Nat /\ request.body + n \in Nat
        /\ request.body + n <= request.kind.len
    BY <2>1, <2>2, <2>3
  <2>5. /\ request' \in [kind : Kinds \cup {NoKind}, body : Nat]
        /\ request'.body = request.body + n /\ request'.kind = request.kind
    BY <2>1, <2>4
  <2>6. state' \in {"BODY", "DONE"}
    BY <2>1
  <2>7. ParseTypes'
    BY <2>1, <2>4, <2>5, <2>6 DEF Types2, ParseTypes, BodyFits, States
  <2>8. PlaceTypes'
    BY <2>1, <2>6 DEF PlaceTypes, FilesInv, Types2
  <2> QED BY <2>1, <2>7, <2>8, Same DEF Types2
<1>3. CASE BufferIncomplete
  <2>1. /\ Erase(processed) /\ place = "parse" /\ place' = "in"
        /\ UNCHANGED <<files, clientVars, kernel, processed, state, request, writeVars>>
    BY <1>3 DEF BufferIncomplete
  <2>2. ParseTypes'
    BY <2>1, EraseType DEF Types2, ParseTypes, BodyFits
  <2>3. PlaceTypes'
    BY <2>1 DEF PlaceTypes, FilesInv, Types2
  <2> QED BY <2>1, <2>2, <2>3, Same DEF Types2
<1> QED BY <1>1, <1>2, <1>3

LEMMA AnswerStep ==
  ASSUME Types2, ParseError \/ BoundaryError \/ Complete
  PROVE  Types2'
<1>1. CASE ParseError \/ BoundaryError
  <2>1. /\ place = "parse" /\ PrepareResponse(400)
        /\ UNCHANGED <<clientVars, kernel, state, parseVars>>
    BY <1>1 DEF ParseError, BoundaryError, InLines, InPart, parseVars
  <2>2. WriteTypes' /\ PlaceTypes'
    BY <2>1, PrepareTypes DEF Codes
  <2> QED BY <2>1, <2>2, Same DEF Types2
<1>2. CASE Complete
  <2>1. /\ place = "parse" /\ Erase(processed)
        /\ UNCHANGED <<clientVars, kernel, processed, state, request>>
    BY <1>2 DEF Complete
  <2>2. PICK status \in Statuses(request.kind.type) : PrepareResponse(status)
    BY <1>2 DEF Complete
  <2>3. WriteTypes' /\ PlaceTypes'
    <3>1. status \in Codes
      BY DEF Statuses, Codes
    <3> QED BY <2>1, <2>2, <3>1, PrepareTypes
  <2>4. ParseTypes'
    BY <2>1, EraseType, ParseFacts DEF Types2, ParseTypes, BodyFits
  <2> QED BY <2>1, <2>3, <2>4, Same DEF Types2
<1> QED BY <1>1, <1>2

LEMMA BoundaryStep ==
  ASSUME Types2, BoundaryMissing \/ BoundaryFound
  PROVE  Types2'
<1> USE ParseFacts
<1>0. SearchStart \in Nat /\ SearchStart >= processed + 1
  BY DEF SearchStart
<1>1. CASE BoundaryMissing
  <2>1. /\ processed' = SearchStart - 1 /\ Erase(processed')
        /\ place = "parse" /\ place' = "in"
        /\ UNCHANGED <<clientVars, kernel, state, request, files, writeVars>>
    BY <1>1 DEF BoundaryMissing, InPart
  <2>2. processed' \in Nat
    BY <1>0, <2>1
  <2>3. buffer' \in Seq(AllPieces)
    BY <2>1, <2>2, EraseType
  <2>4. ParseTypes'
    BY <2>1, <2>2, <2>3 DEF Types2, ParseTypes, BodyFits
  <2>5. PlaceTypes'
    BY <2>1 DEF PlaceTypes, FilesInv, Types2
  <2> QED BY <2>1, <2>4, <2>5, Same DEF Types2
<1>2. CASE BoundaryFound
  <2> DEFINE next == FirstOf(Boundaries) + 1
  <2>1. Boundaries \subseteq Ahead
    <3>1. SearchStart .. Len(buffer) \subseteq Ahead
      BY <1>0 DEF Ahead
    <3> QED BY <3>1 DEF Boundaries
  <2>2. next \in Nat
    BY <1>2, <2>1, AheadFirst DEF BoundaryFound
  <2>3. /\ processed' \in {next, next + 1} /\ state' \in {"DONE", "PART_HEADERS"}
        /\ state = "BOUNDARY_SEARCH"
        /\ UNCHANGED <<clientVars, kernel, place, buffer, request, files, writeVars>>
    BY <1>2 DEF BoundaryFound, InPart
  <2>4. processed' \in Nat
    BY <2>2, <2>3
  <2>5. ParseTypes'
    BY <2>3, <2>4 DEF Types2, ParseTypes, BodyFits, States
  <2>6. PlaceTypes'
    BY <2>3 DEF PlaceTypes, FilesInv, Types2
  <2> QED BY <2>3, <2>5, <2>6, Same DEF Types2
<1> QED BY <1>1, <1>2

LEMMA PartHeadersStep ==
  ASSUME Types2, PartHeaders \/ PartHeadersIncomplete
  PROVE  Types2'
<1> USE ParseFacts
<1>1. CASE PartHeaders
  <2>1. /\ processed' = FirstOf(PartEnds) + 1 /\ PartEnds # {}
        /\ state = "PART_HEADERS" /\ state' = "PART_DATA" /\ place = "parse"
        /\ files' \in {files, files \cup {"upload"}}
        /\ UNCHANGED <<clientVars, kernel, place, buffer, request, writeVars>>
    BY <1>1 DEF PartHeaders, InPart
  <2>2. PartEnds \subseteq Ahead
    BY DEF PartEnds
  <2>3. processed' \in Nat
    BY <2>1, <2>2, AheadFirst
  <2>4. ParseTypes'
    BY <2>1, <2>3 DEF Types2, ParseTypes, BodyFits, States
  <2>5. PlaceTypes'
    BY <2>1 DEF PlaceTypes, FilesInv, Types2
  <2> QED BY <2>1, <2>4, <2>5, Same DEF Types2
<1>2. CASE PartHeadersIncomplete
  <2>1. /\ Erase(processed) /\ place = "parse" /\ place' = "in"
        /\ UNCHANGED <<clientVars, kernel, processed, state, request, files, writeVars>>
    BY <1>2 DEF PartHeadersIncomplete, InPart
  <2>2. ParseTypes'
    BY <2>1, EraseType DEF Types2, ParseTypes, BodyFits
  <2>3. PlaceTypes'
    BY <2>1 DEF PlaceTypes, FilesInv, Types2
  <2> QED BY <2>1, <2>2, <2>3, Same DEF Types2
<1> QED BY <1>1, <1>2

\* What Store adds to the body.
LEMMA StoreType ==
  ASSUME Types2, NEW n \in Nat, n >= processed, Store(n)
  PROVE  /\ request' \in [kind : Kinds \cup {NoKind}, body : Nat]
         /\ request'.kind = request.kind
         /\ request'.body = request.body + n - processed
<1>1. request.body + n - processed \in Nat
  BY ParseFacts
<1>2. request' = [request EXCEPT !.body = request.body + n - processed]
  BY DEF Store
<1> QED BY <1>1, <1>2, ParseFacts

LEMMA PartDataStep ==
  ASSUME Types2, PartData \/ PartDataIncomplete
  PROVE  Types2'
<1> USE ParseFacts
<1>1. CASE PartData
  <2>1. /\ processed' = FirstOf(DataEnds) - 1 /\ DataEnds # {} /\ Store(processed')
        /\ state' = "BOUNDARY_SEARCH" /\ place = "parse" /\ files' = files \ {"upload"}
        /\ UNCHANGED <<clientVars, kernel, place, buffer, writeVars>>
    BY <1>1 DEF PartData, InPart
  <2>2. DataEnds \subseteq Ahead
    BY DEF DataEnds
  <2>3. FirstOf(DataEnds) \in Nat /\ FirstOf(DataEnds) > processed
    BY <2>1, <2>2, AheadFirst
  <2>4. processed' \in Nat /\ processed' >= processed
    BY <2>1, <2>3
  <2>5. request' \in [kind : Kinds \cup {NoKind}, body : Nat]
    BY <2>1, <2>4, StoreType
  <2>6. ParseTypes'
    BY <2>1, <2>4, <2>5 DEF Types2, ParseTypes, BodyFits, States
  <2>7. PlaceTypes'
    BY <2>1 DEF PlaceTypes, FilesInv, Types2
  <2> QED BY <2>1, <2>6, <2>7, Same DEF Types2
<1>2. CASE PartDataIncomplete
  <2>1. /\ processed' = Len(buffer) /\ Store(processed') /\ Erase(processed')
        /\ place = "parse" /\ place' = "in" /\ state = "PART_DATA" /\ Ahead # {}
        /\ UNCHANGED <<clientVars, kernel, state, files, writeVars>>
    BY <1>2 DEF PartDataIncomplete, InPart
  <2>2. Len(buffer) >= processed
    BY <2>1 DEF Ahead
  <2>3. processed' \in Nat /\ processed' >= processed
    BY <2>1, <2>2
  <2>4. request' \in [kind : Kinds \cup {NoKind}, body : Nat]
    BY <2>1, <2>3, StoreType
  <2>5. buffer' \in Seq(AllPieces)
    BY <2>1, <2>3, EraseType
  <2>6. ParseTypes'
    BY <2>1, <2>3, <2>4, <2>5 DEF Types2, ParseTypes, BodyFits, States
  <2>7. PlaceTypes'
    BY <2>1 DEF PlaceTypes, FilesInv, Types2
  <2> QED BY <2>1, <2>6, <2>7, Same DEF Types2
<1> QED BY <1>1, <1>2

LEMMA ResetTypes ==
  ASSUME Types2, Reset,
         place' \in {"in", "out", "parse", "write", "closed", "upgraded", "pooled"}
  PROVE  ParseTypes' /\ PlaceTypes'
<1>1. /\ state' = "REQUEST_LINE" /\ request' = NoRequest /\ buffer' = <<>>
      /\ processed' = 0 /\ files' = {}
  BY DEF Reset, ResetParser
<1>2. request' \in [kind : Kinds \cup {NoKind}, body : Nat] /\ request'.body = 0
  BY <1>1 DEF NoRequest
<1>3. buffer' \in Seq(AllPieces) /\ processed' \in Nat
  BY <1>1
<1>4. ParseTypes'
  BY <1>1, <1>2, <1>3 DEF ParseTypes, BodyFits, States
<1> QED BY <1>1, <1>4 DEF PlaceTypes, FilesInv

LEMMA WriteStep ==
  ASSUME Types2, HandleWrite
  PROVE  Types2'
<1>1. CASE Writable
  <2>1. place = "out" /\ place' = "write"
          /\ UNCHANGED <<files, clientVars, kernel, state, parseVars, writeVars>>
    BY <1>1 DEF Writable, parseVars
  <2>2. PlaceTypes'
    BY <2>1 DEF PlaceTypes, FilesInv, Types2
  <2> QED BY <2>1, <2>2, Same DEF Types2
<1>2. CASE WriteSome
  <2>1. toSend > 0 /\ toSend' = toSend - 1
          /\ UNCHANGED <<files, clientVars, kernel, place, state, parseVars, code, answers>>
    BY <1>2 DEF WriteSome, parseVars
  <2>2. WriteTypes'
    BY <2>1 DEF Types2, WriteTypes
  <2> QED BY <2>1, <2>2, Same DEF Types2
<1>3. CASE WriteAgain
  <2>1. /\ place = "write" /\ place' \in {"closed", "out"}
        /\ files' \in {files, files \ {"send"}}
        /\ UNCHANGED <<clientVars, kernel, state, parseVars, writeVars>>
    BY <1>3 DEF WriteAgain, parseVars
  <2>2. PlaceTypes'
    BY <2>1 DEF PlaceTypes, FilesInv, Types2
  <2> QED BY <2>1, <2>2, Same DEF Types2
<1>4. CASE WriteDone
  <2>1. /\ place = "write" /\ answers' = Append(answers, code)
        /\ UNCHANGED <<clientVars, kernel, toSend, code>>
    BY <1>4 DEF WriteDone
  <2>2. WriteTypes'
    BY <2>1 DEF Types2, WriteTypes
  <2>3. ParseTypes' /\ PlaceTypes'
    <3>1. CASE request.kind.keep
      <4>1. place' = "in" /\ Reset
        BY <1>4, <3>1 DEF WriteDone
      <4> QED BY <4>1, ResetTypes
    <3>2. CASE ~ request.kind.keep
      <4>1. /\ place' \in {"upgraded", "closed"} /\ files' = files \ {"send"}
            /\ UNCHANGED <<parseVars, state>>
        BY <1>4, <3>2 DEF WriteDone, parseVars
      <4>2. PlaceTypes'
        BY <4>1 DEF PlaceTypes, FilesInv, Types2
      <4> QED BY <4>1, <4>2, Same DEF Types2
    <3> QED BY <3>1, <3>2
  <2> QED BY <2>1, <2>2, <2>3, Same DEF Types2
<1> QED BY <1>1, <1>2, <1>3, <1>4 DEF HandleWrite

LEMMA PoolStep ==
  ASSUME Types2, Release \/ Acquire
  PROVE  Types2'
<1>1. CASE Release
  <2>1. /\ place' = "pooled" /\ Reset /\ toSend' = 0
        /\ UNCHANGED <<clientVars, kernel, code, answers>>
    BY <1>1 DEF Release
  <2>2. WriteTypes'
    BY <2>1 DEF Types2, WriteTypes
  <2> QED BY <2>1, <2>2, ResetTypes, Same DEF Types2
<1>2. CASE Acquire
  <2>1. /\ place' = "in" /\ asked' = <<>> /\ unsent' = <<>> /\ gone' = FALSE
        /\ kernel' = <<>> /\ answers' = <<>> /\ code' = 200
        /\ Reset /\ UNCHANGED toSend
    BY <1>2 DEF Acquire
  <2>2. WriteTypes'
    BY <2>1 DEF Types2, WriteTypes, Codes
  <2>3. asked' \in Seq(Kinds) /\ unsent' \in Seq(AllPieces) /\ kernel' \in Seq(AllPieces)
    BY <2>1
  <2>4. Len(asked') <= MaxRequests
    BY <2>1
  <2>5. ClientTypes'
    BY <2>1, <2>3, <2>4 DEF ClientTypes
  <2> QED BY <2>1, <2>2, <2>3, <2>5, ResetTypes DEF Types2
<1> QED BY <1>1, <1>2

LEMMA TypesStep == Types2 /\ [Next]_vars => Types2'
<1> SUFFICES ASSUME Types2, [Next]_vars PROVE Types2'
  OBVIOUS
<1>1. CASE Client \/ NetworkDelivers \/ HangUp
  BY <1>1, ClientStep DEF Client
<1>2. CASE HandleRead
  BY <1>2, LineStep, BodyStep, AnswerStep, BoundaryStep, PartHeadersStep, PartDataStep
     DEF HandleRead
<1>3. CASE HandleWrite
  BY <1>3, WriteStep
<1>4. CASE Release \/ Acquire
  BY <1>4, PoolStep
<1>5. CASE UNCHANGED vars
  <2>1. UNCHANGED <<clientVars, kernel, place, state, files, parseVars, writeVars>>
    BY <1>5 DEF vars, parseVars
  <2> QED BY <2>1, Same DEF Types2
<1> QED BY <1>1, <1>2, <1>3, <1>4, <1>5 DEF Next

\* The variables keep their types: no index of the parser, and no count of what
\* is stored or sent, ever leaves the natural numbers, whatever the client sends
\* and wherever it is cut.
THEOREM TypeCorrect == Safe => []TypeOK
<1>1. Init => Types2
  BY InitTypes, TypesParts
<1>2. Types2 => TypeOK
  BY TypesParts
<1> QED BY <1>1, <1>2, TypesStep, PTL DEF Safe

\* No file is open in a connection that waits for its next request, or in a free
\* object.
THEOREM FilesClosedHolds == Safe => []FilesClosed
<1>1. Init => Types2
  BY InitTypes, TypesParts
<1>2. Types2 => FilesClosed
  BY DEF Types2, PlaceTypes, FilesInv, FilesClosed
<1> QED BY <1>1, <1>2, TypesStep, PTL DEF Safe

-----------------------------------------------------------------------------
(* The stream of a request. *)

\* The cuts that split what the parser expects in one piece: a header from its
\* line end, a boundary from what is on either side, the last line end.
BadCuts ==
  {<<"header", "eol">>, <<"boundary", "eol">>, <<"boundary", "dashes">>,
   <<"boundary", "body">>, <<"eol", "boundary">>, <<"dashes", "eol">>}

\* The requests and the network with which the parser gets on.
Served ==
  /\ ~ Pipelining
  /\ Cuts \cap BadCuts = {}
  /\ \A k \in Kinds :
       /\ k.type # "misplaced"
       /\ k.type \in {"get", "upgrade"} => k.len = 0
       /\ k.type = "upgrade" => ~ k.keep

Last == asked[Len(asked)]

CutAt(text, e) ==
  e \in 1 .. Len(text) - 1 => <<text[e].what, text[e + 1].what>> \in Cuts

\* The buffer, what the kernel has and what is still to be sent are, one behind
\* the other, the text from position base on.
Fits(text, base) ==
  /\ base + Len(buffer) + Len(kernel) + Len(unsent) = Len(text)
  /\ \A i \in 1 .. Len(buffer) : buffer[i] = text[base + i]
  /\ \A i \in 1 .. Len(kernel) : kernel[i] = text[base + Len(buffer) + i]
  /\ \A i \in 1 .. Len(unsent) :
       unsent[i] = text[base + Len(buffer) + Len(kernel) + i]
  /\ CutAt(text, base + Len(buffer))
  /\ CutAt(text, base + Len(buffer) + Len(kernel))

\* What the parser has made of the first p pieces of a request of kind k with a
\* preamble of a pieces.
Parsed(k, a, p) ==
  \/ state = "REQUEST_LINE" /\ p = 0 /\ request = NoRequest
  \/ state = "HEADERS" /\ p = 2 /\ request = NoRequest
  \/ /\ request.kind = k
     /\ \/ /\ state = "HEADERS" /\ p = 4 /\ request.body = 0
           /\ k.bad => k.type = "multipart"
        \/ /\ state = "BOUNDARY_SEARCH" /\ p = 5 /\ request.body = 0
           /\ k.type = "multipart"
        \/ /\ ~ k.bad /\ request.body <= k.len
           /\ \/ state = "BODY" /\ p = 5 + request.body /\ k.type = "post"
              \/ state = "PART_HEADERS" /\ p = 7 + a /\ k.type = "multipart"
                   /\ request.body = 0
              \/ state = "PART_DATA" /\ p = 10 + a + request.body
                   /\ k.type = "multipart"
              \/ state = "BOUNDARY_SEARCH" /\ p = 10 + a + k.len
                   /\ k.type = "multipart" /\ request.body = k.len
              \/ state = "DONE" /\ request.body = k.len
                   /\ p = IF k.type = "multipart" THEN 14 + a + k.len ELSE 5 + k.len

\* How far a request has come that is being read or waited for.
Stream(k, preamble, base) ==
  /\ Fits(Pieces(k, preamble), base)
  /\ \/ place = "in" /\ Parsed(k, Len(preamble), base)
     \/ /\ place = "parse" /\ processed <= Len(buffer)
        /\ Parsed(k, Len(preamble), base + processed)

Asking ==
  /\ Len(asked) = Len(answers) + 1
  /\ \E preamble \in Preambles : \E base \in 0 .. Len(Pieces(Last, preamble)) :
       Stream(Last, preamble, base)

Waiting ==
  /\ Len(asked) = Len(answers) /\ place = "in"
  /\ buffer = <<>> /\ kernel = <<>> /\ unsent = <<>>
  /\ state = "REQUEST_LINE" /\ request = NoRequest

\* What is begun for a request that was read in full: what its handler answers, or
\* the error of a file that cannot be opened.
Outcomes(type) == Statuses(type) \cup (IF type = "get" THEN {404} ELSE {})

\* The answer that is being sent is the right one, and no more than what was
\* answered is thrown away with the buffer.
Answering ==
  /\ Len(asked) = Len(answers) + 1 /\ place \in {"out", "write"}
  /\ request.kind.keep => kernel = <<>> /\ unsent = <<>>
  /\ IF Last.bad
       THEN code = 400 /\ state # "DONE"
       ELSE /\ state = "DONE" /\ request.kind = Last /\ request.body = Last.len
            /\ code \in Outcomes(Last.type)

Over == place \in {"closed", "upgraded", "pooled"}

StreamInv ==
  /\ Types2 /\ RightAnswers
  /\ Waiting \/ Asking \/ Answering \/ Over

-----------------------------------------------------------------------------
(* The text of a request. *)

What(k, preamble, i) == Pieces(k, preamble)[i].what
Size(k, preamble) == Len(Pieces(k, preamble))

LEMMA Joined ==
  ASSUME NEW S, NEW s \in Seq(S), NEW t \in Seq(S)
  PROVE  /\ s \o t \in Seq(S) /\ Len(s \o t) = Len(s) + Len(t)
         /\ \A i \in 1 .. Len(s) : (s \o t)[i] = s[i]
         /\ \A i \in 1 .. Len(t) : (s \o t)[Len(s) + i] = t[i]
<1>1. Len(s) \in Nat /\ Len(t) \in Nat
  OBVIOUS
<1>2. \A i \in 1 .. Len(t) : (s \o t)[Len(s) + i] = t[i]
  OBVIOUS
<1>3. \A i \in 1 .. Len(s) : (s \o t)[i] = s[i]
  OBVIOUS
<1> QED BY <1>1, <1>2, <1>3

LEMMA TextParts ==
  ASSUME NEW k \in Kinds, NEW preamble \in Preambles
  PROVE  /\ Body(k, preamble) \in Seq(Whats)
         /\ Size(k, preamble) = 5 + Len(Body(k, preamble))
         /\ \A i \in 1 .. Size(k, preamble) : Pieces(k, preamble)[i].kind = k
         /\ \A i \in 1 .. 5 : What(k, preamble, i) =
              <<"first", "eol", "header", "eol", "empty">>[i]
         /\ \A i \in 1 .. Len(Body(k, preamble)) :
              What(k, preamble, 5 + i) = Body(k, preamble)[i]
<1> DEFINE head == <<"first", "eol", "header", "eol", "empty">>
           text == head \o Body(k, preamble)
<1>1. Body(k, preamble) \in Seq(Whats) /\ Len(Body(k, preamble)) \in Nat
  BY BodyType
<1>2. head \in Seq(Whats) /\ Len(head) = 5
  BY DEF Whats
<1>3. Pieces(k, preamble) = [i \in DOMAIN text |-> Piece(text[i], k)]
  BY DEF Pieces
<1> HIDE DEF head
<1>4. /\ text \in Seq(Whats) /\ Len(text) = 5 + Len(Body(k, preamble))
      /\ \A i \in 1 .. 5 : text[i] = head[i]
      /\ \A i \in 1 .. Len(Body(k, preamble)) : text[5 + i] = Body(k, preamble)[i]
  <2>0. head \in Seq(Whats) /\ Body(k, preamble) \in Seq(Whats)
    BY <1>1, <1>2
  <2>1. /\ text \in Seq(Whats) /\ Len(text) = Len(head) + Len(Body(k, preamble))
        /\ \A i \in 1 .. Len(head) : text[i] = head[i]
        /\ \A i \in 1 .. Len(Body(k, preamble)) :
             text[Len(head) + i] = Body(k, preamble)[i]
    BY <2>0, Joined
  <2> HIDE DEF text
  <2> QED BY <1>2, <2>1
<1> HIDE DEF text
<1>5. DOMAIN text = 1 .. Len(text) /\ Len(text) \in Nat
  BY <1>4
<1>6. /\ Size(k, preamble) = Len(text)
      /\ \A i \in 1 .. Len(text) : Pieces(k, preamble)[i] = Piece(text[i], k)
  BY <1>3, <1>5 DEF Size
<1>7. \A i \in 1 .. Len(text) :
        What(k, preamble, i) = text[i] /\ Pieces(k, preamble)[i].kind = k
  <2> TAKE i \in 1 .. Len(text)
  <2>1. Pieces(k, preamble)[i] = [what |-> text[i], kind |-> k]
    BY <1>6 DEF Piece
  <2> QED BY <2>1 DEF What
<1>8. \A i \in 1 .. 5 : i \in 1 .. Len(text)
  BY <1>1, <1>4
<1>9. \A i \in 1 .. Len(Body(k, preamble)) : 5 + i \in 1 .. Len(text)
  BY <1>1, <1>4
<1>10. \A i \in 1 .. 5 : What(k, preamble, i) = head[i]
  BY <1>4, <1>7, <1>8
<1>11. \A i \in 1 .. Len(Body(k, preamble)) :
         What(k, preamble, 5 + i) = Body(k, preamble)[i]
  BY <1>4, <1>7, <1>9
<1> QED BY <1>1, <1>4, <1>6, <1>7, <1>10, <1>11 DEF head

\* Every request begins with its first line and its headers.
LEMMA TextHead ==
  ASSUME NEW k \in Kinds, NEW preamble \in Preambles
  PROVE  /\ Size(k, preamble) \in Nat /\ Size(k, preamble) >= 5
         /\ What(k, preamble, 1) = "first" /\ What(k, preamble, 2) = "eol"
         /\ What(k, preamble, 3) = "header" /\ What(k, preamble, 4) = "eol"
         /\ What(k, preamble, 5) = "empty"
<1>1. Len(Body(k, preamble)) \in Nat
  BY BodyType
<1> QED BY <1>1, TextParts

\* A request that is not multipart has its body behind them.
LEMMA TextPlain ==
  ASSUME Served, NEW k \in Kinds, NEW preamble \in Preambles, k.type # "multipart"
  PROVE  Size(k, preamble) = 5 + k.len
<1>1. k.len \in Nat
  OBVIOUS
<1>2. CASE k.type = "post"
  <2>1. Body(k, preamble) = [i \in 1 .. k.len |-> "body"]
    BY <1>2 DEF Body
  <2> QED BY <1>1, <2>1, TextParts
<1>3. CASE k.type \in {"get", "upgrade"}
  <2>1. Body(k, preamble) = <<>> /\ k.len = 0
    BY <1>3 DEF Body, Served
  <2> QED BY <2>1, TextParts
<1> QED BY <1>2, <1>3 DEF Served, Types

\* A multipart body that is wrong has no line end behind its boundary.
LEMMA TextBad ==
  ASSUME NEW k \in Kinds, NEW preamble \in Preambles, k.type = "multipart", k.bad
  PROVE  /\ Size(k, preamble) = 7
         /\ What(k, preamble, 6) = "boundary" /\ What(k, preamble, 7) = "body"
<1>1. Body(k, preamble) = <<"boundary", "body">>
  BY DEF Body
<1>2. /\ Len(Body(k, preamble)) = 2
      /\ Body(k, preamble)[1] = "boundary" /\ Body(k, preamble)[2] = "body"
  BY <1>1
<1>3. /\ What(k, preamble, 5 + 1) = Body(k, preamble)[1]
      /\ What(k, preamble, 5 + 2) = Body(k, preamble)[2]
      /\ Size(k, preamble) = 5 + 2
  <2>1. 1 \in 1 .. Len(Body(k, preamble)) /\ 2 \in 1 .. Len(Body(k, preamble))
    BY <1>2
  <2>2. /\ Size(k, preamble) = 5 + Len(Body(k, preamble))
        /\ \A i \in 1 .. Len(Body(k, preamble)) :
             What(k, preamble, 5 + i) = Body(k, preamble)[i]
    BY TextParts
  <2>3. What(k, preamble, 5 + 1) = Body(k, preamble)[1]
    BY <2>1, <2>2
  <2>4. What(k, preamble, 5 + 2) = Body(k, preamble)[2]
    BY <2>1, <2>2
  <2> QED BY <1>2, <2>2, <2>3, <2>4
<1> QED BY <1>2, <1>3

\* One that is right has its preamble of a pieces, its boundary, the headers and
\* the n pieces of its part, and the boundary that ends it.
GoodText(k, preamble, a, n) ==
  /\ Size(k, preamble) = 14 + a + n
  /\ a = 2 => What(k, preamble, 6) = "preamble" /\ What(k, preamble, 7) = "eol"
  /\ What(k, preamble, 6 + a) = "boundary" /\ What(k, preamble, 7 + a) = "eol"
  /\ What(k, preamble, 8 + a) = "part" /\ What(k, preamble, 9 + a) = "eol"
  /\ What(k, preamble, 10 + a) = "empty"
  /\ \A i \in 1 .. n : What(k, preamble, 10 + a + i) = "body"
  /\ What(k, preamble, 11 + a + n) = "eol"
  /\ What(k, preamble, 12 + a + n) = "boundary"
  /\ What(k, preamble, 13 + a + n) = "dashes"
  /\ What(k, preamble, 14 + a + n) = "eol"

LEMMA PreambleLen ==
  ASSUME NEW preamble \in Preambles
  PROVE  preamble \in Seq(Whats) /\ Len(preamble) \in {0, 2}
<1>1. <<>> \in Seq(Whats) /\ Len(<<>>) = 0
  OBVIOUS
<1>2. <<"preamble", "eol">> \in Seq(Whats) /\ Len(<<"preamble", "eol">>) = 2
  BY DEF Whats
<1> QED BY <1>1, <1>2 DEF Preambles

LEMMA TextGood ==
  ASSUME NEW k \in Kinds, NEW preamble \in Preambles, k.type = "multipart", ~ k.bad
  PROVE  GoodText(k, preamble, Len(preamble), k.len)
<1> DEFINE a == Len(preamble)
<1> DEFINE begin == <<"boundary", "eol", "part", "eol", "empty">>
           data == [i \in 1 .. k.len |-> "body"]
           end == <<"eol", "boundary", "dashes", "eol">>
           b == Body(k, preamble)
<1>1. k.len \in Nat
  OBVIOUS
<1>2. a \in {0, 2} /\ preamble \in Seq(Whats)
  BY PreambleLen
<1>3. b = preamble \o begin \o data \o end
  BY DEF Body
<1>0. Len(preamble) = a
  OBVIOUS
<1>4. /\ begin \in Seq(Whats) /\ Len(begin) = 5
      /\ data \in Seq(Whats) /\ Len(data) = k.len
      /\ end \in Seq(Whats) /\ Len(end) = 4
  BY <1>1 DEF Whats
<1>5. \A i \in 1 .. k.len : data[i] = "body"
  OBVIOUS
<1>6. a = 2 => preamble[1] = "preamble" /\ preamble[2] = "eol"
  <2>1. CASE preamble = <<>>
    <3>1. Len(preamble) = 0
      BY <2>1
    <3> QED BY <3>1
  <2>2. CASE preamble = <<"preamble", "eol">>
    BY <2>2
  <2> QED BY <2>1, <2>2 DEF Preambles
<1>7. /\ begin[1] = "boundary" /\ begin[2] = "eol" /\ begin[3] = "part"
      /\ begin[4] = "eol" /\ begin[5] = "empty"
      /\ end[1] = "eol" /\ end[2] = "boundary" /\ end[3] = "dashes" /\ end[4] = "eol"
  OBVIOUS
<1> HIDE DEF begin, data, end, b, a
<1>8. /\ Len(b) = 9 + a + k.len
      /\ \A i \in 1 .. a : b[i] = preamble[i]
      /\ \A i \in 1 .. 5 : b[a + i] = begin[i]
      /\ \A i \in 1 .. k.len : b[5 + a + i] = data[i]
      /\ \A i \in 1 .. 4 : b[5 + a + k.len + i] = end[i]
  <2> DEFINE q == preamble \o begin
             r == q \o data
  <2>1. /\ q \in Seq(Whats) /\ Len(q) = a + 5
        /\ \A i \in 1 .. a : q[i] = preamble[i]
        /\ \A i \in 1 .. 5 : q[a + i] = begin[i]
    <3>1. /\ q \in Seq(Whats) /\ Len(q) = Len(preamble) + Len(begin)
          /\ \A i \in 1 .. Len(preamble) : q[i] = preamble[i]
          /\ \A i \in 1 .. Len(begin) : q[Len(preamble) + i] = begin[i]
      <4>1. preamble \in Seq(Whats) /\ begin \in Seq(Whats)
        BY <1>2, <1>4
      <4> QED BY <4>1, Joined
    <3> HIDE DEF q
    <3> QED BY <1>0, <1>4, <3>1
  <2> HIDE DEF q
  <2>2. /\ r \in Seq(Whats) /\ Len(r) = a + 5 + k.len
        /\ \A i \in 1 .. Len(q) : r[i] = q[i]
        /\ \A i \in 1 .. k.len : r[Len(q) + i] = data[i]
    <3>1. /\ r \in Seq(Whats) /\ Len(r) = Len(q) + Len(data)
          /\ \A i \in 1 .. Len(q) : r[i] = q[i]
          /\ \A i \in 1 .. Len(data) : r[Len(q) + i] = data[i]
      <4>1. q \in Seq(Whats) /\ data \in Seq(Whats)
        BY <1>4, <2>1
      <4> QED BY <4>1, Joined
    <3> HIDE DEF r
    <3> QED BY <1>4, <2>1, <3>1
  <2> HIDE DEF r
  <2>3. /\ Len(b) = Len(r) + 4
        /\ \A i \in 1 .. Len(r) : b[i] = r[i]
        /\ \A i \in 1 .. 4 : b[Len(r) + i] = end[i]
    <3>1. b = r \o end
      BY <1>3 DEF q, r
    <3>2. r \in Seq(Whats) /\ end \in Seq(Whats) /\ Len(end) = 4
      BY <1>4, <2>2
    <3>3. /\ Len(b) = Len(r) + Len(end)
          /\ \A i \in 1 .. Len(r) : b[i] = r[i]
          /\ \A i \in 1 .. Len(end) : b[Len(r) + i] = end[i]
      <4>1. /\ Len(r \o end) = Len(r) + Len(end)
            /\ \A i \in 1 .. Len(r) : (r \o end)[i] = r[i]
            /\ \A i \in 1 .. Len(end) : (r \o end)[Len(r) + i] = end[i]
        <5>1. r \in Seq(Whats) /\ end \in Seq(Whats)
          BY <3>2
        <5> QED BY <5>1, Joined
      <4> QED BY <3>1, <4>1
    <3> QED BY <3>2, <3>3
  <2>4. \A i \in 1 .. a : i \in 1 .. Len(q) /\ i \in 1 .. Len(r)
    BY SMTT(40), <1>1, <1>2, <2>1, <2>2
  <2>5. \A i \in 1 .. 5 : a + i \in 1 .. Len(q) /\ a + i \in 1 .. Len(r)
    BY SMTT(40), <1>1, <1>2, <2>1, <2>2
  <2>6. \A i \in 1 .. k.len : Len(q) + i \in 1 .. Len(r) /\ Len(q) + i = 5 + a + i
    BY <1>1, <1>2, <2>1, <2>2
  <2>7. Len(r) = 5 + a + k.len /\ Len(b) = 9 + a + k.len
    <3> DEFINE n == k.len
    <3>1. n \in Nat /\ Len(r) = a + 5 + n /\ Len(b) = Len(r) + 4
      BY <1>1, <2>2, <2>3
    <3> HIDE DEF n
    <3>2. Len(r) = 5 + a + n /\ Len(b) = 9 + a + n
      BY <1>2, <3>1
    <3> QED BY <3>2 DEF n
  <2>8. \A i \in 1 .. k.len : b[5 + a + i] = data[i]
    BY <2>2, <2>3, <2>6
  <2> QED BY <2>1, <2>2, <2>3, <2>4, <2>5, <2>7, <2>8
<1>9. /\ Size(k, preamble) = 5 + Len(b)
      /\ \A i \in 1 .. Len(b) : What(k, preamble, 5 + i) = b[i]
  BY TextParts DEF b
<1>10. \A j \in 1 .. Len(b), i \in Nat : i = 5 + j => What(k, preamble, i) = b[j]
  BY <1>9
<1>11. a = 2 => What(k, preamble, 6) = "preamble" /\ What(k, preamble, 7) = "eol"
  <2>1. a = 2 => 1 \in 1 .. Len(b) /\ 2 \in 1 .. Len(b)
    BY SMTT(40), <1>1, <1>8
  <2>2. a = 2 => b[1] = preamble[1] /\ b[2] = preamble[2]
    BY <1>8
  <2>3. a = 2 => What(k, preamble, 6) = b[1] /\ What(k, preamble, 7) = b[2]
    BY <1>10, <2>1
  <2> QED BY <1>6, <2>2, <2>3
<1>12. \A i \in 1 .. 5 : What(k, preamble, 5 + a + i) = begin[i]
  <2> TAKE i \in 1 .. 5
  <2>1. a + i \in 1 .. Len(b) /\ 5 + a + i \in Nat /\ 5 + a + i = 5 + (a + i)
    <3>1. \A m \in {0, 2}, n \in Nat :
            /\ m + i \in 1 .. 9 + m + n /\ 5 + m + i \in Nat /\ 5 + m + i = 5 + (m + i)
      OBVIOUS
    <3>2. a \in {0, 2} /\ k.len \in Nat /\ Len(b) = 9 + a + k.len
      BY <1>1, <1>2, <1>8
    <3> QED BY <3>1, <3>2
  <2> QED BY <1>8, <1>10, <2>1
<1>13. \A i \in 1 .. k.len : What(k, preamble, 10 + a + i) = "body"
  <2> TAKE i \in 1 .. k.len
  <2>1. /\ 5 + a + i \in 1 .. Len(b) /\ 10 + a + i \in Nat
        /\ 10 + a + i = 5 + (5 + a + i)
    <3>1. a \in Nat /\ k.len \in Nat /\ Len(b) = 9 + a + k.len /\ i \in Nat
      BY <1>1, <1>2, <1>8
    <3> QED BY <3>1
  <2> QED BY SMTT(40), <1>5, <1>8, <1>10, <2>1
<1>14. \A i \in 1 .. 4 : What(k, preamble, 10 + a + k.len + i) = end[i]
  <2> TAKE i \in 1 .. 4
  <2>1. /\ 5 + a + k.len + i \in 1 .. Len(b) /\ 10 + a + k.len + i \in Nat
        /\ 10 + a + k.len + i = 5 + (5 + a + k.len + i)
    <3>1. \A m \in Nat, n \in Nat, j \in 1 .. 4 :
            /\ 5 + m + n + j \in 1 .. 9 + m + n /\ 10 + m + n + j \in Nat
            /\ 10 + m + n + j = 5 + (5 + m + n + j)
      OBVIOUS
    <3>2. a \in Nat /\ k.len \in Nat /\ Len(b) = 9 + a + k.len
      BY <1>1, <1>2, <1>8
    <3> QED BY <3>1, <3>2
  <2> QED BY <1>8, <1>10, <2>1
<1>15. /\ What(k, preamble, 5 + a + 1) = "boundary" /\ What(k, preamble, 5 + a + 2) = "eol"
       /\ What(k, preamble, 5 + a + 3) = "part" /\ What(k, preamble, 5 + a + 4) = "eol"
       /\ What(k, preamble, 5 + a + 5) = "empty"
  BY <1>7, <1>12
<1>16. /\ What(k, preamble, 10 + a + k.len + 1) = "eol"
       /\ What(k, preamble, 10 + a + k.len + 2) = "boundary"
       /\ What(k, preamble, 10 + a + k.len + 3) = "dashes"
       /\ What(k, preamble, 10 + a + k.len + 4) = "eol"
  BY <1>7, <1>14
<1>17. Size(k, preamble) = 14 + a + k.len
  <2> DEFINE n == k.len
  <2>1. n \in Nat /\ Len(b) = 9 + a + n
    BY <1>1, <1>8
  <2> HIDE DEF n
  <2>2. Size(k, preamble) = 14 + a + n
    BY <1>2, <1>9, <2>1
  <2> QED BY <2>2 DEF n
<1>18. /\ 5 + a + 1 = 6 + a /\ 5 + a + 2 = 7 + a /\ 5 + a + 3 = 8 + a
       /\ 5 + a + 4 = 9 + a /\ 5 + a + 5 = 10 + a
       /\ 10 + a + k.len + 1 = 11 + a + k.len /\ 10 + a + k.len + 2 = 12 + a + k.len
       /\ 10 + a + k.len + 3 = 13 + a + k.len /\ 10 + a + k.len + 4 = 14 + a + k.len
  BY <1>1, <1>2
<1>19. /\ What(k, preamble, 6 + a) = "boundary" /\ What(k, preamble, 7 + a) = "eol"
       /\ What(k, preamble, 8 + a) = "part" /\ What(k, preamble, 9 + a) = "eol"
       /\ What(k, preamble, 10 + a) = "empty"
  BY <1>15, <1>18
<1>20. /\ What(k, preamble, 11 + a + k.len) = "eol"
       /\ What(k, preamble, 12 + a + k.len) = "boundary"
       /\ What(k, preamble, 13 + a + k.len) = "dashes"
       /\ What(k, preamble, 14 + a + k.len) = "eol"
  BY <1>16, <1>18
<1> DEFINE n == k.len
<1>21. GoodText(k, preamble, a, n)
  <2>1. /\ Size(k, preamble) = 14 + a + n
        /\ \A i \in 1 .. n : What(k, preamble, 10 + a + i) = "body"
        /\ What(k, preamble, 11 + a + n) = "eol"
        /\ What(k, preamble, 12 + a + n) = "boundary"
        /\ What(k, preamble, 13 + a + n) = "dashes"
        /\ What(k, preamble, 14 + a + n) = "eol"
    BY <1>13, <1>17, <1>20
  <2> HIDE DEF n
  <2> QED BY <1>11, <1>19, <2>1 DEF GoodText
<1> QED BY <1>21 DEF a, n

-----------------------------------------------------------------------------
(* What the parser has before it. *)

LEMMA Sees ==
  ASSUME Served, Types2, NEW k \in Kinds, NEW preamble \in Preambles,
         NEW base \in 0 .. Size(k, preamble), Stream(k, preamble, base),
         place = "parse", NEW p, p = base + processed
  PROVE  /\ p \in Nat /\ base \in Nat /\ processed \in Nat /\ Len(buffer) \in Nat
         /\ Size(k, preamble) \in Nat
         /\ processed <= Len(buffer)
         /\ p + (Len(buffer) - processed) <= Size(k, preamble)
         /\ Parsed(k, Len(preamble), p)
         /\ \A j \in Nat \ {0} : processed + j <= Len(buffer) =>
              /\ buffer[processed + j].what = What(k, preamble, p + j)
              /\ buffer[processed + j].kind = k
         /\ p + (Len(buffer) - processed) = Size(k, preamble) =>
              kernel = <<>> /\ unsent = <<>>
         /\ \A j \in Nat \ {0} :
              /\ p + j < Size(k, preamble)
              /\ <<What(k, preamble, p + j), What(k, preamble, p + j + 1)>> \in BadCuts
              /\ processed + j <= Len(buffer)
              => processed + j + 1 <= Len(buffer)
<1> DEFINE text == Pieces(k, preamble)
<1>1. /\ processed \in Nat /\ Len(buffer) \in Nat /\ Len(kernel) \in Nat
      /\ Len(unsent) \in Nat /\ kernel \in Seq(AllPieces) /\ unsent \in Seq(AllPieces)
  BY DEF Types2, ClientTypes, ParseTypes
<1>2. Size(k, preamble) \in Nat /\ base \in Nat /\ p \in Nat
  <2>1. Size(k, preamble) \in Nat
    BY TextHead
  <2> QED BY <1>1, <2>1
<1>3. processed <= Len(buffer) /\ Parsed(k, Len(preamble), p)
  BY DEF Stream
<1>4. /\ base + Len(buffer) + Len(kernel) + Len(unsent) = Size(k, preamble)
      /\ \A i \in 1 .. Len(buffer) : buffer[i] = text[base + i]
      /\ CutAt(text, base + Len(buffer))
  BY DEF Stream, Fits, Size
<1>5. p + (Len(buffer) - processed) = base + Len(buffer)
  BY <1>1, <1>2
<1>6. base + Len(buffer) <= Size(k, preamble)
  BY <1>1, <1>2, <1>4
<1>7. base + Len(buffer) = Size(k, preamble) => kernel = <<>> /\ unsent = <<>>
  <2>1. base + Len(buffer) = Size(k, preamble) => Len(kernel) = 0 /\ Len(unsent) = 0
    BY <1>1, <1>2, <1>4
  <2> QED BY <1>1, <2>1, EmptySeq
<1>8. ASSUME NEW j \in Nat \ {0}, processed + j <= Len(buffer)
      PROVE  /\ buffer[processed + j].what = What(k, preamble, p + j)
             /\ buffer[processed + j].kind = k
  <2>1. /\ processed + j \in 1 .. Len(buffer) /\ base + (processed + j) = p + j
        /\ p + j \in 1 .. Size(k, preamble)
    BY <1>1, <1>2, <1>6, <1>8
  <2>2. buffer[processed + j] = text[p + j]
    BY <1>4, <2>1
  <2>3. text[p + j].kind = k
    BY <2>1, TextParts
  <2> QED BY <2>2, <2>3 DEF What
<1>9. ASSUME NEW j \in Nat \ {0}, p + j < Size(k, preamble),
             <<What(k, preamble, p + j), What(k, preamble, p + j + 1)>> \in BadCuts,
             processed + j <= Len(buffer)
      PROVE  processed + j + 1 <= Len(buffer)
  <2> SUFFICES ASSUME processed + j = Len(buffer) PROVE FALSE
    BY <1>1, <1>9
  <2>1. base + Len(buffer) = p + j /\ p + j \in 1 .. Size(k, preamble) - 1
    <3>1. base + (processed + j) = p + j
      BY <1>1, <1>2
    <3>2. p + j \in Nat /\ p + j >= 1
      BY <1>2
    <3>3. p + j < Size(k, preamble)
      BY <1>9
    <3> HIDE DEF What
    <3> QED BY <1>2, <3>1, <3>2, <3>3
  <2>2. CutAt(text, p + j) /\ Len(text) = Size(k, preamble)
    BY <1>4, <2>1 DEF Size
  <2>3. <<What(k, preamble, p + j), What(k, preamble, p + j + 1)>> \in Cuts
    BY <2>1, <2>2 DEF CutAt, What
  <2> QED BY <1>9, <2>3 DEF Served
<1> QED BY <1>1, <1>2, <1>3, <1>5, <1>6, <1>7, <1>8, <1>9

\* Where the next line ends are.
LEMMA SeesEnds ==
  ASSUME Served, Types2, NEW k \in Kinds, NEW preamble \in Preambles,
         NEW base \in 0 .. Size(k, preamble), Stream(k, preamble, base),
         place = "parse", NEW p, p = base + processed, NEW j \in Nat \ {0}
  PROVE  /\ \A whats : Is(processed + j, whats) <=>
              processed + j <= Len(buffer) /\ What(k, preamble, p + j) \in whats
         /\ IsEnd(processed + j) <=>
              /\ processed + j <= Len(buffer)
              /\ What(k, preamble, p + j) \in {"eol", "empty"}
<1>1. processed \in Nat /\ Len(buffer) \in Nat
  BY Sees
<1>2. processed + j <= Len(buffer) =>
        buffer[processed + j].what = What(k, preamble, p + j)
  BY Sees
<1>3. processed + j \in 1 .. Len(buffer) <=> processed + j <= Len(buffer)
  BY <1>1
<1> QED BY <1>2, <1>3 DEF Is, IsEnd

LEMMA FirstAt ==
  ASSUME Types2, NEW S, S \subseteq Ahead, NEW m \in S, \A i \in S : m <= i
  PROVE  FirstOf(S) = m
<1>1. FirstOf(S) \in S /\ FirstOf(S) \in Nat /\ FirstOf(S) <= m
  BY AheadFirst
<1>2. m \in Nat
  BY ParseFacts DEF Ahead
<1> QED BY <1>1, <1>2

\* The positions ahead are those that are some pieces further than processed.
LEMMA AheadIs ==
  ASSUME Types2, NEW i \in Ahead
  PROVE  i - processed \in Nat \ {0} /\ processed + (i - processed) = i
         /\ i <= Len(buffer)
  BY ParseFacts DEF Ahead

LEMMA FirstAhead ==
  ASSUME Types2, NEW S, S \subseteq Ahead, S # {}, NEW m \in Nat \ {0},
         \A j \in 1 .. m - 1 : processed + j \notin S,
         processed + m <= Len(buffer) => processed + m \in S
  PROVE  FirstOf(S) = processed + m /\ processed + m <= Len(buffer)
<1>1. processed \in Nat /\ Len(buffer) \in Nat
  BY ParseFacts
<1>2. \A i \in S : processed + m <= i
  <2> TAKE i \in S
  <2> DEFINE j == i - processed
  <2>1. j \in Nat \ {0} /\ processed + j = i
    BY AheadIs
  <2>2. ~ j \in 1 .. m - 1
    BY <2>1
  <2> QED BY <1>1, <2>1, <2>2
<1>3. FirstOf(S) \in S /\ FirstOf(S) <= Len(buffer) /\ FirstOf(S) \in Nat
  BY AheadFirst
<1>4. processed + m <= Len(buffer)
  BY <1>1, <1>2, <1>3
<1> QED BY <1>2, <1>4, FirstAt

\* The first line end is the first piece ahead that is one.
LEMMA LineEndAt ==
  ASSUME Served, Types2, NEW k \in Kinds, NEW preamble \in Preambles,
         NEW base \in 0 .. Size(k, preamble), Stream(k, preamble, base),
         place = "parse", NEW p, p = base + processed, NEW m \in Nat \ {0},
         \A j \in 1 .. m - 1 : What(k, preamble, p + j) \notin {"eol", "empty"},
         What(k, preamble, p + m) \in {"eol", "empty"}
  PROVE  /\ LineEnds # {} <=> processed + m <= Len(buffer)
         /\ LineEnds # {} => FirstOf(LineEnds) = processed + m
<1>1. LineEnds \subseteq Ahead /\ \A i \in LineEnds : IsEnd(i)
  BY DEF LineEnds
<1>2. \A j \in 1 .. m - 1 : processed + j \notin LineEnds
  <2> TAKE j \in 1 .. m - 1
  <2>1. j \in Nat \ {0}
    OBVIOUS
  <2>2. ~ IsEnd(processed + j)
    BY <2>1, SeesEnds
  <2> QED BY <1>1, <2>2
<1>3. processed + m <= Len(buffer) => processed + m \in LineEnds
  <2>1. processed + m <= Len(buffer) => IsEnd(processed + m)
    BY SeesEnds
  <2>2. processed + m <= Len(buffer) => processed + m \in Ahead
    BY ParseFacts DEF Ahead
  <2> QED BY <2>1, <2>2 DEF LineEnds
<1> QED BY <1>1, <1>2, <1>3, FirstAhead

\* A step of the parser within the buffer.
LEMMA StreamGoes ==
  ASSUME NEW k \in Kinds, NEW preamble \in Preambles,
         NEW base \in 0 .. Size(k, preamble), Stream(k, preamble, base),
         place = "parse", UNCHANGED <<place, buffer, kernel, unsent>>,
         processed' <= Len(buffer), Parsed(k, Len(preamble), base + processed)'
  PROVE  Stream(k, preamble, base)'
<1>1. Fits(Pieces(k, preamble), base)
  BY DEF Stream
<1>2. Fits(Pieces(k, preamble), base)'
  BY <1>1 DEF Fits
<1> QED BY <1>2 DEF Stream

-----------------------------------------------------------------------------
(* The lines. *)

LEMMA RequestLineStream ==
  ASSUME Served, Types2, NEW k \in Kinds, NEW preamble \in Preambles,
         NEW base \in 0 .. Size(k, preamble), Stream(k, preamble, base),
         RequestLine
  PROVE  Stream(k, preamble, base)'
<1> DEFINE p == base + processed
<1>1. /\ place = "parse" /\ state = "REQUEST_LINE" /\ LineEnds # {}
      /\ processed' = FirstOf(LineEnds) /\ state' = "HEADERS"
      /\ UNCHANGED <<place, buffer, kernel, unsent, request>>
  BY DEF RequestLine, InLines, clientVars
<1>2. p = 0 /\ request = NoRequest
  BY <1>1, Sees DEF Parsed
<1>3. /\ base \in Nat /\ processed \in Nat /\ Len(buffer) \in Nat
      /\ Size(k, preamble) \in Nat
  BY <1>1, Sees
<1>4. processed' = processed + 2 /\ processed' <= Len(buffer)
  <2>1. /\ \A j \in 1 .. 2 - 1 : What(k, preamble, p + j) \notin {"eol", "empty"}
        /\ What(k, preamble, p + 2) \in {"eol", "empty"}
    BY <1>2, TextHead
  <2> HIDE DEF p
  <2> QED BY <1>1, <2>1, LineEndAt DEF p
<1>5. base + processed' = 2
  BY <1>2, <1>3, <1>4
<1>6. Parsed(k, Len(preamble), base + processed)'
  BY <1>1, <1>2, <1>5 DEF Parsed, NoRequest
<1> QED BY <1>1, <1>4, <1>6, StreamGoes

\* While headers are parsed, the header line or the empty line comes next.
LEMMA HeadersNext ==
  ASSUME Served, Types2, NEW k \in Kinds, NEW preamble \in Preambles,
         NEW base \in 0 .. Size(k, preamble), Stream(k, preamble, base),
         place = "parse", state = "HEADERS", NEW p, p = base + processed
  PROVE  \/ /\ p = 2 /\ request = NoRequest
            /\ LineEnds # {} <=> processed + 2 <= Len(buffer)
            /\ LineEnds # {} => FirstOf(LineEnds) = processed + 2
         \/ /\ p = 4 /\ request.kind = k /\ request.body = 0
            /\ k.bad => k.type = "multipart"
            /\ LineEnds # {} <=> processed + 1 <= Len(buffer)
            /\ LineEnds # {} => FirstOf(LineEnds) = processed + 1
<1>1. \/ p = 2 /\ request = NoRequest
      \/ /\ p = 4 /\ request.kind = k /\ request.body = 0
         /\ k.bad => k.type = "multipart"
  BY Sees DEF Parsed
<1>2. CASE p = 2 /\ request = NoRequest
  <2>1. /\ \A j \in 1 .. 2 - 1 : What(k, preamble, p + j) \notin {"eol", "empty"}
        /\ What(k, preamble, p + 2) \in {"eol", "empty"}
    BY <1>2, TextHead
  <2> QED BY <1>2, <2>1, LineEndAt
<1>3. CASE p = 4 /\ request.kind = k /\ request.body = 0
             /\ (k.bad => k.type = "multipart")
  <2>1. /\ \A j \in 1 .. 1 - 1 : What(k, preamble, p + j) \notin {"eol", "empty"}
        /\ What(k, preamble, p + 1) \in {"eol", "empty"}
    BY <1>3, TextHead
  <2> QED BY <1>3, <2>1, LineEndAt
<1> QED BY <1>1, <1>2, <1>3

LEMMA HeaderLineStream ==
  ASSUME Served, Types2, NEW k \in Kinds, NEW preamble \in Preambles,
         NEW base \in 0 .. Size(k, preamble), Stream(k, preamble, base),
         HeaderLine
  PROVE  Stream(k, preamble, base)'
<1> DEFINE p == base + processed
<1>1. /\ place = "parse" /\ state = "HEADERS" /\ LineEnds # {}
      /\ FirstOf(LineEnds) > processed + 1 /\ IsHeader(processed + 1)
      /\ processed' = FirstOf(LineEnds)
      /\ request' = [request EXCEPT !.kind = buffer[processed + 1].kind]
      /\ UNCHANGED <<place, buffer, kernel, unsent, state>>
  BY DEF HeaderLine, InLines, clientVars
<1>2. /\ base \in Nat /\ processed \in Nat /\ Len(buffer) \in Nat
      /\ Size(k, preamble) \in Nat
  BY <1>1, Sees
<1>3. /\ p = 2 /\ request = NoRequest
      /\ processed' = processed + 2 /\ processed' <= Len(buffer)
  BY <1>1, <1>2, HeadersNext
<1>4. buffer[processed + 1].kind = k
  <2>1. processed + 1 <= Len(buffer)
    BY <1>2, <1>3
  <2> QED BY SMTT(40), <1>1, <2>1, Sees
<1>5. request'.kind = k /\ request'.body = 0
  BY <1>1, <1>3, <1>4 DEF NoRequest
<1>6. k.bad => k.type = "multipart"
  BY <1>1, <1>4 DEF IsHeader
<1>7. base + processed' = 4
  BY <1>2, <1>3
<1>8. Parsed(k, Len(preamble), base + processed)'
  BY <1>1, <1>5, <1>6, <1>7 DEF Parsed
<1> QED BY <1>1, <1>3, <1>8, StreamGoes

LEMMA EmptyLineStream ==
  ASSUME Served, Types2, NEW k \in Kinds, NEW preamble \in Preambles,
         NEW base \in 0 .. Size(k, preamble), Stream(k, preamble, base),
         EmptyLine
  PROVE  Stream(k, preamble, base)'
<1> DEFINE p == base + processed
<1>1. /\ place = "parse" /\ state = "HEADERS" /\ LineEnds # {}
      /\ FirstOf(LineEnds) = processed + 1 /\ processed' = processed + 1
      /\ state' = CASE request.kind.type = "multipart" -> "BOUNDARY_SEARCH"
                    [] request.kind.type = "post" -> "BODY"
                    [] OTHER -> "DONE"
      /\ UNCHANGED <<place, buffer, kernel, unsent, request>>
  BY DEF EmptyLine, InLines, clientVars
<1>2. /\ base \in Nat /\ processed \in Nat /\ Len(buffer) \in Nat
      /\ Size(k, preamble) \in Nat
  BY <1>1, Sees
<1>3. /\ p = 4 /\ request.kind = k /\ request.body = 0
      /\ k.bad => k.type = "multipart"
      /\ processed' <= Len(buffer)
  BY <1>1, <1>2, HeadersNext
<1>4. base + processed' = 5
  BY <1>1, <1>2, <1>3
<1>5. k.len \in Nat /\ k.type \in Types
  OBVIOUS
<1>6. Parsed(k, Len(preamble), base + processed)'
  <2>1. request'.kind = k /\ request'.body = 0
    BY <1>1, <1>3
  <2>2. CASE k.type = "multipart"
    BY <1>1, <1>3, <1>4, <2>1, <2>2 DEF Parsed
  <2>3. CASE k.type = "post"
    BY <1>1, <1>3, <1>4, <1>5, <2>1, <2>3 DEF Parsed
  <2>4. CASE k.type \in {"get", "upgrade"}
    <3>1. k.len = 0 /\ ~ k.bad /\ state' = "DONE"
      BY <1>1, <1>3, <2>4 DEF Served
    <3> QED BY <1>4, <2>1, <2>4, <3>1 DEF Parsed
  <2> QED BY <1>5, <2>2, <2>3, <2>4 DEF Served, Types
<1> QED BY <1>1, <1>3, <1>6, StreamGoes

\* A header line that is refused is one without a colon.
LEMMA ParseErrorRight ==
  ASSUME Served, Types2, NEW k \in Kinds, NEW preamble \in Preambles,
         NEW base \in 0 .. Size(k, preamble), Stream(k, preamble, base),
         ParseError
  PROVE  k.bad /\ state # "DONE" /\ ~ request.kind.keep
<1> DEFINE p == base + processed
<1>1. /\ place = "parse" /\ LineEnds # {}
      /\ \/ state = "REQUEST_LINE" /\ ~IsFirst(processed + 1)
         \/ /\ state = "HEADERS" /\ ~IsHeader(processed + 1)
            /\ FirstOf(LineEnds) > processed + 1
  BY DEF ParseError, InLines
<1>2. /\ base \in Nat /\ processed \in Nat /\ Len(buffer) \in Nat
      /\ Size(k, preamble) \in Nat
  BY <1>1, Sees
<1>3. processed + 1 <= Len(buffer)
  <2>1. LineEnds \subseteq Ahead
    BY DEF LineEnds
  <2>2. FirstOf(LineEnds) > processed /\ FirstOf(LineEnds) <= Len(buffer)
          /\ FirstOf(LineEnds) \in Nat
    BY <1>1, <2>1, AheadFirst
  <2> QED BY <1>2, <2>2
<1>4. state # "REQUEST_LINE"
  <2> SUFFICES ASSUME state = "REQUEST_LINE" PROVE FALSE
    OBVIOUS
  <2>1. p = 0
    BY <1>1, Sees DEF Parsed
  <2>2. Is(processed + 1, {"first"})
    <3>1. What(k, preamble, p + 1) = "first"
      BY <2>1, TextHead
    <3> QED BY <1>1, <1>3, <3>1, SeesEnds
  <2> QED BY <1>1, <2>2 DEF IsFirst
<1>5. p = 2 /\ request = NoRequest
  BY <1>1, <1>2, <1>4, HeadersNext
<1>6. Is(processed + 1, {"header"})
  <2>1. What(k, preamble, p + 1) = "header"
    BY <1>5, TextHead
  <2> QED BY <1>1, <1>3, <2>1, SeesEnds
<1>7. buffer[processed + 1].kind = k
  BY <1>1, <1>3, Sees
<1>8. k.bad
  BY <1>1, <1>4, <1>6, <1>7 DEF IsHeader
<1> QED BY <1>1, <1>4, <1>5, <1>8 DEF NoRequest, NoKind

\* The handler waits for the end of the first line only: with that of a header it
\* would start again at the first line.
LEMMA LineIncompleteStream ==
  ASSUME Served, Types2, NEW k \in Kinds, NEW preamble \in Preambles,
         NEW base \in 0 .. Size(k, preamble), Stream(k, preamble, base),
         LineIncomplete
  PROVE  Stream(k, preamble, base)'
<1> DEFINE p == base + processed
<1>1. /\ place = "parse" /\ place' = "in" /\ state \in {"REQUEST_LINE", "HEADERS"}
      /\ processed < Len(buffer) /\ LineEnds = {}
      /\ UNCHANGED <<buffer, kernel, unsent, state, request>>
  BY DEF LineIncomplete, InLines, clientVars, parseVars
<1>2. /\ base \in Nat /\ processed \in Nat /\ Len(buffer) \in Nat
      /\ Size(k, preamble) \in Nat
  BY <1>1, Sees
<1>3. state # "HEADERS"
  <2> SUFFICES ASSUME state = "HEADERS" PROVE FALSE
    OBVIOUS
  <2>1. processed + 1 <= Len(buffer)
    BY <1>1, <1>2
  <2>2. p = 2 /\ ~ processed + 2 <= Len(buffer)
    BY <1>1, <2>1, HeadersNext
  <2>3. p + 1 < Size(k, preamble)
    BY <1>2, <2>2, TextHead
  <2>4. <<What(k, preamble, p + 1), What(k, preamble, p + 1 + 1)>> \in BadCuts
    BY <2>2, TextHead DEF BadCuts
  <2>5. processed + 1 + 1 <= Len(buffer)
    BY <1>1, <2>1, <2>3, <2>4, Sees
  <2> QED BY <1>2, <2>2, <2>5
<1>4. p = 0 /\ request = NoRequest
  BY <1>1, <1>3, Sees DEF Parsed
<1>5. base = 0
  BY <1>2, <1>4
<1>6. Parsed(k, Len(preamble), base)'
  BY <1>1, <1>3, <1>4, <1>5 DEF Parsed
<1>7. Fits(Pieces(k, preamble), base)'
  <2>1. Fits(Pieces(k, preamble), base)
    BY DEF Stream
  <2> QED BY <1>1, <2>1 DEF Fits
<1> QED BY <1>1, <1>6, <1>7 DEF Stream

-----------------------------------------------------------------------------
(* Bodies, and what stays in the buffer. *)

LEMMA BodyBytesStream ==
  ASSUME Served, Types2, NEW k \in Kinds, NEW preamble \in Preambles,
         NEW base \in 0 .. Size(k, preamble), Stream(k, preamble, base),
         BodyBytes
  PROVE  Stream(k, preamble, base)'
<1> DEFINE p == base + processed
           missing == request.kind.len - request.body
           there == Len(buffer) - processed
           n == IF there < missing THEN there ELSE missing
<1>1. /\ place = "parse" /\ state = "BODY" /\ processed < Len(buffer)
      /\ processed' = processed + n
      /\ request' = [request EXCEPT !.body = @ + n]
      /\ state' = IF n = missing THEN "DONE" ELSE state
      /\ UNCHANGED <<place, buffer, kernel, unsent>>
  BY DEF BodyBytes, InBody, clientVars
<1>2. /\ base \in Nat /\ processed \in Nat /\ Len(buffer) \in Nat
  BY <1>1, Sees
<1>3. /\ request.kind = k /\ ~ k.bad /\ request.body <= k.len
      /\ p = 5 + request.body /\ k.type = "post"
  BY <1>1, Sees DEF Parsed
<1>4. request.body \in Nat /\ k.len \in Nat
  BY ParseFacts
<1>5. n \in Nat /\ n <= missing /\ n <= there /\ missing = k.len - request.body
  BY SMTT(40), <1>1, <1>2, <1>3, <1>4
<1> HIDE DEF n
<1>6. processed' <= Len(buffer) /\ base + processed' = 5 + (request.body + n)
      /\ request.body + n <= k.len /\ (n = missing => request.body + n = k.len)
  <2>1. processed' <= Len(buffer)
    BY <1>1, <1>2, <1>5
  <2>2. base + processed' = 5 + (request.body + n)
    <3>1. \A i \in Nat : p = 5 + i => base + (processed + n) = 5 + (i + n)
      BY <1>2, <1>5
    <3> QED BY <1>1, <1>3, <1>4, <3>1
  <2>3. request.body + n <= k.len /\ (n = missing => request.body + n = k.len)
    BY <1>4, <1>5
  <2> QED BY <2>1, <2>2, <2>3
<1>7. request'.kind = k /\ request'.body = request.body + n
  BY <1>1, <1>3, ParseFacts
<1>8. Parsed(k, Len(preamble), base + processed)'
  <2>1. CASE n = missing
    BY <1>1, <1>3, <1>6, <1>7, <2>1 DEF Parsed
  <2>2. CASE n # missing
    BY <1>1, <1>3, <1>6, <1>7, <2>2 DEF Parsed
  <2> QED BY <2>1, <2>2
<1> QED BY <1>1, <1>6, <1>8, StreamGoes

\* The handler erases what it has gone over and waits for more.
LEMMA StreamStops ==
  ASSUME Types2, NEW k \in Kinds, NEW preamble \in Preambles,
         NEW base \in 0 .. Size(k, preamble), Stream(k, preamble, base),
         place' = "in", NEW n \in Nat, n <= Len(buffer), Erase(n),
         UNCHANGED <<kernel, unsent>>, Parsed(k, Len(preamble), base + n)'
  PROVE  base + n \in 0 .. Size(k, preamble) /\ Stream(k, preamble, base + n)'
<1> DEFINE text == Pieces(k, preamble)
<1>1. Fits(text, base)
  BY DEF Stream
<1>2. /\ Len(buffer) \in Nat /\ Len(kernel) \in Nat /\ Len(unsent) \in Nat
      /\ base \in Nat /\ Size(k, preamble) \in Nat
  <2>1. Size(k, preamble) \in Nat
    BY TextHead
  <2> QED BY SMTT(40), <2>1 DEF Types2, ClientTypes, ParseTypes
<1>3. /\ Len(buffer') = Len(buffer) - n
      /\ \A i \in 1 .. Len(buffer) - n : buffer'[i] = buffer[n + i]
  <2>1. \A i \in n + 1 .. Len(buffer) : buffer[i] \in AllPieces
    BY ParseFacts
  <2> DEFINE m == n + 1
  <2>2. /\ Len(buffer') = IF m <= Len(buffer) THEN Len(buffer) - m + 1 ELSE 0
        /\ \A i \in 1 .. Len(buffer) - m + 1 : buffer'[i] = buffer[m + i - 1]
    <3>1. m \in Int /\ Len(buffer) \in Int /\ \A i \in m .. Len(buffer) : buffer[i] \in AllPieces
      BY <1>2, <2>1
    <3>2. buffer' = SubSeq(buffer, m, Len(buffer))
      BY DEF Erase
    <3> HIDE DEF m
    <3> QED BY <3>1, <3>2, SubSeqProperties
  <2>3. /\ Len(buffer) - m + 1 = Len(buffer) - n
        /\ (IF m <= Len(buffer) THEN Len(buffer) - m + 1 ELSE 0) = Len(buffer) - n
    BY <1>2
  <2>4. \A i \in 1 .. Len(buffer) - n : m + i - 1 = n + i
    BY <1>2
  <2> HIDE DEF m
  <2> QED BY <2>2, <2>3, <2>4
<1>4. base + n + Len(buffer') = base + Len(buffer)
  BY <1>2, <1>3
<1>5. base + Len(buffer) + Len(kernel) + Len(unsent) = Len(text)
  BY <1>1 DEF Fits
<1>6. base + n \in 0 .. Size(k, preamble)
  BY <1>2, <1>5 DEF Size
<1>7. \A i \in 1 .. Len(buffer') : buffer'[i] = text[base + n + i]
  <2> TAKE i \in 1 .. Len(buffer')
  <2>1. n + i \in 1 .. Len(buffer) /\ base + (n + i) = base + n + i
    BY SMTT(40), <1>2, <1>3
  <2>2. buffer[n + i] = text[base + (n + i)]
    BY <1>1, <2>1 DEF Fits
  <2> QED BY <1>3, <2>1, <2>2
<1>8. Fits(text, base + n)'
  BY <1>1, <1>4, <1>7 DEF Fits
<1> QED BY <1>6, <1>8 DEF Stream

LEMMA BufferIncompleteStream ==
  ASSUME Served, Types2, NEW k \in Kinds, NEW preamble \in Preambles,
         NEW base \in 0 .. Size(k, preamble), Stream(k, preamble, base),
         BufferIncomplete \/ PartHeadersIncomplete
  PROVE  \E b \in 0 .. Size(k, preamble) : Stream(k, preamble, b)'
<1>1. /\ place = "parse" /\ place' = "in" /\ Erase(processed)
      /\ UNCHANGED <<kernel, unsent, state, request>>
  BY DEF BufferIncomplete, PartHeadersIncomplete, InPart, clientVars
<1>2. processed \in Nat /\ processed <= Len(buffer)
        /\ Parsed(k, Len(preamble), base + processed)
  BY <1>1, Sees
<1>3. PICK n \in Nat : n = processed
  BY <1>2
<1>4. Parsed(k, Len(preamble), base + n)'
  BY <1>1, <1>2, <1>3 DEF Parsed
<1>5. base + n \in 0 .. Size(k, preamble) /\ Stream(k, preamble, base + n)'
  BY <1>1, <1>2, <1>3, <1>4, StreamStops
<1> QED BY <1>5

-----------------------------------------------------------------------------
(* Multipart bodies. *)

\* The first boundary ahead is the one some pieces further, when none comes
\* before and the search starts no later.
LEMMA BoundaryAt ==
  ASSUME Served, Types2, NEW k \in Kinds, NEW preamble \in Preambles,
         NEW base \in 0 .. Size(k, preamble), Stream(k, preamble, base),
         place = "parse", NEW p, p = base + processed, NEW m \in Nat \ {0},
         What(k, preamble, p + m) = "boundary", SearchStart <= processed + m,
         \A j \in 1 .. m - 1 : SearchStart <= processed + j
                                 => What(k, preamble, p + j) # "boundary"
  PROVE  /\ Boundaries # {} <=> processed + m <= Len(buffer)
         /\ Boundaries # {} => FirstOf(Boundaries) = processed + m
<1>1. processed \in Nat /\ Len(buffer) \in Nat
  BY ParseFacts
<1>2. SearchStart \in Nat /\ SearchStart >= processed + 1
  BY <1>1 DEF SearchStart
<1>3. Boundaries \subseteq Ahead
  BY <1>1, <1>2 DEF Boundaries, Ahead
<1>4. \A j \in 1 .. m - 1 : processed + j \notin Boundaries
  <2> SUFFICES ASSUME NEW j \in 1 .. m - 1, processed + j \in Boundaries PROVE FALSE
    OBVIOUS
  <2>1. /\ SearchStart <= processed + j /\ processed + j <= Len(buffer)
        /\ buffer[processed + j].what = "boundary" /\ j \in Nat \ {0}
    BY <1>1, <1>2 DEF Boundaries
  <2>2. \A i \in Nat \ {0} : processed + i <= Len(buffer) =>
          buffer[processed + i].what = What(k, preamble, p + i)
    BY Sees
  <2>3. What(k, preamble, p + j) = "boundary"
    BY <2>1, <2>2
  <2> QED BY <2>1, <2>3
<1>5. processed + m <= Len(buffer) => processed + m \in Boundaries
  <2>1. processed + m <= Len(buffer) => buffer[processed + m].what = "boundary"
    BY SMTT(40), Sees
  <2>2. processed + m <= Len(buffer) => processed + m \in SearchStart .. Len(buffer)
    BY <1>1, <1>2
  <2> QED BY <2>1, <2>2 DEF Boundaries
<1> QED BY <1>3, <1>4, <1>5, FirstAhead

\* Where a search for a boundary may be, and what it finds.
LEMMA SearchNext ==
  ASSUME Served, Types2, NEW k \in Kinds, NEW preamble \in Preambles,
         NEW base \in 0 .. Size(k, preamble), Stream(k, preamble, base),
         InPart("BOUNDARY_SEARCH"), NEW p, p = base + processed,
         NEW a \in Nat, a = Len(preamble)
  PROVE  /\ request.kind = k /\ k.type = "multipart"
         /\ \/ /\ p = 5 /\ k.bad
               /\ Boundaries # {} /\ FirstOf(Boundaries) = processed + 1
               /\ processed + 2 <= Len(buffer)
            \/ /\ p = 5 /\ ~ k.bad /\ request.body = 0 /\ a \in {0, 2}
               /\ SearchStart = processed + 1
               /\ Boundaries # {} => /\ FirstOf(Boundaries) = processed + 1 + a
                                     /\ processed + 2 + a <= Len(buffer)
            \/ /\ p = 10 + a + k.len /\ ~ k.bad /\ request.body = k.len /\ a \in {0, 2}
               /\ Boundaries # {} /\ FirstOf(Boundaries) = processed + 2
               /\ processed + 4 <= Len(buffer)
<1>1. place = "parse" /\ state = "BOUNDARY_SEARCH" /\ Ahead # {}
  BY DEF InPart
<1>2. /\ processed \in Nat /\ Len(buffer) \in Nat /\ p \in Nat
      /\ Size(k, preamble) \in Nat
  BY <1>1, Sees
<1>3. processed + 1 <= Len(buffer)
  BY <1>1, <1>2 DEF Ahead
<1>4. /\ request.kind = k /\ k.type = "multipart"
      /\ \/ p = 5 /\ request.body = 0
         \/ p = 10 + a + k.len /\ ~ k.bad /\ request.body = k.len
  BY <1>1, Sees DEF Parsed
<1>5. CASE p = 5 /\ k.bad
  <2>1. What(k, preamble, p + 1) = "boundary" /\ What(k, preamble, p + 2) = "body"
          /\ Size(k, preamble) = 7
    BY <1>4, <1>5, TextBad
  <2>2. SearchStart = processed + 1
    BY <1>1, <2>1, SeesEnds DEF SearchStart
  <2>3. Boundaries # {} /\ FirstOf(Boundaries) = processed + 1
    <3>1. \A j \in 1 .. 1 - 1 : SearchStart <= processed + j
                                  => What(k, preamble, p + j) # "boundary"
      OBVIOUS
    <3>2. SearchStart <= processed + 1
      BY <1>2, <2>2
    <3> QED BY <1>1, <1>3, <2>1, <3>1, <3>2, BoundaryAt
  <2>4. processed + 2 <= Len(buffer)
    <3>1. p + 1 < Size(k, preamble) /\ p + 1 + 1 = p + 2 /\ processed + 1 + 1 = processed + 2
      BY <1>2, <1>5, <2>1
    <3>2. <<What(k, preamble, p + 1), What(k, preamble, p + 1 + 1)>> \in BadCuts
      BY <2>1, <3>1 DEF BadCuts
    <3> QED BY <1>1, <1>3, <3>1, <3>2, Sees
  <2> QED BY <1>4, <1>5, <2>3, <2>4
<1>6. CASE p = 5 /\ ~ k.bad
  <2> DEFINE n == k.len
  <2>0. n \in Nat /\ a \in {0, 2} /\ GoodText(k, preamble, a, n)
    BY <1>4, <1>6, PreambleLen, TextGood
  <2> HIDE DEF n
  <2>1. /\ Size(k, preamble) = 14 + a + n
        /\ a = 2 => What(k, preamble, 6) = "preamble" /\ What(k, preamble, 7) = "eol"
        /\ What(k, preamble, 6 + a) = "boundary" /\ What(k, preamble, 7 + a) = "eol"
    BY <2>0 DEF GoodText
  <2>2. SearchStart = processed + 1
    <3>1. What(k, preamble, p + 1) \notin {"eol", "empty"}
      BY <1>6, <2>0, <2>1
    <3> QED BY <1>1, <3>1, SeesEnds DEF SearchStart
  <2>3. ASSUME Boundaries # {}
        PROVE  FirstOf(Boundaries) = processed + (1 + a)
                 /\ processed + (1 + a) <= Len(buffer)
    <3>1. \A j \in 1 .. 1 + a - 1 : What(k, preamble, p + j) # "boundary"
      BY SMTT(40), <1>6, <2>0, <2>1
    <3>2. /\ 1 + a \in Nat \ {0} /\ SearchStart <= processed + (1 + a)
          /\ What(k, preamble, p + (1 + a)) = "boundary"
      BY <1>2, <1>6, <2>0, <2>1, <2>2
    <3> QED BY <1>1, <2>3, <3>1, <3>2, BoundaryAt
  <2>4. ASSUME Boundaries # {}
        PROVE  processed + (1 + a) + 1 <= Len(buffer)
    <3>1. /\ p + (1 + a) < Size(k, preamble) /\ 1 + a \in Nat \ {0}
          /\ p + (1 + a) = 6 + a /\ p + (1 + a) + 1 = 7 + a
      BY <1>2, <1>6, <2>0, <2>1
    <3>2. <<What(k, preamble, p + (1 + a)), What(k, preamble, p + (1 + a) + 1)>> \in BadCuts
      BY <2>1, <3>1 DEF BadCuts
    <3> QED BY <1>1, <2>3, <2>4, <3>1, <3>2, Sees
  <2>5. processed + (1 + a) = processed + 1 + a /\ processed + (1 + a) + 1 = processed + 2 + a
    BY <1>2, <2>0
  <2>6. request.body = 0
    <3>1. p # 10 + a + n
      BY <1>6, <2>0
    <3> QED BY <1>4, <3>1 DEF n
  <2> QED BY <1>4, <1>6, <2>0, <2>2, <2>3, <2>4, <2>5, <2>6
<1>7. CASE p = 10 + a + k.len /\ ~ k.bad /\ request.body = k.len
  <2> DEFINE n == k.len
  <2>0. n \in Nat /\ a \in {0, 2} /\ GoodText(k, preamble, a, n)
    BY <1>4, <1>7, PreambleLen, TextGood
  <2>1. p = 10 + a + n
    BY <1>7
  <2> HIDE DEF n
  <2>2. /\ Size(k, preamble) = p + 4
        /\ What(k, preamble, p + 1) = "eol"
        /\ What(k, preamble, p + 2) = "boundary"
        /\ What(k, preamble, p + 3) = "dashes"
        /\ What(k, preamble, p + 4) = "eol"
    <3>1. /\ p + 1 = 11 + a + n /\ p + 2 = 12 + a + n /\ p + 3 = 13 + a + n
          /\ p + 4 = 14 + a + n
      BY <2>0, <2>1
    <3>2. Size(k, preamble) = p + 4
      BY <2>0, <2>1 DEF GoodText
    <3> QED BY <2>0, <3>1, <3>2 DEF GoodText
  <2>3. SearchStart = processed + 2
    BY <1>1, <1>3, <2>2, SeesEnds DEF SearchStart
  <2>4. processed + 1 + 1 <= Len(buffer)
    <3>1. p + 1 < Size(k, preamble) /\ p + 1 + 1 = p + 2
      BY <1>2, <2>2
    <3>2. <<What(k, preamble, p + 1), What(k, preamble, p + 1 + 1)>> \in BadCuts
      BY <2>2, <3>1 DEF BadCuts
    <3> QED BY <1>1, <1>3, <3>1, <3>2, Sees
  <2>5. processed + 2 + 1 <= Len(buffer)
    <3>1. p + 2 < Size(k, preamble) /\ p + 2 + 1 = p + 3 /\ processed + 2 <= Len(buffer)
      BY <1>2, <2>2, <2>4
    <3>2. <<What(k, preamble, p + 2), What(k, preamble, p + 2 + 1)>> \in BadCuts
      BY <2>2, <3>1 DEF BadCuts
    <3> QED BY <1>1, <3>1, <3>2, Sees
  <2>6. processed + 3 + 1 <= Len(buffer)
    <3>1. p + 3 < Size(k, preamble) /\ p + 3 + 1 = p + 4 /\ processed + 3 <= Len(buffer)
      BY <1>2, <2>2, <2>5
    <3>2. <<What(k, preamble, p + 3), What(k, preamble, p + 3 + 1)>> \in BadCuts
      BY <2>2, <3>1 DEF BadCuts
    <3> QED BY <1>1, <3>1, <3>2, Sees
  <2>7. Boundaries # {} /\ FirstOf(Boundaries) = processed + 2
    <3>1. \A j \in 1 .. 2 - 1 : SearchStart <= processed + j
                                  => What(k, preamble, p + j) # "boundary"
      BY <1>2, <2>3
    <3>2. SearchStart <= processed + 2 /\ processed + 2 <= Len(buffer)
      BY <1>2, <2>3, <2>4
    <3> QED BY SMTT(40), <1>1, <2>2, <3>1, <3>2, BoundaryAt
  <2>8. processed + 4 <= Len(buffer)
    BY <1>2, <2>6
  <2> QED BY <1>4, <1>7, <2>0, <2>7, <2>8
<1> QED BY <1>4, <1>5, <1>6, <1>7

LEMMA BoundaryMissingStream ==
  ASSUME Served, Types2, NEW k \in Kinds, NEW preamble \in Preambles,
         NEW base \in 0 .. Size(k, preamble), Stream(k, preamble, base),
         BoundaryMissing
  PROVE  \E b \in 0 .. Size(k, preamble) : Stream(k, preamble, b)'
<1>1. /\ place = "parse" /\ place' = "in" /\ state = "BOUNDARY_SEARCH"
      /\ InPart("BOUNDARY_SEARCH") /\ Boundaries = {}
      /\ processed' = SearchStart - 1 /\ Erase(processed')
      /\ UNCHANGED <<kernel, unsent, state, request>>
  BY DEF BoundaryMissing, InPart, clientVars
<1>2. processed \in Nat /\ processed <= Len(buffer)
        /\ Parsed(k, Len(preamble), base + processed)
  BY <1>1, Sees
<1>3. Len(preamble) \in Nat
  BY PreambleLen
<1>4. SearchStart = processed + 1
  BY <1>1, <1>2, <1>3, SearchNext
<1>5. PICK n \in Nat : n = processed
  BY <1>2
<1>6. processed' = n
  BY <1>1, <1>4, <1>5
<1>7. Parsed(k, Len(preamble), base + n)'
  BY <1>1, <1>2, <1>5 DEF Parsed
<1>8. base + n \in 0 .. Size(k, preamble) /\ Stream(k, preamble, base + n)'
  BY <1>1, <1>2, <1>5, <1>6, <1>7, StreamStops
<1> QED BY <1>8

LEMMA BoundaryFoundStream ==
  ASSUME Served, Types2, NEW k \in Kinds, NEW preamble \in Preambles,
         NEW base \in 0 .. Size(k, preamble), Stream(k, preamble, base),
         BoundaryFound
  PROVE  Stream(k, preamble, base)'
<1> DEFINE p == base + processed
           a == Len(preamble)
           n == k.len
           next == FirstOf(Boundaries) + 1
<1>1. /\ place = "parse" /\ InPart("BOUNDARY_SEARCH") /\ Boundaries # {}
      /\ \/ /\ Is(next, {"dashes"})
            /\ processed' = IF IsEnd(next + 1) THEN next + 1 ELSE next
            /\ state' = "DONE"
         \/ IsEnd(next) /\ processed' = next /\ state' = "PART_HEADERS"
      /\ UNCHANGED <<place, buffer, kernel, unsent, request>>
  BY DEF BoundaryFound, InPart, clientVars
<1>2. /\ base \in Nat /\ processed \in Nat /\ Len(buffer) \in Nat /\ p \in Nat
      /\ a \in {0, 2} /\ a \in Nat /\ n \in Nat
  BY <1>1, Sees, PreambleLen
<1>3. /\ request.kind = k /\ k.type = "multipart"
      /\ \/ /\ p = 5 /\ k.bad /\ next = processed + 2
         \/ /\ p = 5 /\ ~ k.bad /\ request.body = 0 /\ next = processed + (2 + a)
         \/ /\ p = 10 + a + n /\ ~ k.bad /\ request.body = k.len
            /\ next = processed + 3 /\ processed + 4 <= Len(buffer)
  <2>1. /\ processed + 1 + 1 = processed + 2 /\ processed + 2 + 1 = processed + 3
        /\ processed + 1 + a + 1 = processed + (2 + a)
    BY <1>2
  <2> QED BY <1>1, <1>2, <2>1, SearchNext
<1>4. ~ k.bad
  <2> SUFFICES ASSUME k.bad PROVE FALSE
    OBVIOUS
  <2>1. p = 5 /\ next = processed + 2
    BY <1>3
  <2>2. What(k, preamble, p + 2) = "body"
    BY <1>3, <2>1, TextBad
  <2>3. ~ Is(next, {"dashes"}) /\ ~ IsEnd(next)
    BY <1>1, <2>1, <2>2, SeesEnds
  <2> QED BY <1>1, <2>3
<1>5. GoodText(k, preamble, a, n)
  BY <1>3, <1>4, TextGood
<1> HIDE DEF next, n, a
<1>6. CASE p = 5 /\ request.body = 0 /\ next = processed + (2 + a)
  <2>1. What(k, preamble, p + (2 + a)) = "eol" /\ 2 + a \in Nat \ {0}
    <3>1. p + (2 + a) = 7 + a
      BY <1>2, <1>6
    <3> QED BY <1>2, <1>5, <3>1 DEF GoodText
  <2>2. ~ Is(next, {"dashes"})
    BY <1>1, <1>6, <2>1, SeesEnds
  <2>3. IsEnd(next) /\ processed' = next /\ state' = "PART_HEADERS"
    BY <1>1, <2>2
  <2>4. processed' <= Len(buffer)
    BY <1>1, <1>6, <2>1, <2>3, SeesEnds
  <2>5. base + processed' = 7 + a
    BY <1>2, <1>6, <2>3
  <2>6. request.body <= k.len /\ request' = request
    BY <1>1, <1>2, <1>6 DEF n
  <2>7. Parsed(k, Len(preamble), base + processed)'
    BY <1>3, <1>4, <1>6, <2>3, <2>5, <2>6 DEF Parsed, a
  <2> QED BY <1>1, <2>4, <2>7, StreamGoes
<1>7. CASE /\ p = 10 + a + n /\ request.body = k.len
           /\ next = processed + 3 /\ processed + 4 <= Len(buffer)
  <2>1. What(k, preamble, p + 3) = "dashes" /\ What(k, preamble, p + 4) = "eol"
    <3>1. p + 3 = 13 + a + n /\ p + 4 = 14 + a + n
      BY <1>2, <1>7
    <3> QED BY <1>5, <3>1 DEF GoodText
  <2>2. ~ IsEnd(next)
    BY <1>1, <1>7, <2>1, SeesEnds
  <2>3. next + 1 = processed + 4 /\ IsEnd(processed + 4)
    <3>1. IsEnd(processed + 4)
      BY <1>1, <1>7, <2>1, SeesEnds
    <3> QED BY <1>2, <1>7, <3>1
  <2>4. processed' = processed + 4 /\ state' = "DONE"
    BY <1>1, <2>2, <2>3
  <2>5. base + processed' = 14 + a + n
    BY <1>2, <1>7, <2>4
  <2>6. request'.body = k.len /\ request' = request /\ k.len <= k.len
    BY <1>1, <1>2, <1>7 DEF n
  <2>7. Parsed(k, Len(preamble), base + processed)'
    BY <1>3, <1>4, <2>4, <2>5, <2>6 DEF Parsed, a, n
  <2> QED BY <1>1, <1>7, <2>4, <2>7, StreamGoes
<1> QED BY <1>3, <1>4, <1>6, <1>7

\* A boundary that is refused is one of a body that is wrong, and all of that body
\* is in the buffer.
LEMMA BoundaryErrorRight ==
  ASSUME Served, Types2, NEW k \in Kinds, NEW preamble \in Preambles,
         NEW base \in 0 .. Size(k, preamble), Stream(k, preamble, base),
         BoundaryError
  PROVE  k.bad /\ state # "DONE" /\ kernel = <<>> /\ unsent = <<>>
<1> DEFINE p == base + processed
           a == Len(preamble)
           n == k.len
           next == FirstOf(Boundaries) + 1
<1>1. /\ place = "parse" /\ state = "BOUNDARY_SEARCH" /\ InPart("BOUNDARY_SEARCH")
      /\ Boundaries # {} /\ ~ Is(next, {"dashes"}) /\ ~ IsEnd(next)
  BY DEF BoundaryError, InPart
<1>2. /\ base \in Nat /\ processed \in Nat /\ Len(buffer) \in Nat /\ p \in Nat
      /\ a \in {0, 2} /\ a \in Nat /\ n \in Nat
  BY <1>1, Sees, PreambleLen
<1>3. /\ request.kind = k /\ k.type = "multipart"
      /\ \/ /\ p = 5 /\ k.bad /\ processed + 2 <= Len(buffer)
         \/ /\ p = 5 /\ ~ k.bad /\ next = processed + (2 + a)
            /\ processed + (2 + a) <= Len(buffer)
         \/ /\ p = 10 + a + n /\ ~ k.bad
            /\ next = processed + 3 /\ processed + 3 <= Len(buffer)
  <2>1. /\ processed + 2 + 1 = processed + 3 /\ processed + 1 + a + 1 = processed + (2 + a)
        /\ processed + 2 + a = processed + (2 + a)
        /\ processed + 4 <= Len(buffer) => processed + 3 <= Len(buffer)
    BY <1>2
  <2>2. /\ request.kind = k /\ k.type = "multipart"
        /\ \/ p = 5 /\ k.bad /\ processed + 2 <= Len(buffer)
           \/ /\ p = 5 /\ ~ k.bad
              /\ FirstOf(Boundaries) = processed + 1 + a
              /\ processed + 2 + a <= Len(buffer)
           \/ /\ p = 10 + a + k.len /\ ~ k.bad
              /\ FirstOf(Boundaries) = processed + 2 /\ processed + 4 <= Len(buffer)
    BY SMTT(40), <1>1, <1>2, SearchNext
  <2> QED BY <2>1, <2>2
<1>4. k.bad
  <2> SUFFICES ASSUME ~ k.bad PROVE FALSE
    OBVIOUS
  <2>1. GoodText(k, preamble, a, n)
    BY <1>3, TextGood
  <2> HIDE DEF next, n, a
  <2>2. CASE p = 5 /\ next = processed + (2 + a) /\ processed + (2 + a) <= Len(buffer)
    <3>1. What(k, preamble, p + (2 + a)) = "eol" /\ 2 + a \in Nat \ {0}
      <4>1. p + (2 + a) = 7 + a
        BY <1>2, <2>2
      <4> QED BY <1>2, <2>1, <4>1 DEF GoodText
    <3> QED BY <1>1, <2>2, <3>1, SeesEnds
  <2>3. CASE p = 10 + a + n /\ next = processed + 3 /\ processed + 3 <= Len(buffer)
    <3>1. What(k, preamble, p + 3) = "dashes"
      <4>1. p + 3 = 13 + a + n
        BY <1>2, <2>3
      <4> QED BY <2>1, <4>1 DEF GoodText
    <3> QED BY <1>1, <2>3, <3>1, SeesEnds
  <2> QED BY <1>3, <2>2, <2>3
<1>5. Size(k, preamble) = 7 /\ p = 5 /\ processed + 2 <= Len(buffer)
  BY <1>3, <1>4, TextBad
<1>6. p + (Len(buffer) - processed) = Size(k, preamble)
  <2>1. p + (Len(buffer) - processed) <= Size(k, preamble)
    BY <1>1, Sees
  <2> QED BY <1>2, <1>5, <2>1
<1>7. kernel = <<>> /\ unsent = <<>>
  BY <1>1, <1>6, Sees
<1> QED BY <1>1, <1>4, <1>7

LEMMA PartHeadersStream ==
  ASSUME Served, Types2, NEW k \in Kinds, NEW preamble \in Preambles,
         NEW base \in 0 .. Size(k, preamble), Stream(k, preamble, base),
         PartHeaders
  PROVE  Stream(k, preamble, base)'
<1> DEFINE p == base + processed
           a == Len(preamble)
           n == k.len
<1>1. /\ place = "parse" /\ state = "PART_HEADERS" /\ PartEnds # {}
      /\ processed' = FirstOf(PartEnds) + 1 /\ state' = "PART_DATA"
      /\ UNCHANGED <<place, buffer, kernel, unsent, request>>
  BY DEF PartHeaders, InPart, clientVars
<1>2. /\ base \in Nat /\ processed \in Nat /\ Len(buffer) \in Nat /\ p \in Nat
      /\ a \in {0, 2} /\ n \in Nat
  BY <1>1, Sees, PreambleLen
<1>3. /\ request.kind = k /\ k.type = "multipart" /\ ~ k.bad /\ request.body = 0
      /\ p = 7 + a
  BY <1>1, Sees DEF Parsed
<1>4. GoodText(k, preamble, a, n)
  BY <1>3, TextGood
<1> HIDE DEF n, a
<1>5. /\ What(k, preamble, p + 1) = "part" /\ What(k, preamble, p + 2) = "eol"
      /\ What(k, preamble, p + 3) = "empty"
  <2>1. p + 1 = 8 + a /\ p + 2 = 9 + a /\ p + 3 = 10 + a
    BY <1>2, <1>3
  <2> QED BY <1>4, <2>1 DEF GoodText
<1>6. PartEnds \subseteq Ahead /\ \A i \in PartEnds : IsEnd(i) /\ IsEnd(i + 1)
  BY DEF PartEnds
<1>7. ~ IsEnd(processed + 1)
  BY <1>1, <1>5, SeesEnds
<1>8. processed + 3 <= Len(buffer)
  <2> DEFINE f == FirstOf(PartEnds)
  <2>1. f \in PartEnds /\ f \in Nat /\ f > processed /\ f <= Len(buffer)
    BY <1>1, <1>6, AheadFirst
  <2>2. IsEnd(f) /\ IsEnd(f + 1)
    BY <1>6, <2>1
  <2>3. f # processed + 1
    BY <1>7, <2>2
  <2>4. f + 1 <= Len(buffer)
    BY <2>2 DEF IsEnd, Is
  <2> HIDE DEF f
  <2> QED BY <1>2, <2>1, <2>3, <2>4
<1>9. FirstOf(PartEnds) = processed + 2
  <2>1. \A j \in 1 .. 2 - 1 : processed + j \notin PartEnds
    BY <1>6, <1>7
  <2>2. processed + 2 \in PartEnds
    <3>1. IsEnd(processed + 2) /\ IsEnd(processed + 3) /\ processed + 2 + 1 = processed + 3
      <4>1. processed + 2 <= Len(buffer)
        BY <1>2, <1>8
      <4>2. IsEnd(processed + 2)
        BY <1>1, <1>5, <4>1, SeesEnds
      <4>3. IsEnd(processed + 3)
        BY <1>1, <1>5, <1>8, SeesEnds
      <4> QED BY <1>2, <4>2, <4>3
    <3>2. processed + 2 \in Ahead
      BY <1>2, <1>8 DEF Ahead
    <3> QED BY <3>1, <3>2 DEF PartEnds
  <2> QED BY <1>6, <2>1, <2>2, FirstAhead
<1>10. processed' <= Len(buffer) /\ base + processed' = 10 + a + 0
  BY <1>1, <1>2, <1>3, <1>8, <1>9
<1>11. request'.kind = k /\ request'.body = 0 /\ 0 <= k.len
  BY <1>1, <1>2, <1>3 DEF n
<1>12. Parsed(k, Len(preamble), base + processed)'
  BY <1>1, <1>3, <1>10, <1>11 DEF Parsed, a
<1> QED BY <1>1, <1>10, <1>12, StreamGoes

\* The parser is in the data of the part, b of whose n pieces are stored.
AtData(k, preamble, base, a, n, b) ==
  GoodText(k, preamble, a, n) /\ b <= n /\ base + processed = 10 + a + b

\* The data of a part ends where its body does.
LEMMA DataNext ==
  ASSUME Served, Types2, NEW k \in Kinds, NEW preamble \in Preambles,
         NEW base \in 0 .. Size(k, preamble), Stream(k, preamble, base),
         place = "parse", NEW a \in Nat, NEW n \in Nat, NEW b \in Nat,
         AtData(k, preamble, base, a, n, b)
  PROVE  /\ DataEnds # {} => /\ FirstOf(DataEnds) = processed + (n - b + 1)
                             /\ processed + (n - b + 1) <= Len(buffer)
         /\ DataEnds = {} => Len(buffer) <= processed + (n - b)
<1>1. base \in Nat /\ processed \in Nat /\ Len(buffer) \in Nat
  BY Sees
<1>2. PICK p \in Nat : p = base + processed /\ processed \in Nat /\ Len(buffer) \in Nat
  BY <1>1
<1>3. p = base + processed /\ p = 10 + a + b /\ b <= n
  BY <1>2 DEF AtData
<1>4. GoodText(k, preamble, a, n)
  BY DEF AtData
<1> USE <1>3, <1>4
<1> DEFINE m == n - b + 1
<1>5. m \in Nat \ {0} /\ m - 1 = n - b
  OBVIOUS
<1>6. \A j \in 1 .. m - 1 : What(k, preamble, p + j) = "body"
  <2> TAKE j \in 1 .. m - 1
  <2>1. b + j \in 1 .. n /\ 10 + a + (b + j) = p + j
    OBVIOUS
  <2> QED BY <2>1 DEF GoodText
<1>7. /\ What(k, preamble, p + m) = "eol" /\ What(k, preamble, p + (m + 1)) = "boundary"
      /\ p + m < Size(k, preamble) /\ p + m + 1 = p + (m + 1)
  <2>0. m \in Nat /\ m + b = n + 1
    OBVIOUS
  <2>1. p + m = 11 + a + n /\ p + (m + 1) = 12 + a + n /\ p + m + 1 = p + (m + 1)
    <3>1. p = 10 + a + b /\ m \in Nat /\ m + b = n + 1
      BY <1>5, <2>0
    <3> HIDE DEF m
    <3>2. p + m = 11 + a + n
      BY <3>1
    <3>3. p + (m + 1) = 12 + a + n /\ p + m + 1 = p + (m + 1)
      BY <1>2, <3>1
    <3> QED BY <3>2, <3>3
  <2>2. 11 + a + n < 14 + a + n
    OBVIOUS
  <2> HIDE DEF m
  <2> QED BY <2>1, <2>2 DEF GoodText
<1> HIDE DEF m
<1>8. DataEnds \subseteq Ahead /\ \A i \in DataEnds : IsEnd(i)
  BY DEF DataEnds
<1>9. \A j \in 1 .. m - 1 : processed + j \notin DataEnds
  <2> TAKE j \in 1 .. m - 1
  <2>1. j \in Nat \ {0}
    BY <1>5
  <2>2. What(k, preamble, p + j) = "body"
    BY <1>6
  <2>3. ~ IsEnd(processed + j)
    BY <2>1, <2>2, SeesEnds
  <2> QED BY <1>8, <2>3
<1>10. processed + m <= Len(buffer) => processed + m \in DataEnds
  <2> SUFFICES ASSUME processed + m <= Len(buffer) PROVE processed + m \in DataEnds
    OBVIOUS
  <2>1. processed + m + 1 <= Len(buffer)
    <3>1. <<What(k, preamble, p + m), What(k, preamble, p + m + 1)>> \in BadCuts
      BY <1>7 DEF BadCuts
    <3> QED BY <1>5, <1>7, <3>1, Sees
  <2>2. IsEnd(processed + m)
    BY <1>5, <1>7, SeesEnds
  <2>3. Is(processed + (m + 1), {"boundary"}) /\ processed + (m + 1) = processed + m + 1
    <3>1. m + 1 \in Nat \ {0} /\ processed + (m + 1) <= Len(buffer)
            /\ processed + (m + 1) = processed + m + 1
      BY <1>2, <1>5, <2>1
    <3> QED BY <1>7, <3>1, SeesEnds
  <2>4. processed + m \in Ahead
    BY <1>2, <1>5 DEF Ahead
  <2> QED BY <2>2, <2>3, <2>4 DEF DataEnds
<1>11. DataEnds # {} => FirstOf(DataEnds) = processed + m /\ processed + m <= Len(buffer)
  BY <1>5, <1>8, <1>9, <1>10, FirstAhead
<1>12. DataEnds = {} => Len(buffer) <= processed + (m - 1)
  BY <1>2, <1>5, <1>10
<1> QED BY <1>5, <1>11, <1>12 DEF m

LEMMA PartDataStream ==
  ASSUME Served, Types2, NEW k \in Kinds, NEW preamble \in Preambles,
         NEW base \in 0 .. Size(k, preamble), Stream(k, preamble, base),
         PartData
  PROVE  Stream(k, preamble, base)'
<1>1. /\ place = "parse" /\ state = "PART_DATA" /\ InPart("PART_DATA") /\ DataEnds # {}
      /\ processed' = FirstOf(DataEnds) - 1 /\ Store(processed')
      /\ state' = "BOUNDARY_SEARCH"
      /\ UNCHANGED <<place, buffer, kernel, unsent>>
  BY DEF PartData, InPart, clientVars
<1>2. /\ base \in Nat /\ processed \in Nat /\ Len(buffer) \in Nat
  BY <1>1, Sees
<1>3. PICK p \in Nat, a \in Nat, n \in Nat, b \in Nat :
        p = base + processed /\ a = Len(preamble) /\ n = k.len /\ b = request.body
  <2>1. base + processed \in Nat /\ Len(preamble) \in Nat /\ k.len \in Nat
    BY <1>2, PreambleLen
  <2> QED BY <2>1, ParseFacts
<1>4. /\ request.kind = k /\ k.type = "multipart" /\ ~ k.bad
      /\ b <= n /\ p = 10 + a + b
      /\ FirstOf(DataEnds) = processed + (n - b + 1)
      /\ processed + (n - b + 1) <= Len(buffer)
  <2>1. /\ request.kind = k /\ k.type = "multipart" /\ ~ k.bad
        /\ b <= n /\ p = 10 + a + b
    BY <1>1, <1>3, Sees DEF Parsed
  <2>2. GoodText(k, preamble, a, n)
    BY <1>3, <2>1, TextGood
  <2>3. AtData(k, preamble, base, a, n, b)
    BY <1>3, <2>1, <2>2 DEF AtData
  <2>4. /\ FirstOf(DataEnds) = processed + (n - b + 1)
        /\ processed + (n - b + 1) <= Len(buffer)
    BY <1>1, <2>3, DataNext
  <2> QED BY <2>1, <2>4
<1>5. /\ processed' \in Nat /\ processed' >= processed /\ processed' <= Len(buffer)
      /\ processed' = processed + (n - b)
  BY <1>1, <1>2, <1>4
<1>6. request'.kind = k /\ request'.body = n
  <2>1. /\ request'.kind = request.kind
        /\ request'.body = request.body + processed' - processed
    BY <1>1, <1>5, StoreType
  <2>2. b + (processed + (n - b)) - processed = n
    BY SMTT(40), <1>2, <1>4
  <2> QED BY <1>3, <1>4, <1>5, <2>1, <2>2
<1>7. base + processed' = 10 + a + n
  <2>1. base + processed = 10 + a + b /\ b <= n /\ processed' = processed + (n - b)
    BY <1>3, <1>4, <1>5
  <2> QED BY <1>2, <2>1
<1>8. Parsed(k, Len(preamble), base + processed)'
  <2>1. n <= n
    OBVIOUS
  <2> QED BY <1>1, <1>3, <1>4, <1>6, <1>7, <2>1 DEF Parsed
<1> QED BY <1>1, <1>5, <1>8, StreamGoes

LEMMA PartDataIncompleteStream ==
  ASSUME Served, Types2, NEW k \in Kinds, NEW preamble \in Preambles,
         NEW base \in 0 .. Size(k, preamble), Stream(k, preamble, base),
         PartDataIncomplete
  PROVE  \E i \in 0 .. Size(k, preamble) : Stream(k, preamble, i)'
<1>1. /\ place = "parse" /\ state = "PART_DATA" /\ InPart("PART_DATA") /\ DataEnds = {}
      /\ processed' = Len(buffer) /\ Store(processed') /\ Erase(processed')
      /\ place' = "in"
      /\ UNCHANGED <<kernel, unsent, state>>
  BY DEF PartDataIncomplete, InPart, clientVars
<1>2. /\ base \in Nat /\ processed \in Nat /\ Len(buffer) \in Nat
      /\ processed <= Len(buffer)
  BY <1>1, Sees
<1>3. PICK p \in Nat, a \in Nat, n \in Nat, b \in Nat :
        p = base + processed /\ a = Len(preamble) /\ n = k.len /\ b = request.body
  <2>1. base + processed \in Nat /\ Len(preamble) \in Nat /\ k.len \in Nat
    BY <1>2, PreambleLen
  <2> QED BY <2>1, ParseFacts
<1>4. /\ request.kind = k /\ k.type = "multipart" /\ ~ k.bad
      /\ b <= n /\ p = 10 + a + b
      /\ Len(buffer) <= processed + (n - b)
  <2>1. /\ request.kind = k /\ k.type = "multipart" /\ ~ k.bad
        /\ b <= n /\ p = 10 + a + b
    BY <1>1, <1>3, Sees DEF Parsed
  <2>2. GoodText(k, preamble, a, n)
    BY <1>3, <2>1, TextGood
  <2>3. place = "parse" /\ DataEnds = {}
    BY <1>1
  <2>4. DataEnds = {} => Len(buffer) <= processed + (n - b)
    <3>1. AtData(k, preamble, base, a, n, b)
      BY <1>3, <2>1, <2>2 DEF AtData
    <3> QED BY <2>3, <3>1, DataNext
  <2> QED BY <2>1, <2>3, <2>4
<1>5. PICK l \in Nat : l = Len(buffer)
  BY <1>2
<1>6. PICK c \in Nat : c = b + l - processed
  <2>1. processed <= l
    BY <1>2, <1>5
  <2>2. b + l - processed \in Nat
    BY <1>2, <2>1
  <2> QED BY <2>2
<1>7. request'.kind = k /\ request'.body = c
  <2>1. /\ request'.kind = request.kind
        /\ request'.body = request.body + processed' - processed
    BY <1>1, <1>2, StoreType
  <2> QED BY <1>1, <1>3, <1>4, <1>5, <1>6, <2>1
<1>8. c <= n /\ base + l = 10 + a + c
  <2>1. base + processed = 10 + a + b /\ b <= n /\ l <= processed + (n - b)
    BY <1>3, <1>4, <1>5
  <2> QED BY <1>2, <1>6, <2>1
<1>9. Parsed(k, Len(preamble), base + l)'
  BY <1>1, <1>3, <1>4, <1>7, <1>8 DEF Parsed
<1>10. base + l \in 0 .. Size(k, preamble) /\ Stream(k, preamble, base + l)'
  <2>1. Erase(l) /\ l <= Len(buffer)
    BY <1>1, <1>2, <1>5
  <2> QED BY <1>1, <1>9, <2>1, StreamStops
<1> QED BY <1>10

\* When a request is done, all of it is in the buffer.
LEMMA CompleteRight ==
  ASSUME Served, Types2, NEW k \in Kinds, NEW preamble \in Preambles,
         NEW base \in 0 .. Size(k, preamble), Stream(k, preamble, base),
         Complete
  PROVE  /\ ~ k.bad /\ request.kind = k /\ request.body = k.len
         /\ kernel = <<>> /\ unsent = <<>>
<1> DEFINE p == base + processed
<1>1. place = "parse" /\ state = "DONE"
  BY DEF Complete
<1>2. /\ base \in Nat /\ processed \in Nat /\ Len(buffer) \in Nat
      /\ processed <= Len(buffer) /\ Size(k, preamble) \in Nat
      /\ p + (Len(buffer) - processed) <= Size(k, preamble)
  BY <1>1, Sees
<1>3. /\ ~ k.bad /\ request.kind = k /\ request.body = k.len
      /\ p = IF k.type = "multipart" THEN 14 + Len(preamble) + k.len ELSE 5 + k.len
  BY <1>1, Sees DEF Parsed
<1>4. p = Size(k, preamble)
  <2>1. CASE k.type = "multipart"
    BY <1>3, <2>1, TextGood DEF GoodText
  <2>2. CASE k.type # "multipart"
    BY <1>3, <2>2, TextPlain
  <2> QED BY <2>1, <2>2
<1>5. p + (Len(buffer) - processed) = Size(k, preamble)
  BY <1>2, <1>4
<1>6. kernel = <<>> /\ unsent = <<>>
  BY <1>1, <1>5, Sees
<1> QED BY <1>3, <1>6

-----------------------------------------------------------------------------
(* The client, the network and the buffer. *)

LEMMA DeliverStream ==
  ASSUME Types2, NEW k \in Kinds, NEW preamble \in Preambles,
         NEW base \in 0 .. Size(k, preamble), Stream(k, preamble, base),
         NetworkDelivers
  PROVE  Stream(k, preamble, base)'
<1> DEFINE text == Pieces(k, preamble)
           e == base + Len(buffer) + Len(kernel)
<1>1. PICK n \in 1 .. Len(unsent) :
        /\ n < Len(unsent) => <<unsent[n].what, unsent[n + 1].what>> \in Cuts
        /\ kernel' = kernel \o SubSeq(unsent, 1, n)
        /\ unsent' = SubSeq(unsent, n + 1, Len(unsent))
  BY DEF NetworkDelivers
<1>2. /\ UNCHANGED <<place, buffer, processed, state, request>>
      /\ unsent \in Seq(AllPieces) /\ kernel \in Seq(AllPieces)
      /\ Len(buffer) \in Nat /\ Len(kernel) \in Nat /\ Len(unsent) \in Nat
      /\ base \in Nat /\ e \in Nat
  <2>1. Size(k, preamble) \in Nat
    BY TextHead
  <2>2. /\ unsent \in Seq(AllPieces) /\ kernel \in Seq(AllPieces)
        /\ buffer \in Seq(AllPieces)
    BY DEF Types2, ClientTypes, ParseTypes
  <2>3. UNCHANGED <<place, buffer, processed, state, request>>
    BY DEF NetworkDelivers, parseVars
  <2>4. Len(buffer) \in Nat /\ Len(kernel) \in Nat /\ Len(unsent) \in Nat /\ base \in Nat
    BY <2>1, <2>2
  <2> QED BY <2>2, <2>3, <2>4
<1>3. /\ e + Len(unsent) = Len(text)
      /\ \A i \in 1 .. Len(kernel) : kernel[i] = text[base + Len(buffer) + i]
      /\ \A i \in 1 .. Len(unsent) : unsent[i] = text[e + i]
      /\ CutAt(text, base + Len(buffer))
      /\ \A i \in 1 .. Len(buffer) : buffer[i] = text[base + i]
  BY DEF Stream, Fits
<1> DEFINE came == SubSeq(unsent, 1, n)
<1>4. /\ came \in Seq(AllPieces) /\ Len(came) = n
      /\ \A i \in 1 .. n : came[i] = unsent[i]
  <2>1. \A i \in 1 .. n : unsent[i] \in AllPieces
    BY <1>2
  <2> QED BY <2>1, SubSeqProperties
<1> HIDE DEF came
<1>5. /\ Len(kernel') = Len(kernel) + n
      /\ \A i \in 1 .. Len(kernel) : kernel'[i] = kernel[i]
      /\ \A i \in 1 .. n : kernel'[Len(kernel) + i] = unsent[i]
  <2>1. kernel' = kernel \o came
    BY <1>1 DEF came
  <2>2. /\ Len(kernel \o came) = Len(kernel) + Len(came)
        /\ \A i \in 1 .. Len(kernel) : (kernel \o came)[i] = kernel[i]
        /\ \A i \in 1 .. Len(came) : (kernel \o came)[Len(kernel) + i] = came[i]
    <3>1. kernel \in Seq(AllPieces) /\ came \in Seq(AllPieces)
      BY <1>2, <1>4
    <3> QED BY <3>1, Joined
  <2> QED BY <1>4, <2>1, <2>2
<1>6. /\ Len(unsent') = Len(unsent) - n
      /\ \A i \in 1 .. Len(unsent) - n : unsent'[i] = unsent[n + i]
  <2> DEFINE m == n + 1
  <2>1. m \in Int /\ Len(unsent) \in Int /\ \A i \in m .. Len(unsent) : unsent[i] \in AllPieces
    BY <1>2
  <2>2. unsent' = SubSeq(unsent, m, Len(unsent))
    BY <1>1
  <2>3. /\ Len(unsent) - m + 1 = Len(unsent) - n
        /\ (IF m <= Len(unsent) THEN Len(unsent) - m + 1 ELSE 0) = Len(unsent) - n
        /\ \A i \in 1 .. Len(unsent) - n : m + i - 1 = n + i
    BY <1>2
  <2> HIDE DEF m
  <2>4. /\ Len(unsent') = IF m <= Len(unsent) THEN Len(unsent) - m + 1 ELSE 0
        /\ \A i \in 1 .. Len(unsent) - m + 1 : unsent'[i] = unsent[m + i - 1]
    BY <2>1, <2>2, SubSeqProperties
  <2> QED BY <2>3, <2>4
<1>7. n \in Nat /\ n <= Len(unsent)
  BY <1>2
<1>8. base + Len(buffer) + Len(kernel') = e + n
  BY <1>2, <1>5, <1>7
<1>9. e + n + Len(unsent') = Len(text)
  <2>1. e + Len(unsent) = Len(text) /\ Len(unsent') = Len(unsent) - n
    BY <1>3, <1>6
  <2> HIDE DEF e, text
  <2> QED BY <1>2, <1>7, <2>1
<1>10. \A i \in 1 .. Len(kernel') : kernel'[i] = text[base + Len(buffer) + i]
  <2> TAKE i \in 1 .. Len(kernel')
  <2>1. CASE i \in 1 .. Len(kernel)
    BY <1>3, <1>5, <2>1
  <2>2. CASE ~ i \in 1 .. Len(kernel)
    <3>1. PICK j \in 1 .. n : i = Len(kernel) + j
      <4>1. i - Len(kernel) \in 1 .. n /\ i = Len(kernel) + (i - Len(kernel))
        BY <1>2, <1>5, <1>7, <2>2
      <4> QED BY <4>1
    <3>2. j \in 1 .. Len(unsent) /\ e + j = base + Len(buffer) + i
      BY <1>2, <1>7, <3>1
    <3> QED BY <1>3, <1>5, <3>1, <3>2
  <2> QED BY <2>1, <2>2
<1>11. \A i \in 1 .. Len(unsent') : unsent'[i] = text[e + n + i]
  <2> TAKE i \in 1 .. Len(unsent')
  <2>1. n + i \in 1 .. Len(unsent) /\ e + (n + i) = e + n + i /\ i \in 1 .. Len(unsent) - n
    BY <1>2, <1>6, <1>7
  <2>2. unsent[n + i] = text[e + (n + i)]
    BY <1>3, <2>1
  <2> QED BY <1>6, <2>1, <2>2
<1>12. CutAt(text, e + n)
  <2> SUFFICES ASSUME e + n \in 1 .. Len(text) - 1
               PROVE  <<text[e + n].what, text[e + n + 1].what>> \in Cuts
    BY DEF CutAt
  <2>1. n < Len(unsent)
    BY <1>2, <1>3, <1>7
  <2>2. n + 1 \in 1 .. Len(unsent) /\ e + (n + 1) = e + n + 1
    BY <1>2, <1>7, <2>1
  <2>3. unsent[n] = text[e + n] /\ unsent[n + 1] = text[e + (n + 1)]
    BY <1>3, <2>2
  <2> QED BY <1>1, <2>1, <2>2, <2>3
<1>13. Fits(text, base)'
  <2>1. \A i \in 1 .. Len(unsent') : unsent'[i] = text[base + Len(buffer') + Len(kernel') + i]
    BY <1>2, <1>8, <1>11
  <2>2. base + Len(buffer') + Len(kernel') + Len(unsent') = Len(text)
    BY <1>2, <1>8, <1>9
  <2>3. CutAt(text, base + Len(buffer') + Len(kernel'))
    BY <1>2, <1>8, <1>12
  <2> HIDE DEF text, e
  <2> QED BY <1>2, <1>3, <1>10, <2>1, <2>2, <2>3 DEF Fits, CutAt
<1> QED BY <1>2, <1>13 DEF Stream, Parsed

\* The handler reads what there is and parses it from the start of the buffer.
LEMMA ReceiveStream ==
  ASSUME Types2, NEW k \in Kinds, NEW preamble \in Preambles,
         NEW base \in 0 .. Size(k, preamble), Stream(k, preamble, base),
         Receive, ~ gone
  PROVE  Stream(k, preamble, base)'
<1> DEFINE text == Pieces(k, preamble)
           e == base + Len(buffer)
<1>1. /\ place = "in" /\ place' = "parse"
      /\ buffer' = buffer \o kernel /\ kernel' = <<>> /\ processed' = 0
      /\ UNCHANGED <<unsent, state, request>>
  BY DEF Receive, clientVars
<1>2. /\ buffer \in Seq(AllPieces) /\ kernel \in Seq(AllPieces)
      /\ Len(buffer) \in Nat /\ Len(kernel) \in Nat /\ Len(unsent) \in Nat
      /\ base \in Nat
  <2>1. Size(k, preamble) \in Nat
    BY TextHead
  <2> QED BY <2>1 DEF Types2, ClientTypes, ParseTypes
<1>3. /\ Len(buffer') = Len(buffer) + Len(kernel) /\ Len(kernel') = 0
      /\ \A i \in 1 .. Len(buffer) : buffer'[i] = buffer[i]
      /\ \A i \in 1 .. Len(kernel) : buffer'[Len(buffer) + i] = kernel[i]
  <2>1. /\ Len(buffer \o kernel) = Len(buffer) + Len(kernel)
        /\ \A i \in 1 .. Len(buffer) : (buffer \o kernel)[i] = buffer[i]
        /\ \A i \in 1 .. Len(kernel) : (buffer \o kernel)[Len(buffer) + i] = kernel[i]
    BY <1>2, Joined
  <2> QED BY <1>1, <2>1
<1>4. Fits(text, base) /\ Parsed(k, Len(preamble), base)
  BY <1>1 DEF Stream
<1>5. \A i \in 1 .. Len(buffer') : buffer'[i] = text[base + i]
  <2> TAKE i \in 1 .. Len(buffer')
  <2>1. CASE i \in 1 .. Len(buffer)
    BY <1>3, <1>4, <2>1 DEF Fits
  <2>2. CASE ~ i \in 1 .. Len(buffer)
    <3>1. PICK j \in 1 .. Len(kernel) : i = Len(buffer) + j
      <4>1. i - Len(buffer) \in 1 .. Len(kernel) /\ i = Len(buffer) + (i - Len(buffer))
        BY <1>2, <1>3, <2>2
      <4> QED BY <4>1
    <3>2. base + Len(buffer) + j = base + i
      BY <1>2, <3>1
    <3>3. kernel[j] = text[base + Len(buffer) + j]
      BY <1>4 DEF Fits
    <3> QED BY <1>3, <3>1, <3>2, <3>3
  <2> QED BY <2>1, <2>2
<1>6. /\ base + Len(buffer') = base + Len(buffer) + Len(kernel)
      /\ base + Len(buffer') + Len(kernel') = base + Len(buffer) + Len(kernel)
  BY <1>2, <1>3
<1>7. Fits(text, base)'
  <2> HIDE DEF text
  <2>1. /\ base + Len(buffer) + Len(kernel) + Len(unsent) = Len(text)
        /\ \A i \in 1 .. Len(unsent) :
             unsent[i] = text[base + Len(buffer) + Len(kernel) + i]
        /\ CutAt(text, base + Len(buffer) + Len(kernel))
    BY <1>4 DEF Fits
  <2>2. \A i \in 1 .. Len(kernel') : FALSE
    BY <1>3
  <2> QED BY <1>1, <1>5, <1>6, <2>1, <2>2 DEF Fits, CutAt
<1>8. Parsed(k, Len(preamble), base + processed)'
  <2>1. base + processed' = base
    BY <1>1, <1>2
  <2> QED BY <1>1, <1>4, <2>1 DEF Parsed
<1>9. processed' <= Len(buffer')
  BY <1>1, <1>2, <1>3
<1> QED BY <1>1, <1>7, <1>8, <1>9 DEF Stream

\* A request that the client begins to send.
LEMMA AskStream ==
  ASSUME Types2, Waiting, ClientAsks
  PROVE  Asking'
<1>1. PICK k \in Kinds, preamble \in Preambles :
        asked' = Append(asked, k) /\ unsent' = Pieces(k, preamble)
  BY DEF ClientAsks, Preambles
<1>2. /\ UNCHANGED <<place, buffer, kernel, processed, state, request, answers>>
      /\ place = "in" /\ buffer = <<>> /\ kernel = <<>>
      /\ state = "REQUEST_LINE" /\ request = NoRequest
      /\ Len(asked) = Len(answers) /\ asked \in Seq(Kinds)
  BY DEF ClientAsks, parseVars, writeVars, Waiting, Types2, ClientTypes
<1>3. Len(asked') = Len(answers') + 1 /\ asked'[Len(asked')] = k
  BY <1>1, <1>2
<1> DEFINE text == Pieces(k, preamble)
<1>4. Len(text) \in Nat
  BY TextHead DEF Size
<1>5. Len(buffer') = 0 /\ Len(kernel') = 0
  BY <1>2
<1>6. Fits(text, 0)'
  <2> HIDE DEF text
  <2>1. 0 + Len(buffer') + Len(kernel') + Len(unsent') = Len(text)
    BY <1>1, <1>4, <1>5 DEF text
  <2>2. \A i \in 1 .. Len(unsent') : unsent'[i] = text[0 + Len(buffer') + Len(kernel') + i]
    <3> TAKE i \in 1 .. Len(unsent')
    <3>1. 0 + Len(buffer') + Len(kernel') + i = i
      BY <1>5
    <3> QED BY <1>1, <3>1 DEF text
  <2>3. 0 + Len(buffer') = 0 /\ 0 + Len(buffer') + Len(kernel') = 0
    BY <1>5
  <2>4. CutAt(text, 0)
    BY DEF CutAt
  <2>5. \A i \in 1 .. 0 : FALSE
    OBVIOUS
  <2> QED BY <1>5, <2>1, <2>2, <2>3, <2>4, <2>5 DEF Fits, CutAt
<1>7. Stream(k, preamble, 0)'
  BY <1>2, <1>6 DEF Stream, Parsed
<1>8. 0 \in 0 .. Len(Pieces(k, preamble))
  BY <1>4
<1>9. Last' = k
  BY <1>3 DEF Last
<1> QED BY <1>3, <1>7, <1>8, <1>9 DEF Asking

-----------------------------------------------------------------------------
(* Requests and their answers. *)

StreamVars == <<asked, answers, place, buffer, kernel, unsent, processed, state,
                request, code>>

LEMMA SamePhase ==
  ASSUME StreamInv, Types2', UNCHANGED StreamVars
  PROVE  StreamInv'
<1>1. UNCHANGED <<asked, answers, place, buffer, kernel, unsent, processed, state,
                  request, code>>
  BY DEF StreamVars
<1>2. RightAnswers'
  BY <1>1 DEF StreamInv, RightAnswers
<1>3. CASE Waiting
  BY <1>1, <1>2, <1>3 DEF StreamInv, Waiting
<1>4. CASE Asking
  <2>1. PICK k : k = Last
    OBVIOUS
  <2>2. PICK preamble \in Preambles : \E base \in 0 .. Len(Pieces(k, preamble)) :
          Stream(k, preamble, base)
    BY <1>4, <2>1 DEF Asking
  <2>3. PICK base \in 0 .. Len(Pieces(k, preamble)) : Stream(k, preamble, base)
    BY <2>2
  <2> DEFINE a == Len(preamble)
             p == base + processed
             text == Pieces(k, preamble)
  <2>4. Fits(text, base)'
    <3> HIDE DEF text
    <3> QED BY <1>1, <2>3 DEF Stream, Fits, text
  <2>5. Last' = k
    BY <1>1, <2>1 DEF Last
  <2>6. ASSUME NEW q, Parsed(k, a, q)
        PROVE  Parsed(k, a, q)'
    <3> HIDE DEF a
    <3> QED BY <1>1, <2>6 DEF Parsed
  <2>7. Stream(k, preamble, base)'
    <3>1. CASE place = "in"
      BY <1>1, <2>3, <2>4, <2>6, <3>1 DEF Stream
    <3>2. CASE place = "parse"
      <4>1. Parsed(k, a, p)
        BY <2>3, <3>2 DEF Stream
      <4>2. PICK q : q = p
        OBVIOUS
      <4>3. Parsed(k, a, q)' /\ p' = q
        BY <1>1, <2>6, <4>1, <4>2
      <4> QED BY <1>1, <2>3, <2>4, <3>2, <4>3 DEF Stream
    <3> QED BY <2>3, <3>1, <3>2 DEF Stream
  <2>8. Len(asked') = Len(answers') + 1
    BY <1>1, <1>4 DEF Asking
  <2>9. Asking'
    BY <2>5, <2>7, <2>8 DEF Asking
  <2> QED BY <1>2, <2>9 DEF StreamInv
<1>5. CASE Answering
  <2>1. Answering'
    BY <1>1, <1>5 DEF Answering, Last
  <2> QED BY <1>2, <2>1 DEF StreamInv
<1>6. CASE Over
  BY <1>1, <1>2, <1>6 DEF StreamInv, Over
<1> QED BY <1>3, <1>4, <1>5, <1>6 DEF StreamInv

\* Only who has been upgraded, or was, has been told 101.
LEMMA SameAnswers ==
  ASSUME RightAnswers, UNCHANGED <<asked, answers>>,
         place \notin {"upgraded", "pooled"}, place' # "upgraded"
  PROVE  RightAnswers'
  BY DEF RightAnswers

\* A request that is being parsed is the last one.
LEMMA InParse ==
  ASSUME StreamInv, place = "parse"
  PROVE  /\ Last \in Kinds /\ Len(asked) = Len(answers) + 1
         /\ \E preamble \in Preambles : \E base \in 0 .. Size(Last, preamble) :
              Stream(Last, preamble, base)
<1>1. Asking
  BY DEF StreamInv, Waiting, Answering, Over
<1>2. asked \in Seq(Kinds) /\ Len(answers) \in Nat /\ Len(asked) = Len(answers) + 1
  BY <1>1 DEF Asking, StreamInv, Types2, ClientTypes, WriteTypes
<1>3. Len(asked) \in 1 .. Len(asked)
  BY <1>2
<1>4. Last \in Kinds
  BY <1>2, <1>3, ElementOfSeq DEF Last
<1> QED BY <1>1, <1>2, <1>4 DEF Asking, Size

\* A step of the parser goes on with the same request.
LEMMA ParseGoesOn ==
  ASSUME Served, StreamInv, Types2', place = "parse",
         RequestLine \/ HeaderLine \/ EmptyLine \/ LineIncomplete \/ BodyBytes
           \/ BufferIncomplete \/ BoundaryMissing \/ BoundaryFound \/ PartHeaders
           \/ PartHeadersIncomplete \/ PartData \/ PartDataIncomplete
  PROVE  StreamInv'
<1>1. Types2 /\ RightAnswers
  BY DEF StreamInv
<1>2. UNCHANGED <<asked, answers>> /\ place' \in {"parse", "in"}
  BY DEF RequestLine, HeaderLine, EmptyLine, LineIncomplete, BodyBytes, BufferIncomplete,
         BoundaryMissing, BoundaryFound, PartHeaders, PartHeadersIncomplete, PartData,
         PartDataIncomplete, clientVars, writeVars
<1>3. RightAnswers'
  BY <1>1, <1>2, SameAnswers
<1>4. PICK preamble \in Preambles : \E base \in 0 .. Size(Last, preamble) :
        Stream(Last, preamble, base)
  BY InParse
<1>5. PICK base \in 0 .. Size(Last, preamble) : Stream(Last, preamble, base)
  BY <1>4
<1>6. PICK k \in Kinds : k = Last
  BY InParse
<1>7. Stream(k, preamble, base) /\ base \in 0 .. Size(k, preamble)
  BY <1>5, <1>6
<1>8. \E b \in 0 .. Size(k, preamble) : Stream(k, preamble, b)'
  <2>1. CASE RequestLine
    BY <1>1, <1>7, <2>1, RequestLineStream
  <2>2. CASE HeaderLine
    BY <1>1, <1>7, <2>2, HeaderLineStream
  <2>3. CASE EmptyLine
    BY <1>1, <1>7, <2>3, EmptyLineStream
  <2>4. CASE LineIncomplete
    BY <1>1, <1>7, <2>4, LineIncompleteStream
  <2>5. CASE BodyBytes
    BY <1>1, <1>7, <2>5, BodyBytesStream
  <2>6. CASE BufferIncomplete \/ PartHeadersIncomplete
    BY <1>1, <1>7, <2>6, BufferIncompleteStream
  <2>7. CASE BoundaryMissing
    BY <1>1, <1>7, <2>7, BoundaryMissingStream
  <2>8. CASE BoundaryFound
    BY <1>1, <1>7, <2>8, BoundaryFoundStream
  <2>9. CASE PartHeaders
    BY <1>1, <1>7, <2>9, PartHeadersStream
  <2>10. CASE PartData
    BY <1>1, <1>7, <2>10, PartDataStream
  <2>11. CASE PartDataIncomplete
    BY <1>1, <1>7, <2>11, PartDataIncompleteStream
  <2> QED BY <2>1, <2>2, <2>3, <2>4, <2>5, <2>6, <2>7, <2>8, <2>9, <2>10, <2>11
<1>9. Last' = k
  BY <1>2, <1>6 DEF Last
<1>10. Len(asked') = Len(answers') + 1
  BY <1>2, InParse
<1>11. Asking'
  BY <1>8, <1>9, <1>10 DEF Asking, Size
<1> QED BY <1>3, <1>11 DEF StreamInv

\* A response is begun with the right status.
LEMMA AnswerBegins ==
  ASSUME Served, StreamInv, Types2', ParseError \/ BoundaryError \/ Complete
  PROVE  StreamInv'
<1>1. Types2 /\ RightAnswers /\ place = "parse"
  BY DEF StreamInv, ParseError, BoundaryError, Complete, InLines, InPart
<1>2. /\ UNCHANGED <<asked, answers, kernel, unsent, state, request>> /\ place' = "out"
  BY DEF ParseError, BoundaryError, Complete, PrepareResponse, clientVars, parseVars
<1>3. RightAnswers'
  BY <1>1, <1>2, SameAnswers
<1>4. PICK preamble \in Preambles : \E base \in 0 .. Size(Last, preamble) :
        Stream(Last, preamble, base)
  BY <1>1, InParse
<1>5. PICK base \in 0 .. Size(Last, preamble) : Stream(Last, preamble, base)
  BY <1>4
<1>6. PICK k \in Kinds : k = Last
  BY <1>1, InParse
<1>7. Stream(k, preamble, base) /\ base \in 0 .. Size(k, preamble)
  BY <1>5, <1>6
<1>8. Last' = k /\ Len(asked') = Len(answers') + 1
  <2>1. Len(asked) = Len(answers) + 1
    BY <1>1, InParse
  <2> QED BY <1>2, <1>6, <2>1 DEF Last
<1>9. Answering'
  <2>1. CASE ParseError
    <3>1. k.bad /\ state # "DONE" /\ ~ request.kind.keep
      BY <1>1, <1>7, <2>1, ParseErrorRight
    <3>2. code' = 400
      BY <2>1 DEF ParseError, PrepareResponse, ByPath
    <3> QED BY <1>2, <1>8, <3>1, <3>2 DEF Answering
  <2>2. CASE BoundaryError
    <3>1. k.bad /\ state # "DONE" /\ kernel = <<>> /\ unsent = <<>>
      BY <1>1, <1>7, <2>2, BoundaryErrorRight
    <3>2. code' = 400
      BY <2>2 DEF BoundaryError, PrepareResponse, ByPath
    <3> QED BY <1>2, <1>8, <3>1, <3>2 DEF Answering
  <2>3. CASE Complete
    <3>1. /\ ~ k.bad /\ request.kind = k /\ request.body = k.len
          /\ kernel = <<>> /\ unsent = <<>>
      BY <1>1, <1>7, <2>3, CompleteRight
    <3>2. code' \in Outcomes(k.type) /\ state = "DONE"
      BY <2>3, <3>1 DEF Complete, PrepareResponse, ByPath, Outcomes
    <3> QED BY <1>2, <1>8, <3>1, <3>2 DEF Answering
  <2> QED BY <2>1, <2>2, <2>3
<1> QED BY <1>3, <1>9 DEF StreamInv

LEMMA ClientGoesOn ==
  ASSUME Served, StreamInv, Types2',
         ClientAsks \/ ClientCloses \/ NetworkDelivers \/ HangUp \/ Receive
  PROVE  StreamInv'
<1>1. Types2 /\ RightAnswers
  BY DEF StreamInv
<1>2. /\ asked \in Seq(Kinds) /\ Len(asked) \in Nat
      /\ answers \in Seq(Codes) /\ Len(answers) \in Nat
  BY <1>1 DEF Types2, ClientTypes, WriteTypes
<1>3. ASSUME Asking
      PROVE  Last \in Kinds
  <2>1. Len(asked) \in 1 .. Len(asked)
    BY <1>2, <1>3 DEF Asking
  <2> QED BY <1>2, <2>1, ElementOfSeq DEF Last
<1>4. CASE ClientAsks
  <2>1. Len(answers) = Len(asked) /\ UNCHANGED <<answers, place>>
    BY <1>4 DEF ClientAsks, Served, writeVars
  <2>2. PICK k \in Kinds : asked' = Append(asked, k)
    BY <1>4 DEF ClientAsks
  <2>3. RightAnswers'
    <3>1. Len(asked') = Len(asked) + 1 /\ \A i \in 1 .. Len(asked) : asked'[i] = asked[i]
      BY <1>2, <2>2
    <3>2. \A i \in 1 .. Len(answers) : asked'[i] = asked[i]
      BY <2>1, <3>1
    <3>3. Len(answers') <= Len(asked')
      BY <1>2, <2>1, <3>1
    <3> QED BY <1>1, <2>1, <3>2, <3>3 DEF RightAnswers
  <2>4. CASE Waiting
    BY <1>1, <1>4, <2>3, <2>4, AskStream DEF StreamInv
  <2>5. CASE Over
    BY <2>1, <2>3, <2>5 DEF Over, StreamInv
  <2>6. ~ Asking /\ ~ Answering
    BY <1>2, <2>1 DEF Asking, Answering
  <2> QED BY <2>4, <2>5, <2>6 DEF StreamInv
<1>5. CASE ClientCloses
  <2>1. UNCHANGED StreamVars
    BY <1>5 DEF ClientCloses, StreamVars, parseVars, writeVars
  <2> QED BY <2>1, SamePhase
<1>6. CASE NetworkDelivers
  <2>1. UNCHANGED <<asked, answers, place, state, request, code>> /\ unsent # <<>>
    BY <1>6 DEF NetworkDelivers, parseVars, writeVars
  <2>2. RightAnswers'
    BY <1>1, <2>1 DEF RightAnswers
  <2>3. ~ Waiting
    BY <2>1 DEF Waiting
  <2>4. CASE Asking
    <3>1. PICK preamble \in Preambles : \E base \in 0 .. Size(Last, preamble) :
            Stream(Last, preamble, base)
      BY <2>4 DEF Asking, Size
    <3>2. PICK base \in 0 .. Size(Last, preamble) : Stream(Last, preamble, base)
      BY <3>1
    <3>3. PICK k \in Kinds : k = Last
      BY <1>3, <2>4
    <3>4. base \in 0 .. Size(k, preamble) /\ Stream(k, preamble, base)'
      BY <1>1, <1>6, <3>2, <3>3, DeliverStream
    <3>5. Asking'
      BY <2>1, <2>4, <3>3, <3>4 DEF Asking, Size, Last
    <3> QED BY <2>2, <3>5 DEF StreamInv
  <2>5. CASE Answering
    <3>1. Answering'
      BY <2>1, <2>5 DEF Answering, Last
    <3> QED BY <2>2, <3>1 DEF StreamInv
  <2>6. CASE Over
    BY <2>1, <2>2, <2>6 DEF Over, StreamInv
  <2> QED BY <2>3, <2>4, <2>5, <2>6 DEF StreamInv
<1>7. CASE HangUp
  <2>1. UNCHANGED <<asked, answers>> /\ place \in {"in", "out"} /\ place' = "closed"
    BY <1>7 DEF HangUp, clientVars, writeVars
  <2>2. RightAnswers'
    BY <1>1, <2>1, SameAnswers
  <2> QED BY <2>1, <2>2 DEF Over, StreamInv
<1>8. CASE Receive
  <2>1. /\ UNCHANGED <<asked, answers>> /\ place = "in" /\ kernel # <<>>
        /\ place' = IF gone THEN "closed" ELSE "parse"
    BY <1>8 DEF Receive, clientVars, writeVars
  <2>2. RightAnswers'
    BY <1>1, <2>1, SameAnswers
  <2>3. CASE gone
    BY <2>1, <2>2, <2>3 DEF Over, StreamInv
  <2>4. CASE ~ gone
    <3>0. Asking
      BY <2>1 DEF StreamInv, Waiting, Answering, Over
    <3>1. PICK preamble \in Preambles : \E base \in 0 .. Size(Last, preamble) :
            Stream(Last, preamble, base)
      BY <3>0 DEF Asking, Size
    <3>2. PICK base \in 0 .. Size(Last, preamble) : Stream(Last, preamble, base)
      BY <3>1
    <3>3. PICK k \in Kinds : k = Last
      BY <1>3, <3>0
    <3>4. base \in 0 .. Size(k, preamble) /\ Stream(k, preamble, base)'
      BY <1>1, <1>8, <2>4, <3>2, <3>3, ReceiveStream
    <3>5. Asking'
      BY <2>1, <3>0, <3>3, <3>4 DEF Asking, Size, Last
    <3> QED BY <2>2, <3>5 DEF StreamInv
  <2> QED BY <2>3, <2>4
<1> QED BY <1>4, <1>5, <1>6, <1>7, <1>8

\* A response that is sent in full is the right one, and the connection does
\* after it what the client was told.
LEMMA DoneGoesOn ==
  ASSUME Served, StreamInv, Types2', WriteDone
  PROVE  StreamInv'
<1>1. /\ Types2 /\ RightAnswers /\ place = "write"
      /\ answers' = Append(answers, code) /\ UNCHANGED clientVars /\ UNCHANGED kernel
  BY DEF StreamInv, WriteDone
<1>2. Answering
  BY <1>1 DEF StreamInv, Waiting, Asking, Stream, Over
<1>3. /\ asked \in Seq(Kinds) /\ Len(asked) \in Nat /\ asked' = asked
      /\ answers \in Seq(Codes) /\ Len(answers) \in Nat /\ code \in Codes
      /\ Len(asked) = Len(answers) + 1
  BY <1>1, <1>2 DEF Types2, ClientTypes, WriteTypes, clientVars, Answering
<1>4. PICK k \in Kinds : k = Last
  <2>1. Len(asked) \in 1 .. Len(asked)
    BY <1>3
  <2> QED BY <1>3, <2>1, ElementOfSeq DEF Last
<1>5. k.type \in Types /\ k.type # "misplaced" /\ (k.type = "upgrade" => ~ k.keep)
  BY <1>4 DEF Served
<1>6. (code = 400) = k.bad
  <2>1. k.bad \in BOOLEAN
    BY <1>4
  <2>2. k.bad => code = 400
    BY <1>2, <1>4 DEF Answering
  <2>3. ~ k.bad => code # 400
    BY <1>2, <1>4 DEF Answering, Outcomes, Statuses
  <2> QED BY <2>1, <2>2, <2>3
<1>7. code = 101 => place' = "upgraded"
  <2> SUFFICES ASSUME code = 101 PROVE place' = "upgraded"
    OBVIOUS
  <2>1. ~ k.bad
    BY <1>2, <1>4 DEF Answering
  <2>2. state = "DONE" /\ request.kind = k /\ 101 \in Outcomes(k.type)
    BY <1>2, <1>4, <2>1 DEF Answering
  <2>3. k.type = "upgrade" /\ ~ k.keep
    BY <1>5, <2>2 DEF Outcomes, Statuses
  <2> QED BY <2>2, <2>3 DEF WriteDone, IsWebSocket
<1>8. place' = "upgraded" => code = 101
  <2> SUFFICES ASSUME place' = "upgraded" PROVE code = 101
    OBVIOUS
  <2>1. ~ request.kind.keep /\ IsWebSocket
    BY DEF WriteDone
  <2>2. ~ k.bad /\ request.kind = k /\ code \in Outcomes(k.type)
    BY <1>2, <1>4, <2>1 DEF Answering, IsWebSocket
  <2>3. k.type = "upgrade"
    BY <1>5, <2>1, <2>2 DEF IsWebSocket
  <2> QED BY <2>2, <2>3 DEF Outcomes, Statuses
<1>9. /\ Len(answers') = Len(answers) + 1
      /\ answers'[Len(answers) + 1] = code
      /\ \A i \in 1 .. Len(answers) : answers'[i] = answers[i]
  BY <1>1, <1>3
<1>10. RightAnswers'
  <2>1. Len(answers') <= Len(asked')
    BY <1>3, <1>9
  <2>2. ASSUME NEW i \in 1 .. Len(answers')
        PROVE  /\ (answers'[i] = 400) = asked[i].bad
               /\ answers'[i] = 101 =>
                    i = Len(answers') /\ place' \in {"upgraded", "pooled"}
    <3>1. CASE i \in 1 .. Len(answers)
      <4>1. answers'[i] = answers[i]
        BY <1>9, <3>1
      <4>2. (answers[i] = 400) = asked[i].bad /\ answers[i] # 101
        BY <1>1, <3>1 DEF RightAnswers
      <4> QED BY <4>1, <4>2
    <3>2. CASE i = Len(answers) + 1
      <4>1. answers'[i] = code /\ asked[i] = k /\ i = Len(answers')
        BY <1>3, <1>4, <1>9, <3>2 DEF Last
      <4> QED BY <1>6, <1>7, <4>1
    <3> QED BY <1>3, <1>9, <3>1, <3>2
  <2>3. place' = "upgraded" => answers' # <<>> /\ answers'[Len(answers')] = 101
    <3>1. answers' # <<>>
      BY <1>3, <1>9
    <3> QED BY <1>8, <1>9, <3>1
  <2> QED BY <1>3, <2>1, <2>2, <2>3 DEF RightAnswers
<1>11. CASE request.kind.keep
  <2>1. /\ place' = "in" /\ buffer' = <<>> /\ state' = "REQUEST_LINE"
        /\ request' = NoRequest
    BY <1>11 DEF WriteDone, Reset, ResetParser
  <2>2. kernel' = <<>> /\ unsent' = <<>>
    BY <1>1, <1>2, <1>11 DEF Answering, clientVars
  <2>3. Len(asked') = Len(answers')
    BY <1>3, <1>9
  <2> QED BY <1>10, <2>1, <2>2, <2>3 DEF Waiting, StreamInv
<1>12. CASE ~ request.kind.keep
  <2>1. place' \in {"upgraded", "closed"}
    BY <1>12 DEF WriteDone
  <2> QED BY <1>10, <2>1 DEF Over, StreamInv
<1> QED BY <1>11, <1>12

\* What is sent of a response, and the pool, leave no request halfway.
LEMMA WriteGoesOn ==
  ASSUME StreamInv, Types2', Writable \/ WriteSome \/ WriteAgain \/ Release \/ Acquire
  PROVE  StreamInv'
<1>1. Types2 /\ RightAnswers
  BY DEF StreamInv
<1>2. CASE Writable \/ WriteSome \/ WriteAgain
  <2>1. /\ UNCHANGED <<asked, answers, kernel, unsent, state, request, code>>
        /\ place \in {"out", "write"} /\ place' \in {"out", "write", "closed"}
    BY <1>2 DEF Writable, WriteSome, WriteAgain, clientVars, parseVars, writeVars
  <2>2. RightAnswers'
    BY <1>1, <2>1, SameAnswers
  <2>3. Answering
    BY <2>1 DEF StreamInv, Waiting, Asking, Stream, Over
  <2>4. CASE place' = "closed"
    BY <2>2, <2>4 DEF Over, StreamInv
  <2>5. CASE place' \in {"out", "write"}
    <3>1. Answering'
      BY <2>1, <2>3, <2>5 DEF Answering, Last
    <3> QED BY <2>2, <3>1 DEF StreamInv
  <2> QED BY <2>1, <2>4, <2>5
<1>3. CASE Release
  <2>1. UNCHANGED <<asked, answers>> /\ place' = "pooled"
    BY <1>3 DEF Release, clientVars
  <2>2. RightAnswers'
    BY <1>1, <2>1 DEF RightAnswers
  <2> QED BY <2>1, <2>2 DEF Over, StreamInv
<1>4. CASE Acquire
  <2>1. /\ asked' = <<>> /\ answers' = <<>> /\ place' = "in" /\ unsent' = <<>>
        /\ kernel' = <<>> /\ buffer' = <<>> /\ state' = "REQUEST_LINE"
        /\ request' = NoRequest
    BY <1>4 DEF Acquire, Reset, ResetParser
  <2>2. RightAnswers'
    BY <2>1 DEF RightAnswers
  <2>3. Waiting'
    BY <2>1 DEF Waiting
  <2> QED BY <2>2, <2>3 DEF StreamInv
<1> QED BY <1>2, <1>3, <1>4

LEMMA InitStream == Init => StreamInv
<1> SUFFICES ASSUME Init PROVE StreamInv
  OBVIOUS
<1>1. Types2
  BY InitTypes, TypesParts
<1>2. RightAnswers
  BY DEF Init, RightAnswers
<1>3. Waiting
  BY DEF Init, Waiting
<1> QED BY <1>1, <1>2, <1>3 DEF StreamInv

LEMMA StreamStep ==
  ASSUME Served
  PROVE  StreamInv /\ [Next]_vars => StreamInv'
<1> SUFFICES ASSUME StreamInv, [Next]_vars PROVE StreamInv'
  OBVIOUS
<1>1. Types2'
  BY TypesStep DEF StreamInv
<1>2. CASE Client \/ NetworkDelivers \/ HangUp \/ Receive
  BY <1>1, <1>2, ClientGoesOn DEF Client
<1>3. CASE HandleRead /\ ~ Receive
  <2>1. place = "parse"
    BY <1>3 DEF HandleRead, RequestLine, HeaderLine, EmptyLine, ParseError, LineIncomplete,
           BodyBytes, BufferIncomplete, Complete, BoundaryMissing, BoundaryFound,
           BoundaryError, PartHeaders, PartHeadersIncomplete, PartData,
           PartDataIncomplete, InLines, InBody, InPart
  <2>2. CASE ParseError \/ BoundaryError \/ Complete
    BY <1>1, <2>1, <2>2, AnswerBegins
  <2>3. CASE RequestLine \/ HeaderLine \/ EmptyLine \/ LineIncomplete \/ BodyBytes
               \/ BufferIncomplete \/ BoundaryMissing \/ BoundaryFound \/ PartHeaders
               \/ PartHeadersIncomplete \/ PartData \/ PartDataIncomplete
    BY <1>1, <2>1, <2>3, ParseGoesOn
  <2> QED BY <1>3, <2>2, <2>3 DEF HandleRead
<1>4. CASE HandleWrite \/ Release \/ Acquire
  BY <1>1, <1>4, DoneGoesOn, WriteGoesOn DEF HandleWrite
<1>5. CASE UNCHANGED vars
  <2>1. UNCHANGED StreamVars
    BY <1>5 DEF vars, clientVars, parseVars, writeVars, StreamVars
  <2> QED BY <1>1, <2>1, SamePhase
<1> QED BY <1>2, <1>3, <1>4, <1>5 DEF Next, HandleRead

\* Of the requests and cuts that the parser gets on with, every response belongs to
\* its request: response i comes when request i is all there, is 400 exactly when
\* that one is wrong, and the connection is upgraded exactly when it was told so.
THEOREM RightAnswersHold ==
  ASSUME Served
  PROVE  Safe => []RightAnswers
<1>1. StreamInv => RightAnswers
  BY DEF StreamInv
<1> QED BY <1>1, InitStream, StreamStep, PTL DEF Safe

\* No handler is run, and no response begun, for a request whose body is not
\* stored as it was sent, to the last byte.
THEOREM NoEarlyAnswerHolds ==
  ASSUME Served
  PROVE  Safe => []NoEarlyAnswer
<1>1. StreamInv => NoEarlyAnswer
  BY DEF StreamInv, Waiting, Asking, Stream, Answering, Over, NoEarlyAnswer
<1> QED BY <1>1, InitStream, StreamStep, PTL DEF Safe
=============================================================================
