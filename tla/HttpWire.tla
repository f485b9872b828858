------------------------------- MODULE HttpWire -------------------------------
(***************************************************************************)
(* The bytes of one connection of the server: a peer writes a request,     *)
(* read_request_and_content of server_http.hpp reads it as its bytes       *)
(* arrive, in any pieces, a program answers and the peer reads the answer. *)
(*                                                                         *)
(* The peer is not in the repository.  It writes its requests as HTTP asks *)
(* and sends the next one after the answer to the last.  Operations,       *)
(* timers and threads are those of module HttpServer.                      *)
(***************************************************************************)
EXTENDS HttpText

CONSTANTS
  Methods, Paths,     \* of the requests
  Queries,            \* fields of query strings
  Headers,            \* fields of the headers of requests
  ResponseHeaders,    \* fields of those of responses
  Contents,
  LengthNames,        \* the ways a peer spells Content-Length
  Malformed,          \* texts of requests that are not of the form
  Ragged,             \* texts with a line without a colon before the end of the
                      \* header, which the server takes for that end
  Statuses,           \* of the responses
  MaxBuffer           \* Config::max_request_streambuf_size

ASSUME MaxBufferAssumption == MaxBuffer \in Nat \ {0}
ASSUME StatusAssumption == Statuses \subseteq ToSet(StatusCode)

VARIABLES
  turn,       \* "peer", "head" or "content" while the server reads one of
              \* them, "program", "peer reads", "too large", "protocol error"
  request,    \* what the peer has sent
  wire,       \* its bytes that have not arrived
  streambuf,  \* the stream buffer of the request
  wanted,     \* bytes of the content still to be read
  seen,       \* the request as the server has parsed it
  response    \* what the program has answered

vars == <<turn, request, wire, streambuf, wanted, seen, response>>

None == [none |-> TRUE]

Init ==
  /\ turn = "peer"
  /\ request = None /\ seen = None /\ response = None
  /\ wire = <<>> /\ streambuf = <<>> /\ wanted = 0

(***************************************************************************)
(* The peer.                                                               *)
(***************************************************************************)

FieldLines(fields) ==
  FlattenSeq([i \in DOMAIN fields |-> fields[i][1] \o <<Colon, SP>> \o fields[i][2] \o EndOfLine])

RequestText(r) ==
  IF ~r.wellFormed THEN r.text
  ELSE r.method \o <<SP>> \o r.path
       \o (IF r.query = <<>> THEN <<>> ELSE <<QuestionMark>> \o create(r.query))
       \o <<SP>> \o HTTP \o <<Slash, 49, 46, 49>> \o EndOfLine
       \o FieldLines(r.header) \o EndOfLine \o r.content

Requests ==
  [wellFormed : {FALSE}, text : Malformed \cup Ragged]
  \cup UNION {[wellFormed : {TRUE}, method : Methods, path : Paths, query : Queries, content : {content},
               header : IF content = <<>> THEN Headers
                        ELSE {Append(h, <<name, DecimalText(Len(content))>>) : h \in Headers, name \in LengthNames}]
              : content \in Contents}

Ask ==
  /\ turn = "peer"
  /\ request' \in Requests
  /\ wire' = RequestText(request')
  /\ streambuf' = <<>>
  /\ turn' = "head"
  /\ UNCHANGED <<wanted, seen, response>>

(***************************************************************************)
(* The reads.                                                              *)
(***************************************************************************)

EndsOfHead == {i \in 4..Len(streambuf) : SubSeq(streambuf, i - 3, i) = EndOfHead}
HeadRead == EndsOfHead # {}
Full == Len(streambuf) = MaxBuffer

\* A byte arrives, or all that the read takes: the buffer has room for no
\* more than MaxBuffer, and a read of a known size takes no more than that.
Arrive ==
  LET room == MaxBuffer - Len(streambuf)
      most == Min({Len(wire), room} \cup (IF turn = "content" THEN {wanted} ELSE {}))
  IN  /\ \/ turn = "head" /\ ~HeadRead
         \/ turn = "content"
      /\ \E n \in {1, most} \cap 1..most :
           /\ wire' = SubSeq(wire, n + 1, Len(wire))
           /\ streambuf' = streambuf \o SubSeq(wire, 1, n)
           /\ wanted' = IF turn = "content" THEN wanted - n ELSE wanted
      /\ UNCHANGED <<turn, request, seen, response>>

\* What has to be read of a content, some of which may have come with the head.
RemainingAll(content_length, num_additional_bytes) == content_length
Remaining(content_length, num_additional_bytes) ==
  IF content_length > num_additional_bytes THEN content_length - num_additional_bytes ELSE 0

\* The handler of async_read_until: what the parser leaves in the buffer stays
\* there, and what has come after the first end of a head counts as content.
ReadHead ==
  LET message == ParseRequest(streambuf)
      lengths == Named(message.header, ContentLength)
      content_length == IF lengths = <<>> THEN 0 ELSE stoull(lengths[1][2])
      bytes_transferred == Min(EndsOfHead)
      num_additional_bytes == Len(streambuf) - bytes_transferred
  IN  /\ turn = "head" /\ (HeadRead \/ Full)
      /\ \/ /\ Full
            /\ turn' = "too large"
            /\ UNCHANGED <<streambuf, wanted, seen>>
         \/ /\ ~Full
            /\ IF ~message.ok \/ content_length = NoNumber
               THEN turn' = "protocol error" /\ UNCHANGED <<streambuf, wanted, seen>>
               ELSE /\ seen' = message
                    /\ streambuf' = message.content
                    /\ wanted' = Remaining(content_length, num_additional_bytes)
                    /\ turn' = IF wanted' > 0 THEN "content" ELSE "program"
      /\ UNCHANGED <<request, wire, response>>

\* The handler of async_read.
ReadContent ==
  /\ turn = "content" /\ (wanted = 0 \/ Full)
  /\ turn' = IF Full THEN "too large" ELSE "program"
  /\ UNCHANGED <<request, wire, streambuf, wanted, seen, response>>

(***************************************************************************)
(* The answer.                                                             *)
(***************************************************************************)

Write(status_code, content, fields, close) ==
  response' = [status_code |-> status_code, content |-> content, header |-> fields, close |-> close,
               text |-> write(status_code, content, fields, close)]

\* The program or, to a request that is too large, the server itself.
Answer ==
  /\ \/ /\ turn = "program"
        /\ \E status_code \in Statuses, content \in Contents, fields \in ResponseHeaders, close \in BOOLEAN :
             Write(status_code, content, fields, close)
     \/ /\ turn = "too large"
        /\ Write(413, <<>>, <<>>, FALSE)
  /\ turn' = "peer reads"
  /\ request' = None /\ seen' = None
  /\ wire' = <<>> /\ streambuf' = <<>> /\ wanted' = 0

\* The peer has read it, or has lost its connection, and asks again.
GoOn ==
  /\ turn \in {"peer reads", "protocol error"}
  /\ turn' = "peer"
  /\ request' = None /\ seen' = None /\ response' = None
  /\ wire' = <<>> /\ streambuf' = <<>> /\ wanted' = 0

Next == Ask \/ Arrive \/ ReadHead \/ ReadContent \/ Answer \/ GoOn

Spec == Init /\ [][Next]_vars

-----------------------------------------------------------------------------
(***************************************************************************)
(* Properties.                                                             *)
(***************************************************************************)

\* The program gets the request the peer sent, however its bytes were cut on
\* the way: method, path, header and exactly the content, whose first bytes may
\* have come with the head; and only what is no request is a protocol error,
\* only one that fills the buffer is too large.
RequestArrives ==
  /\ turn = "program" => (request.wellFormed \/ request.text \in Ragged)
  /\ turn = "program" /\ request.wellFormed =>
       /\ seen.method = request.method /\ seen.path = request.path /\ seen.version = <<49, 46, 49>>
       /\ seen.header = request.header
       /\ streambuf = request.content
  /\ turn = "protocol error" => ~request.wellFormed
  /\ turn = "too large" => Len(RequestText(request)) >= MaxBuffer

\* A query string leads to the fields it was made of (utility.hpp:41, "Returns
\* percent-encoded string", and 99, "Returns query keys with percent-decoded
\* values"), also when they hold signs of the encoding; but not a value in which
\* two bytes of its text follow a percent sign, which encode leaves as it is.
\* All fields come back from a Content-Disposition.
Disposition(fields) ==
  FlattenSeq([i \in DOMAIN fields |->
    (IF i = 1 THEN <<>> ELSE <<Semicolon, SP>>) \o fields[i][1] \o <<Equals, Quote>> \o fields[i][2] \o <<Quote>>])
Decodes(value) ==
  \A i \in DOMAIN value : value[i] = PercentSign => Len(encode(SubSeq(value, i + 1, Len(value)))) < 2
FieldsArrive ==
  turn = "program" /\ request.wellFormed =>
    /\ LET fields == QueryFields(seen.query_string)
       IN /\ Len(fields) = Len(request.query)
          /\ \A i \in DOMAIN fields :
               /\ fields[i][1] = request.query[i][1]
               /\ Decodes(request.query[i][2]) => fields[i][2] = request.query[i][2]
    /\ request.query # <<>> => DispositionFields(Disposition(request.query)) = request.query

\* The peer can tell what it was answered: the status by its number and as the
\* enumerator, the fields, and where the content ends: by a length, which is
\* the right one, by chunks, or by the end of the connection.
ResponseArrives ==
  turn = "peer reads" =>
    LET message == ParseResponse(response.text)
        added   == SubSeq(message.header, Len(response.header) + 1, Len(message.header))
        lengths == Named(message.header, ContentLength)
    IN  /\ message.ok
        /\ message.version = <<49, 46, 49>>
        /\ StatusOfText(message.status_code) = response.status_code
        /\ response.status_code # 0 => stoull(message.status_code) = response.status_code
        /\ IsPrefix(response.header, message.header) /\ Len(added) <= 1
        /\ added # <<>> => stoull(added[1][2]) = Len(response.content)
        /\ Len(lengths) = 1 \/ response.close \/ Named(response.header, TransferEncoding) # <<>>
        /\ message.content = response.content

\* The server never waits for bytes it already has: while a read of a request
\* goes on, something of the request has yet to arrive.
ReadsWhatComes ==
  \/ turn \notin {"head", "content"} \/ Full \/ wire # <<>>
  \/ turn = "head" /\ HeadRead
  \/ turn = "content" /\ wanted = 0
===============================================================================
