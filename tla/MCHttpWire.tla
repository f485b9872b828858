------------------------------ MODULE MCHttpWire ------------------------------
(* Bytes in decimal: 71 "G", 47 "/", 97 "a", 65 "A", 37 "%", 38 "&", 43 "+", *)
(* 61 "=", 52 "4", 49 "1".  The last two values do not come back.           *)
EXTENDS HttpWire

MCMethods == {<<71>>}
MCPaths == {<<47>>, <<47, 97, 37, 52, 49>>}

Values == {<<>>, <<SP, Plus>>, <<Ampersand, 97, Equals>>, <<195, 188>>, <<97, PercentSign, 65>>, <<56, PercentSign>>,
           <<97, PercentSign, 52, 49>>, <<PercentSign, Plus>>}
MCQueries ==
  {<<>>} \cup {<< <<<<97>>, v>> >> : v \in Values}
  \cup {<< <<<<97>>, <<QuestionMark, Slash>>>>, <<<<65>>, v>> >> : v \in Values}

MCHeaders ==
  {<<>>, << <<<<97>>, <<>>>> >>, << <<<<97>>, <<SP, Colon, SP>>>>, <<<<65>>, <<98>>>> >>}
MCResponseHeaders ==
  MCHeaders \cup {<< <<Lower(ContentLength), <<49>>>> >>, << <<<<97>>, <<98>>>>, <<Lower(TransferEncoding), <<67>> \o Tail(Chunked)>> >>}
MCContents == {<<>>, <<97>>, <<98>> \o EndOfHead \o <<Colon>>}
MCLengthNames == {ContentLength, Lower(ContentLength)}

\* A line without a space, one without a version, one of another protocol and
\* a length that is no number.
MCMalformed ==
  {<<71>> \o EndOfHead, <<71, SP, Slash>> \o EndOfHead, <<71, SP, Slash, SP, 73, Slash, 49>> \o EndOfHead,
   <<71, SP, Slash, SP>> \o HTTP \o <<Slash, 49>> \o EndOfLine \o ContentLength \o <<Colon, SP, 97>> \o EndOfHead}
\* The length of the content comes before the line without a colon or after it.
RaggedText(header) ==
  <<71, SP, Slash, SP>> \o HTTP \o <<Slash, 49>> \o EndOfLine \o FlattenSeq(header) \o EndOfLine \o <<98>>
LengthLine == ContentLength \o <<Colon, SP, 49>> \o EndOfLine
MCRagged == {RaggedText(<<LengthLine, <<97>> \o EndOfLine>>), RaggedText(<<<<97>> \o EndOfLine, LengthLine>>)}
MCStatuses == {0, 100, 200, 226, 413, 451, 511}
MCPhrase == <<79, 75>>
===============================================================================
