------------------------------- MODULE HttpText -------------------------------
(***************************************************************************)
(* The text of HTTP messages: Percent, QueryString, HttpHeader,            *)
(* RequestMessage, ResponseMessage and ContentDisposition of utility.hpp,  *)
(* write and write_header of server_http.hpp, and status_code.hpp.         *)
(*                                                                         *)
(* A text is the sequence of its bytes.  A multimap of fields is the       *)
(* sequence of its <<name, value>> pairs in the order of its iteration,    *)
(* which the code leaves open.                                             *)
(***************************************************************************)
EXTENDS Integers, SequencesExt

CONSTANT Phrase    \* the words behind the number of a status

LF == 10
CR == 13
SP == 32
Quote == 34
PercentSign == 37
Ampersand == 38
Plus == 43
Minus == 45
Slash == 47
Colon == 58
Semicolon == 59
Equals == 61
QuestionMark == 63
Digits == 48..57
EndOfLine == <<CR, LF>>
EndOfHead == EndOfLine \o EndOfLine
HTTP == <<72, 84, 84, 80>>
ContentLength == <<67, 111, 110, 116, 101, 110, 116, 45, 76, 101, 110, 103, 116, 104>>
TransferEncoding == <<84, 114, 97, 110, 115, 102, 101, 114, 45, 69, 110, 99, 111, 100, 105, 110, 103>>
Chunked == <<99, 104, 117, 110, 107, 101, 100>>

(***************************************************************************)
(* Strings.                                                                *)
(***************************************************************************)

\* find(): the first position of a byte after position i, or 0.
Find(s, byte, i) == SelectInSubSeq(s, i + 1, Len(s), LAMBDA b : b = byte)

\* The parts of a text between the positions of a byte.
Pieces(s, byte) ==
  LET cuts == <<0>> \o SelectSeq([i \in DOMAIN s |-> i], LAMBDA i : s[i] = byte) \o <<Len(s) + 1>>
  IN  [i \in 1..(Len(cuts) - 1) |-> SubSeq(s, cuts[i] + 1, cuts[i + 1] - 1)]

Lower(s) == [i \in DOMAIN s |-> IF s[i] \in 65..90 THEN s[i] + 32 ELSE s[i]]
case_insensitive_equal(s, t) == Lower(s) = Lower(t)

\* find() of the multimap: the fields of that name.
Named(fields, name) == SelectSeq(fields, LAMBDA f : case_insensitive_equal(f[1], name))

DecimalText(n) ==
  LET digits == CHOOSE d \in 1..4 : n < 10^d /\ (d = 1 \/ n >= 10^(d - 1))
  IN  [i \in 1..digits |-> 48 + ((n \div 10^(digits - i)) % 10)]

\* stoull() of a text that starts with its digits; no digits, no number.
NoNumber == -1
stoull(s) ==
  LET end == SelectInSeq(s \o <<0>>, LAMBDA b : b \notin Digits)
  IN  IF end = 1 THEN NoNumber
      ELSE FoldLeft(LAMBDA sum, b : sum * 10 + b - 48, 0, SubSeq(s, 1, end - 1))

(***************************************************************************)
(* Percent and QueryString.                                                *)
(***************************************************************************)

Reserved == {33, 35, 36} \cup (38..44) \cup (47..59) \cup {61, 63, 64, 91, 93}
HexChar(n) == IF n < 10 THEN 48 + n ELSE 55 + n

encode(value) ==
  FlattenSeq([i \in DOMAIN value |->
    IF value[i] = SP THEN <<Plus>>
    ELSE IF value[i] \in Reserved THEN <<PercentSign, HexChar(value[i] \div 16), HexChar(value[i] % 16)>>
    ELSE <<value[i]>>])

\* strtol() of two bytes, as a char: the digits there are, after a space or a sign.
HexValue(b) ==
  CASE b \in Digits   -> b - 48
    [] b \in 65..70   -> b - 55
    [] b \in 97..102  -> b - 87
    [] OTHER          -> NoNumber
strtol(b, c) ==
  LET high == HexValue(b)
      low  == HexValue(c)
  IN  CASE high # NoNumber /\ low # NoNumber             -> high * 16 + low
        [] high # NoNumber /\ low = NoNumber             -> high
        [] b \in {SP, Plus} \cup (9..13) /\ low # NoNumber -> low
        [] b = Minus /\ low # NoNumber                   -> (256 - low) % 256
        [] OTHER                                         -> 0

\* Two more bytes have to follow a percent sign, any two.
HasDigitsOrEnds(value, i) == i + 2 <= Len(value) + 1
HasDigits(value, i) == i + 2 <= Len(value)
decode(value) ==
  LET Byte(st, i) ==
        IF i < st.next THEN st
        ELSE IF value[i] = PercentSign /\ HasDigits(value, i)
             THEN [text |-> Append(st.text, strtol(value[i + 1], (value \o <<0>>)[i + 2])),
                   next |-> i + 3]
        ELSE [text |-> Append(st.text, IF value[i] = Plus THEN SP ELSE value[i]), next |-> i + 1]
  IN  FoldLeft(Byte, [text |-> <<>>, next |-> 1], [i \in DOMAIN value |-> i]).text

create(fields) ==
  FlattenSeq([i \in DOMAIN fields |->
    (IF i = 1 THEN <<>> ELSE <<Ampersand>>) \o fields[i][1] \o <<Equals>> \o encode(fields[i][2])])

\* The last equals sign of a part ends its name; a part without a name is skipped.
QueryFields(query_string) ==
  LET Field(part) ==
        LET at == SelectLastInSeq(part, LAMBDA b : b = Equals)
        IN  IF at = 0 THEN <<part, <<>>>>
            ELSE <<SubSeq(part, 1, at - 1), decode(SubSeq(part, at + 1, Len(part)))>>
      parts == Pieces(query_string, Ampersand)
  IN  SelectSeq([i \in DOMAIN parts |-> Field(parts[i])], LAMBDA f : f[1] # <<>>)

(***************************************************************************)
(* Headers.  A stream is the bytes still in it.                            *)
(***************************************************************************)

getline(stream) ==
  LET end == Find(stream \o <<LF>>, LF, 0)
  IN  [line |-> SubSeq(stream, 1, end - 1), rest |-> SubSeq(stream, end + 1, Len(stream))]

\* The field of a line: one space after the colon is skipped, the last byte
\* is taken for a carriage return; a line without a value has no field.
FieldOfWithReturn(line) ==
  LET colon == Find(line, Colon, 0)
  IN  <<<<SubSeq(line, 1, colon - 1), SubSeq(line, colon + 2, Len(line))>>>>
FieldOf(line) ==
  LET colon == Find(line, Colon, 0)
      start == IF colon < Len(line) /\ line[colon + 1] = SP THEN colon + 2 ELSE colon + 1
  IN  IF start > Len(line) THEN <<>>
      ELSE <<<<SubSeq(line, 1, colon - 1), SubSeq(line, start, Len(line) - 1)>>>>

\* The fields up to the first line without a colon, and the stream after it.
HeaderFields(stream) ==
  LET lines == Pieces(stream, LF)
      end   == SelectInSeq(lines, LAMBDA line : Colon \notin ToSet(line))
      size  == FoldLeft(LAMBDA sum, line : sum + Len(line) + 1, 0, SubSeq(lines, 1, end))
  IN  [header |-> FlattenSeq([i \in 1..(end - 1) |-> FieldOf(lines[i])]),
       rest   |-> SubSeq(stream, size + 1, Len(stream))]

NoMessage == [ok |-> FALSE]

\* The last question mark before the space starts the query string.
ParseRequest(stream) ==
  LET first     == getline(stream)
      line      == first.line
      methodEnd == Find(line, SP, 0)
      pathEnd   == Find(line, SP, methodEnd)
      query     == SelectLastInSubSeq(line, methodEnd + 1, pathEnd - 1, LAMBDA b : b = QuestionMark)
      protocol  == Find(line, Slash, pathEnd)
      fields    == HeaderFields(first.rest)
  IN  IF \/ methodEnd = 0 \/ pathEnd = 0 \/ protocol = 0
         \/ SubSeq(line, pathEnd + 1, protocol - 1) # HTTP
      THEN NoMessage
      ELSE [ok           |-> TRUE,
            method       |-> SubSeq(line, 1, methodEnd - 1),
            path         |-> SubSeq(line, methodEnd + 1, (IF query = 0 THEN pathEnd ELSE query) - 1),
            query_string |-> IF query = 0 THEN <<>> ELSE SubSeq(line, query + 1, pathEnd - 1),
            version      |-> SubSeq(line, protocol + 1, Len(line) - 1),
            header       |-> fields.header,
            content      |-> fields.rest]

ParseResponse(stream) ==
  LET first      == getline(stream)
      line       == first.line
      versionEnd == Find(line, SP, 0)
      fields     == HeaderFields(first.rest)
  IN  IF versionEnd = 0 \/ Len(line) <= 5 \/ versionEnd = Len(line) THEN NoMessage
      ELSE [ok          |-> TRUE,
            version     |-> SubSeq(line, 6, IF versionEnd < 6 THEN Len(line) ELSE versionEnd - 1),
            status_code |-> SubSeq(line, versionEnd + 1, Len(line) - 1),
            header      |-> fields.header,
            content     |-> fields.rest]

\* The parameters of a Content-Disposition: names alone up to a semicolon, or
\* names with a value in quotes.
DispositionFields(line) ==
  LET Byte(st, c) ==
        CASE st.start = 0 -> IF line[c] \in {SP, Semicolon} THEN st ELSE [st EXCEPT !.start = c]
          [] st.start # 0 /\ st.end = 0 ->
               IF line[c] = Semicolon
               THEN [st EXCEPT !.fields = Append(@, <<SubSeq(line, st.start, c - 1), <<>>>>), !.start = 0]
               ELSE IF line[c] = Equals THEN [st EXCEPT !.end = c] ELSE st
          [] st.start # 0 /\ st.end # 0 /\ st.value = 0 ->
               IF line[c] = Quote /\ c < Len(line) THEN [st EXCEPT !.value = c + 1] ELSE st
          [] OTHER ->
               IF line[c] = Quote
               THEN [fields |-> Append(st.fields, <<SubSeq(line, st.start, st.end - 1), SubSeq(line, st.value, c - 1)>>),
                     start |-> 0, end |-> 0, value |-> 0]
               ELSE st
      last == FoldLeft(Byte, [fields |-> <<>>, start |-> 1, end |-> 0, value |-> 0], [c \in DOMAIN line |-> c])
  IN  IF last.start # 0 /\ last.end = 0
      THEN Append(last.fields, <<SubSeq(line, last.start, Len(line)), <<>>>>) ELSE last.fields

(***************************************************************************)
(* Status codes.  An enumerator is its number: the first of a run is given *)
(* and each of the following is one more.  The table pairs the enumerators *)
(* in their order with texts, whose numbers are written out.               *)
(***************************************************************************)

Runs(runs) == FlattenSeq([r \in DOMAIN runs |-> [i \in 1..runs[r][2] |-> runs[r][1] + i - 1]])

StatusCode ==
  Runs(<< <<0, 1>>, <<100, 3>>, <<200, 9>>, <<226, 1>>, <<300, 9>>, <<400, 19>>, <<421, 4>>, <<426, 1>>,
          <<428, 2>>, <<431, 1>>, <<451, 1>>, <<500, 9>>, <<510, 2>> >>)

StatusText(number) == IF number = 0 THEN <<>> ELSE DecimalText(number) \o <<SP>> \o Phrase

\* The numbers of the texts, and the same with one enumerator more in the run.
StatusNumbersShifted == Runs(<< <<0, 1>>, <<100, 4>>, <<201, 8>>, <<226, 1>>, <<300, 9>>, <<400, 19>>,
                                <<421, 4>>, <<426, 1>>, <<428, 2>>, <<431, 1>>, <<451, 1>>, <<500, 9>>, <<510, 2>> >>)
StatusNumbers ==
  Runs(<< <<0, 1>>, <<100, 3>>, <<200, 9>>, <<226, 1>>, <<300, 9>>, <<400, 19>>, <<421, 4>>, <<426, 1>>,
          <<428, 2>>, <<431, 1>>, <<451, 1>>, <<500, 9>>, <<510, 2>> >>)

status_codes == [i \in DOMAIN StatusCode |-> <<StatusCode[i], StatusText(StatusNumbers[i])>>]

\* The two lookups; what is not in the table is unknown.
TextOfStatus(status_code_enum) ==
  status_codes[SelectInSeq(status_codes, LAMBDA s : s[1] = status_code_enum)][2]
StatusOfText(status_code_str) ==
  LET at == SelectInSeq(status_codes, LAMBDA s : s[2] = status_code_str)
  IN  IF at = 0 THEN 0 ELSE status_codes[at][1]

(***************************************************************************)
(* What a program writes to a response.                                    *)
(***************************************************************************)

\* Content-Length is added unless the fields say how the content ends, or the
\* end of the connection does.
write_header(fields, size, close) ==
  LET lines == FlattenSeq([i \in DOMAIN fields |-> fields[i][1] \o <<Colon, SP>> \o fields[i][2] \o EndOfLine])
      chunks == SelectSeq(Named(fields, TransferEncoding), LAMBDA f : case_insensitive_equal(f[2], Chunked))
  IN  lines \o (IF Named(fields, ContentLength) = <<>> /\ chunks = <<>> /\ ~close
                THEN ContentLength \o <<Colon, SP>> \o DecimalText(size) \o EndOfHead ELSE EndOfLine)

write(status_code, content, fields, close) ==
  HTTP \o <<Slash, 49, 46, 49, SP>> \o TextOfStatus(status_code) \o EndOfLine
       \o write_header(fields, Len(content), close) \o content
===============================================================================
