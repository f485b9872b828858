------------------------------- MODULE JsonText -------------------------------
(***************************************************************************)
(* JSON text: dump() and parse() of json.hh with its lexer, its parser and *)
(* the parser's callback.  A text is the sequence of its bytes.            *)
(*                                                                         *)
(* The conversions of floating point numbers belong to the C library: they *)
(* are tables, FloatText for snprintf and FloatValue for strtod.  The line *)
(* buffer of the lexer is left out: past its end a text reads as zeros.    *)
(***************************************************************************)
EXTENDS JsonValue

CONSTANTS FloatText,    \* [bytes of a float -> text]
          FloatValue    \* [text -> bytes of a float]

Space == 32
NewLine == 10
Quote == 34
Backslash == 92
Comma == 44
Colon == 58
Minus == 45
Dot == 46
Digits == 48..57
HexDigits == Digits \cup 65..70 \cup 97..102
Exponents == {69, 101}
TextOf == [null |-> <<110, 117, 108, 108>>, true |-> <<116, 114, 117, 101>>,
           false |-> <<102, 97, 108, 115, 101>>]

\* The characters dump() escapes by one letter, and the letter; the letters
\* the lexer takes after a backslash, and what it reads them as.
Escapes == (34 :> 34) @@ (92 :> 92) @@ (8 :> 98) @@ (12 :> 102) @@ (10 :> 110) @@ (13 :> 114) @@ (9 :> 116)
Unescapes == (116 :> 9) @@ (98 :> 8) @@ (102 :> 12) @@ (110 :> 10) @@ (114 :> 13)
             @@ (92 :> 92) @@ (47 :> 47) @@ (34 :> 34)

(***************************************************************************)
(* Arithmetic on the eight bytes of a number.                              *)
(***************************************************************************)

\* bytes * factor + carry: the eight bytes after what does not fit in them.
Scaled(bytes, factor, carry) ==
  LET sum[i \in 1..9] == IF i = 9 THEN carry * 256 ELSE bytes[i] * factor + sum[i + 1] \div 256
  IN  <<sum[1] \div 256>> \o [i \in 1..8 |-> sum[i] % 256]
Negated(bytes) == Tail(Scaled(Complement(bytes), 1, 1))

\* The digits of a number, by repeated division.
RECURSIVE Decimal(_)
Decimal(bytes) ==
  LET rest[i \in 0..8] == IF i = 0 THEN 0 ELSE (rest[i - 1] * 256 + bytes[i]) % 10
  IN  IF bytes = Zeros(8) THEN <<>>
      ELSE Decimal([i \in 1..8 |-> (rest[i - 1] * 256 + bytes[i]) \div 10]) \o <<48 + rest[8]>>

\* strtoull: the number the digits stand for after what does not fit.
Magnitude(digits) ==
  FoldLeft(LAMBDA sum, d : IF sum[1] > 0 THEN sum ELSE Scaled(Tail(sum), 10, d - 48), Zeros(9), digits)

(***************************************************************************)
(* dump().                                                                 *)
(***************************************************************************)

HexDigitDecimal(n) == 48 + n
HexDigit(n) == IF n < 10 THEN 48 + n ELSE 87 + n

\* Nothing is copied for a string that needs no escape.
extra_space(s) == {i \in DOMAIN s : s[i] <= 31 \/ s[i] \in DOMAIN Escapes}
escape_string(s) ==
  IF extra_space(s) = {} THEN s
  ELSE FlattenSeq([i \in DOMAIN s |->
         IF s[i] \in DOMAIN Escapes THEN <<Backslash, Escapes[s[i]]>>
         ELSE IF s[i] <= 31 THEN <<Backslash, 117, 48, 48, HexDigit(s[i] \div 16), HexDigit(s[i] % 16)>>
         ELSE <<s[i]>>])

\* A number; a float whose text looks like an integer's gets ".0".
numtostr(j) ==
  LET bytes == j[j.type]
      text  == FloatText[bytes]
  IN  IF j.type = "number_float"
      THEN IF \A i \in DOMAIN text : text[i] # Dot /\ text[i] \notin Exponents
           THEN text \o <<Dot, 48>> ELSE text
      ELSE IF bytes = Zeros(8) THEN <<48>>
      ELSE IF j.type = "number_integer" /\ IsNegative(bytes) THEN <<Minus>> \o Decimal(Negated(bytes))
      ELSE Decimal(bytes)

Quoted(s) == <<Quote>> \o escape_string(s) \o <<Quote>>

RECURSIVE dump(_, _, _, _)
dump(j, pretty_print, indent_step, current_indent) ==
  LET new_indent == IF pretty_print THEN current_indent + indent_step ELSE current_indent
      Indent(n)  == [i \in 1..n |-> Space]
      newline    == IF pretty_print THEN <<NewLine>> ELSE <<>>
      Part(at)   == (IF j.type = "object"
                     THEN Quoted(KeyAt(j, at)) \o <<Colon>> \o (IF pretty_print THEN <<Space>> ELSE <<>>)
                     ELSE <<>>) \o dump(Deref(j, at), pretty_print, indent_step, new_indent)
      parts      == [i \in 1..Size(j) |->
                       (IF i > 1 THEN <<Comma>> \o newline ELSE <<>>) \o Indent(new_indent) \o Part(i - 1)]
      open       == IF j.type = "object" THEN 123 ELSE 91
  IN  CASE IsStructured(j) /\ Size(j) = 0 -> <<open, open + 2>>
        [] IsStructured(j) /\ Size(j) > 0 ->
             <<open>> \o newline \o FlattenSeq(parts) \o newline \o Indent(current_indent) \o <<open + 2>>
        [] j.type = "string"  -> Quoted(j.string)
        [] j.type = "boolean" -> IF j.boolean THEN TextOf.true ELSE TextOf.false
        [] IsNumber(j)        -> numtostr(j)
        [] OTHER              -> TextOf.null

(***************************************************************************)
(* The lexer.  Positions start at 1.                                       *)
(***************************************************************************)

CharAt(s, i) == IF i <= Len(s) THEN s[i] ELSE 0

\* The first position from i on that holds no byte of the set.
After(s, i, set) ==
  LET Ends(n) == CharAt(s, n) \notin set
  IN  CHOOSE n \in i..(i + Len(s)) : Ends(n) /\ \A k \in i..(n - 1) : ~Ends(k)

AfterDigits(s, i) == After(s, i, Digits)
AfterSpace(s, i) == After(s, i, {32, 9, 10, 13})
Plain == 32..127 \ {Quote, Backslash}

\* The bytes that may follow the first byte of a character of UTF-8.
Continuation(lead) ==
  LET any == 128..191
  IN  CASE lead \in 194..223            -> <<any>>
        [] lead = 224                   -> <<160..191, any>>
        [] lead \in 225..239 \ {237}    -> <<any, any>>
        [] lead = 237                   -> <<128..159, any>>
        [] lead = 240                   -> <<144..191, any, any>>
        [] lead \in 241..243            -> <<any, any, any>>
        [] lead = 244                   -> <<128..143, any, any>>
        [] OTHER                        -> <<{}>>

\* Four hexadecimal digits from i on.
IsUnit(s, i) == \A k \in 0..3 : CharAt(s, i + k) \in HexDigits

\* The position after the closing quote, or 0 when the string is not one.
RECURSIVE AfterString(_, _)
AfterString(s, i) ==
  LET c    == CharAt(s, i)
      next == CharAt(s, i + 1)
      more == Continuation(c)
  IN  CASE c = Quote -> i + 1
        [] c = Backslash /\ next \in {34, 47, 92, 98, 102, 110, 114, 116} -> AfterString(s, i + 2)
        [] c = Backslash /\ next = 117 /\ IsUnit(s, i + 2) ->
             AfterString(s, i + 6)
        [] c \in Plain -> AfterString(s, After(s, i, Plain))
        [] c > 127 /\ (\A k \in DOMAIN more : CharAt(s, i + k) \in more[k]) ->
             AfterString(s, i + 1 + Len(more))
        [] OTHER -> 0

Token(type, start, cursor) == [type |-> type, start |-> start, cursor |-> cursor]
ParseError(i) == Token("parse_error", i, i + 1)

\* A fraction or an exponent without digits is not part of the number.
AfterFraction(s, i) ==
  IF CharAt(s, i) = Dot /\ CharAt(s, i + 1) \in Digits THEN AfterDigits(s, i + 1) ELSE i
AfterExponent(s, i) ==
  LET first == IF CharAt(s, i + 1) \in {43, Minus} THEN i + 2 ELSE i + 1
  IN  IF CharAt(s, i) \in Exponents /\ CharAt(s, first) \in Digits THEN AfterDigits(s, first) ELSE i

\* The longest number; a leading zero is an error.
ScanNumber(s, i) ==
  LET minus    == CharAt(s, i) = Minus
      first    == IF minus THEN i + 1 ELSE i
      intEnd   == IF CharAt(s, first) = 48 THEN first + 1 ELSE AfterDigits(s, first)
      end      == AfterExponent(s, AfterFraction(s, intEnd))
  IN  IF \/ CharAt(s, first) \notin Digits
         \/ CharAt(s, first) = 48 /\ CharAt(s, first + 1) \in Digits
      THEN ParseError(i)
      ELSE Token(IF end > intEnd THEN "value_float"
                 ELSE IF minus THEN "value_integer" ELSE "value_unsigned", i, end)

Literal(s, i, type, text) ==
  IF \A k \in DOMAIN text : CharAt(s, i + k - 1) = text[k]
  THEN Token(type, i, i + Len(text)) ELSE ParseError(i)

scan(s, cursor) ==
  LET i == AfterSpace(s, cursor)
      c == CharAt(s, i)
      Mark(type) == Token(type, i, i + 1)
  IN  CASE c = 0     -> Mark("end_of_input")
        [] c = 91    -> Mark("begin_array")
        [] c = 93    -> Mark("end_array")
        [] c = 123   -> Mark("begin_object")
        [] c = 125   -> Mark("end_object")
        [] c = Comma -> Mark("value_separator")
        [] c = Colon -> Mark("name_separator")
        [] c = 110   -> Literal(s, i, "literal_null", TextOf.null)
        [] c = 116   -> Literal(s, i, "literal_true", TextOf.true)
        [] c = 102   -> Literal(s, i, "literal_false", TextOf.false)
        [] c = Quote -> LET end == AfterString(s, i + 1)
                        IN  IF end = 0 THEN ParseError(i) ELSE Token("value_string", i, end)
        [] c \in Digits \cup {Minus} -> ScanNumber(s, i)
        [] OTHER     -> ParseError(i)

(***************************************************************************)
(* The values of tokens.                                                   *)
(***************************************************************************)

\* Four hexadecimal digits.
CodePoint(s, i) ==
  LET Hex(c) == IF c <= 57 THEN c - 48 ELSE IF c <= 70 THEN c - 55 ELSE c - 87
  IN  ((Hex(s[i]) * 16 + Hex(s[i + 1])) * 16 + Hex(s[i + 2])) * 16 + Hex(s[i + 3])

IsHigh(codepoint) == codepoint \in 55296..56319
IsLow(codepoint) == codepoint \in 56320..57343

\* The UTF-8 bytes of a code point; a high surrogate needs its low one.
to_unicode(codepoint1, codepoint2) ==
  LET cp == IF IsHigh(codepoint1)
            THEN (codepoint1 - 55296) * 1024 + (codepoint2 - 56320) + 65536 ELSE codepoint1
      Six(n) == 128 + (n % 64)
  IN  CASE cp < 128   -> <<cp>>
        [] cp \in 128..2047   -> <<192 + cp \div 64, Six(cp)>>
        [] cp \in 2048..65535 -> <<224 + cp \div 4096, Six(cp \div 64), Six(cp)>>
        [] OTHER      -> <<240 + cp \div 262144, Six(cp \div 4096), Six(cp \div 64), Six(cp)>>

\* The string between its quotes, from position i on, or an exception.
RECURSIVE Unescaped(_, _, _)
Unescaped(s, i, close) ==
  LET Then(bytes, next) == LET rest == Unescaped(s, next, close)
                           IN  IF Thrown(rest) THEN rest ELSE String(bytes \o rest.string)
      c == s[i + 1]
      codepoint == CodePoint(s, i + 2)
      paired == CharAt(s, i + 6) = Backslash /\ CharAt(s, i + 7) = 117
  IN  CASE i >= close -> String(<<>>)
        [] i < close /\ s[i] # Backslash ->
             LET next == After(s, i, (32..255) \ {Quote, Backslash}) IN Then(SubSeq(s, i, next - 1), next)
        [] i < close /\ s[i] = Backslash /\ c # 117 -> Then(<<Unescapes[c]>>, i + 2)
        [] OTHER ->
             IF IsHigh(codepoint)
             THEN IF paired /\ IsLow(CodePoint(s, i + 8))
                  THEN Then(to_unicode(codepoint, CodePoint(s, i + 8)), i + 12)
                  ELSE Throw("invalid_argument")
             ELSE IF IsLow(codepoint) THEN Throw("invalid_argument")
             ELSE Then(to_unicode(codepoint, 0), i + 6)

get_string(s, token) == Unescaped(s, token.start + 1, token.cursor - 1)

\* An integer that does not fit becomes a float.
get_number(s, token) ==
  LET text   == SubSeq(s, token.start, token.cursor - 1)
      digits == IF token.type = "value_integer" THEN Tail(text) ELSE text
      sum    == Magnitude(digits)
      bytes  == Tail(sum)
  IN  IF token.type = "value_unsigned" /\ sum[1] = 0 THEN Unsigned(bytes)
      ELSE IF token.type = "value_integer" /\ sum[1] = 0
              /\ (~IsNegative(bytes) \/ bytes = <<128>> \o Zeros(7))
           THEN Integer(Negated(bytes))
      ELSE Float(FloatValue[text])

(***************************************************************************)
(* The parser.  It asks for one token after the other, up to the end of    *)
(* the input or an error: its state is the place of the last one among     *)
(* them and the depth it reports.  Its callback is the set of the events   *)
(* it says no to, the start of an object or an array with the depth it     *)
(* reports, the others with the value.  The value of what it says no to is *)
(* discarded.                                                              *)
(***************************************************************************)

\* The value of a token; a string may turn out to be none, an exception.
TokenValue(s, token) ==
  CASE token.type = "value_string"  -> get_string(s, token)
    [] token.type = "literal_true"  -> Boolean(TRUE)
    [] token.type = "literal_false" -> Boolean(FALSE)
    [] token.type \in {"value_unsigned", "value_integer", "value_float"} -> get_number(s, token)
    [] OTHER -> Null

RECURSIVE Tokens(_, _)
Tokens(s, cursor) ==
  LET token == scan(s, cursor)
  IN  <<[type |-> token.type, value |-> TokenValue(s, token)]>> \o
      (IF token.type \in {"end_of_input", "parse_error"} THEN <<>> ELSE Tokens(s, token.cursor))

Discarded == [type |-> "discarded"]
Parsed(value, st) == [value |-> value, st |-> st]
Failed(st) == Parsed(Throw("invalid_argument"), st)
get_token(st) == [st EXCEPT !.at = @ + 1]

\* The end of an object or an array, whose callback sees the depth it leaves.
EndedAnyway(keep, result, st, no, event) ==
  Parsed(result, get_token(IF keep THEN [st EXCEPT !.depth = @ - 1] ELSE st))
Ended(keep, result, st, no, event) ==
  Parsed(IF keep /\ <<event, result>> \in no THEN Discarded ELSE result,
         get_token(IF keep THEN [st EXCEPT !.depth = @ - 1] ELSE st))

RECURSIVE parse_internal(_, _, _, _), ParseMembers(_, _, _, _, _), ParseElements(_, _, _, _, _)

\* The members of an object from the token of a key on.
ParseMembers(tokens, keep, result, st, no) ==
  LET key    == tokens[st.at].value
      member == parse_internal(tokens, keep, get_token(get_token(st)), no)
      kept   == IF keep /\ <<"key", key>> \notin no /\ member.value.type # "discarded"
                THEN AssignedKey(result, key.string, member.value) ELSE result
  IN  IF \/ tokens[st.at].type # "value_string" \/ Thrown(key)
         \/ tokens[st.at + 1].type # "name_separator"
      THEN Failed(st)
      ELSE IF Thrown(member.value) THEN member
      ELSE CASE tokens[member.st.at].type = "value_separator" ->
                  ParseMembers(tokens, keep, kept, get_token(member.st), no)
             [] tokens[member.st.at].type = "end_object" -> Ended(keep, kept, member.st, no, "object_end")
             [] OTHER -> Failed(member.st)

ParseElements(tokens, keep, result, st, no) ==
  LET element == parse_internal(tokens, keep, st, no)
      kept    == IF keep /\ element.value.type # "discarded" THEN PushBack(result, element.value) ELSE result
  IN  IF Thrown(element.value) THEN element
      ELSE CASE tokens[element.st.at].type = "value_separator" ->
                  ParseElements(tokens, keep, kept, get_token(element.st), no)
             [] tokens[element.st.at].type = "end_array" -> Ended(keep, kept, element.st, no, "array_end")
             [] OTHER -> Failed(element.st)

parse_internal(tokens, keep, st, no) ==
  LET token  == tokens[st.at]
      next   == tokens[st.at + 1]
      deeper == get_token([st EXCEPT !.depth = IF keep THEN @ + 1 ELSE @])
      Starts(event) == keep /\ <<event, st.depth>> \notin no
  IN  CASE token.type = "begin_object" ->
             LET kept   == Starts("object_start")
                 result == IF kept THEN EmptyObject ELSE Discarded
             IN  IF next.type = "end_object" THEN Ended(kept, result, deeper, no, "object_end")
                 ELSE ParseMembers(tokens, kept, result, deeper, no)
        [] token.type = "begin_array" ->
             LET kept   == Starts("array_start")
                 result == IF kept THEN Array(<<>>) ELSE Discarded
             IN  IF next.type = "end_array" THEN Ended(TRUE, result, deeper, no, "array_end")
                 ELSE ParseElements(tokens, kept, result, deeper, no)
        [] \/ token.type \in {"literal_null", "literal_true", "literal_false"}
           \/ token.type \in {"value_string", "value_unsigned", "value_integer", "value_float"} ->
             IF Thrown(token.value) THEN Failed(st)
             ELSE Parsed(IF keep /\ <<"value", token.value>> \in no THEN Discarded ELSE token.value, get_token(st))
        [] OTHER -> Failed(st)

\* The whole text is one value; what was discarded as a whole is null.
Whole(tokens, parsed) ==
  IF Thrown(parsed.value) THEN parsed.value
  ELSE IF tokens[parsed.st.at].type # "end_of_input" THEN Throw("invalid_argument")
  ELSE IF parsed.value.type = "discarded" THEN Null
  ELSE parsed.value
ParseTokens(tokens, no) == Whole(tokens, parse_internal(tokens, TRUE, [at |-> 1, depth |-> 0], no))
parse(s, no) == ParseTokens(Tokens(s, 1), no)
===============================================================================
