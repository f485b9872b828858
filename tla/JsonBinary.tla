------------------------------ MODULE JsonBinary ------------------------------
(***************************************************************************)
(* MessagePack and CBOR: to_msgpack, from_msgpack, to_cbor and from_cbor   *)
(* of json.hh.  A document is written to a sequence of bytes; reading      *)
(* starts at an index, from 0 on, and returns the value with the index     *)
(* after it, or an exception.                                              *)
(***************************************************************************)
EXTENDS JsonValue

add_to_vector(width, bytes) == Low(bytes, width)

\* The smallest width of 1, 2, 4 and 8 bytes for which Fits holds.
Narrowest(Fits(_)) ==
  IF Fits(1) THEN 1 ELSE IF Fits(2) THEN 2 ELSE IF Fits(4) THEN 4 ELSE 8

\* Which of four tags, for 1, 2, 4 and 8 bytes, from the first one on.
Tag(first, width) == first + CASE width = 1 -> 0 [] width = 2 -> 1 [] width = 4 -> 2 [] width = 8 -> 3

Tagged(first, bytes) ==
  LET Fits(width) == FitsUnsigned(bytes, width)
      width == Narrowest(Fits)
  IN  <<Tag(first, width)>> \o add_to_vector(width, bytes)

(***************************************************************************)
(* Writing.                                                                *)
(***************************************************************************)

\* Keys and values of an object, elements of an array, in their order.
Elements(j) ==
  IF j.type = "array" THEN j.array
  ELSE FlattenSeq([i \in 1..Size(j) |-> <<String(KeyAt(j, i - 1)), Deref(j, i - 1)>>])

MsgpackUnsigned(bytes) ==
  IF FitsUnsigned(bytes, 1) /\ bytes[8] < 128 THEN <<bytes[8]>> ELSE Tagged(204, bytes)

MsgpackNegative(bytes) ==
  LET Fits(width) == FitsSigned(bytes, width)
      width == Narrowest(Fits)
  IN  IF FitsSigned(bytes, 1) /\ bytes[8] >= 224 THEN <<bytes[8]>>
      ELSE <<Tag(208, width)>> \o add_to_vector(width, bytes)

\* A length after a short tag when it is at most so much, else after its bytes.
MsgpackStringLonger(n) == IF n <= 32 THEN <<160 + n>> ELSE Tagged(217, Bytes(n))
MsgpackString(n) == IF n <= 31 THEN <<160 + n>> ELSE Tagged(217, Bytes(n))
MsgpackArray(n) ==
  IF n <= 15 THEN <<144 + n>>
  ELSE IF n <= 65535 THEN <<220>> \o add_to_vector(2, Bytes(n)) ELSE <<221>> \o add_to_vector(4, Bytes(n))
MsgpackObject(n) ==
  IF n <= 15 THEN <<128 + n>>
  ELSE IF n <= 65535 THEN <<222>> \o add_to_vector(2, Bytes(n)) ELSE <<223>> \o add_to_vector(4, Bytes(n))

RECURSIVE to_msgpack(_)
to_msgpack(j) ==
  LET parts == FlattenSeq([i \in DOMAIN Elements(j) |-> to_msgpack(Elements(j)[i])])
  IN  CASE j.type = "null"            -> <<192>>
        [] j.type = "boolean"         -> IF j.boolean THEN <<195>> ELSE <<194>>
        [] j.type = "number_unsigned" -> MsgpackUnsigned(j.number_unsigned)
        [] j.type = "number_integer"  -> IF IsNegative(j.number_integer) THEN MsgpackNegative(j.number_integer)
                                         ELSE MsgpackUnsigned(j.number_integer)
        [] j.type = "number_float"    -> <<203>> \o j.number_float
        [] j.type = "string"          -> MsgpackString(Len(j.string)) \o j.string
        [] j.type = "array"           -> MsgpackArray(Size(j)) \o parts
        [] j.type = "object"          -> MsgpackObject(Size(j)) \o parts
        [] OTHER                      -> <<>>

\* CBOR has one form for numbers and lengths: the major type with a small
\* number in it, else the major type with the width, and the bytes.
CborHead(major, bytes) ==
  IF FitsUnsigned(bytes, 1) /\ bytes[8] <= 23 THEN <<major + bytes[8]>> ELSE Tagged(major + 24, bytes)

RECURSIVE to_cbor(_)
to_cbor(j) ==
  LET parts == FlattenSeq([i \in DOMAIN Elements(j) |-> to_cbor(Elements(j)[i])])
  IN  CASE j.type = "null"            -> <<246>>
        [] j.type = "boolean"         -> IF j.boolean THEN <<245>> ELSE <<244>>
        [] j.type = "number_unsigned" -> CborHead(0, j.number_unsigned)
        [] j.type = "number_integer"  -> IF IsNegative(j.number_integer) THEN CborHead(32, Complement(j.number_integer))
                                         ELSE CborHead(0, j.number_integer)
        [] j.type = "number_float"    -> <<251>> \o j.number_float
        [] j.type = "string"          -> CborHead(96, Bytes(Len(j.string))) \o j.string
        [] j.type = "array"           -> CborHead(128, Bytes(Size(j))) \o parts
        [] j.type = "object"          -> CborHead(160, Bytes(Size(j))) \o parts
        [] OTHER                      -> <<>>

(***************************************************************************)
(* Reading.                                                                *)
(***************************************************************************)

\* What was read up to an index: a value and how many items it still misses.
Missing(value, idx, n) == [value |-> value, idx |-> idx, items |-> n]
Read(value, idx) == Missing(value, idx, 0)
OutOfRange == Read(Throw("out_of_range"), 0)
Failure(read) == Thrown(read.value)

check_length(v, len, offset) == len <= Len(v) /\ offset <= Len(v) /\ len + offset <= Len(v)

\* The number in the bytes after the tag, widened without and with its sign.
\* get_from_vector: all of them have to be there.
HasNumber(v, current_idx, width) == current_idx + width + 1 <= Len(v)
get_from_vector(v, current_idx, width) ==
  Zeros(8 - width) \o SubSeq(v, current_idx + 2, current_idx + 1 + width)
Widened(bytes, width) ==
  IF Low(bytes, width)[1] < 128 THEN bytes
  ELSE [i \in 1..8 |-> IF i <= 8 - width THEN 255 ELSE bytes[i]]

\* Lengths here are small: a longer one than the bytes there are is out of range.
Length(v, bytes) == IF \A i \in 1..6 : bytes[i] = 0 THEN bytes[7] * 256 + bytes[8] ELSE Len(v) + 1

Number(v, current_idx, width, Value(_)) ==
  IF HasNumber(v, current_idx, width)
  THEN Read(Value(get_from_vector(v, current_idx, width)), current_idx + 1 + width) ELSE OutOfRange

\* A string of a length that stands in the tag (width 0) or in the bytes after it.
Text(v, current_idx, width, short) ==
  LET len    == IF width = 0 THEN short ELSE Length(v, get_from_vector(v, current_idx, width))
      offset == current_idx + 1 + width
  IN  IF HasNumber(v, current_idx, width) /\ check_length(v, len, offset)
      THEN Read(String(SubSeq(v, offset + 1, offset + len)), offset + len) ELSE OutOfRange

\* A float whose exponent and mantissa have so many bits as a double: infinity
\* and not-a-number keep all bits of the exponent, a subnormal number is
\* shifted until its highest bit is the hidden one.
Double(negative, exponent, mantissa, exponentBits, bits) ==
  LET bias     == 2^(exponentBits - 1) - 1
      top      == CHOOSE k \in 0..bits : 2^k <= mantissa /\ mantissa < 2^(k + 1)
      biased   == CASE exponent = 2^exponentBits - 1 -> 2047
                    [] exponent = 0 -> 1024 - bias - bits + top
                    [] OTHER -> exponent + 1023 - bias
      fraction == (IF exponent = 0 THEN (mantissa * 2^(bits - top)) % 2^bits ELSE mantissa) * 2^(28 - bits)
      sign     == IF negative THEN 128 ELSE 0
  IN  IF exponent = 0 /\ mantissa = 0 THEN <<sign>> \o Zeros(7)
      ELSE <<sign + biased \div 16, (biased % 16) * 16 + fraction \div 2^24, (fraction \div 65536) % 256,
             (fraction \div 256) % 256, fraction % 256, 0, 0, 0>>

SingleAsDouble(b) ==
  Double(b[1] >= 128, (b[1] % 128) * 2 + b[2] \div 128, (b[2] % 128) * 65536 + b[3] * 256 + b[4], 8, 23)
HalfAsDouble(b) == Double(b[1] >= 128, (b[1] % 128) \div 4, (b[1] % 4) * 256 + b[2], 5, 10)

\* The bytes of a float after its tag, each read with v.at().
Floating(v, current_idx, width) ==
  IF current_idx + 1 + width > Len(v) THEN OutOfRange
  ELSE LET bytes == SubSeq(v, current_idx + 2, current_idx + 1 + width)
       IN  Read(Float(CASE width = 2 -> HalfAsDouble(bytes) [] width = 4 -> SingleAsDouble(bytes) [] width = 8 -> bytes),
                current_idx + 1 + width)

(***************************************************************************)
(* What a tag announces, with the bytes after it.  The items of an array,  *)
(* an object or a string of chunks are still missing.                      *)
(***************************************************************************)

Indefinite == -1

Counted(v, current_idx, width, empty) ==
  IF HasNumber(v, current_idx, width)
  THEN Missing(empty, current_idx + 1 + width, Length(v, get_from_vector(v, current_idx, width)))
  ELSE OutOfRange

from_msgpack(v, current_idx) ==
  LET tag    == v[current_idx + 1]
      width  == 2^(tag % 4)
      wide   == IF tag % 2 = 0 THEN 2 ELSE 4
      Signed(bytes) == Integer(Widened(bytes, width))
  IN  IF ~check_length(v, 1, current_idx) THEN OutOfRange
      ELSE CASE tag <= 127    -> Read(Unsigned(Bytes(tag)), current_idx + 1)
        [] tag \in 128..143   -> Missing(EmptyObject, current_idx + 1, tag % 16)
        [] tag \in 144..159   -> Missing(Array(<<>>), current_idx + 1, tag % 16)
        [] tag \in 160..191   -> Text(v, current_idx, 0, tag % 32)
        [] tag >= 224         -> Read(Integer(Bytes(tag - 256)), current_idx + 1)
        [] tag = 192          -> Read(Null, current_idx + 1)
        [] tag \in {194, 195} -> Read(Boolean(tag = 195), current_idx + 1)
        [] tag \in {202, 203} -> Floating(v, current_idx, wide * 2)
        [] tag \in 204..207   -> Number(v, current_idx, width, Unsigned)
        [] tag \in 208..211   -> Number(v, current_idx, width, Signed)
        [] tag \in 217..219   -> Text(v, current_idx, 2^(tag - 217), 0)
        [] tag \in {220, 221} -> Counted(v, current_idx, wide, Array(<<>>))
        [] tag \in {222, 223} -> Counted(v, current_idx, wide, EmptyObject)
        [] OTHER              -> Read(Throw("invalid_argument"), 0)

\* A tag is a major type, its upper three bits, with a number up to 23, or the
\* width of the number in the bytes after it, or 31 for an indefinite length.
CborUnsigned(v, current_idx, info) ==
  IF info <= 23 THEN Read(Unsigned(Bytes(info)), current_idx + 1)
  ELSE Number(v, current_idx, 2^(info - 24), Unsigned)

\* -1 - n; with eight bytes it may wrap to a number that is not negative.
CborNegative(v, current_idx, info) ==
  LET Negative(bytes) == Integer(Complement(bytes))
  IN  IF info <= 23 THEN Read(Negative(Bytes(info)), current_idx + 1)
      ELSE Number(v, current_idx, 2^(info - 24), Negative)

CborContainer(v, current_idx, info, empty) ==
  CASE info <= 23      -> Missing(empty, current_idx + 1, info)
    [] info \in 24..27 -> Counted(v, current_idx, 2^(info - 24), empty)
    [] info = 31       -> Missing(empty, current_idx + 1, Indefinite)

CborText(v, current_idx, info) ==
  CASE info <= 23      -> Text(v, current_idx, 0, info)
    [] info \in 24..27 -> Text(v, current_idx, 2^(info - 24), 0)
    [] info = 31       -> Missing(String(<<>>), current_idx + 1, Indefinite)

from_cbor(v, current_idx) ==
  LET tag   == v[current_idx + 1]
      major == tag \div 32
      info  == tag % 32
  IN  IF current_idx >= Len(v) THEN OutOfRange
      ELSE CASE major = 0 /\ info <= 27                -> CborUnsigned(v, current_idx, info)
        [] major = 1 /\ info <= 27                     -> CborNegative(v, current_idx, info)
        [] major = 3 /\ info \in (0..27) \cup {31}     -> CborText(v, current_idx, info)
        [] major = 4 /\ info \in (0..27) \cup {31}     -> CborContainer(v, current_idx, info, Array(<<>>))
        [] major = 5 /\ info \in (0..27) \cup {31}     -> CborContainer(v, current_idx, info, EmptyObject)
        [] tag \in {244, 245}                          -> Read(Boolean(tag = 245), current_idx + 1)
        [] tag = 246                                   -> Read(Null, current_idx + 1)
        [] tag \in 249..251                            -> Floating(v, current_idx, 2^(tag - 248))
        [] OTHER                                       -> Read(Throw("invalid_argument"), 0)

(***************************************************************************)
(* Reading goes on with the missing elements, members or chunks: so many   *)
(* of them, or, where the length is indefinite, up to the byte 255.        *)
(***************************************************************************)

Joined(result, value, idx) ==
  Missing(value, idx, IF result.items = Indefinite THEN Indefinite ELSE result.items - 1)

\* A member: the key has to be a string; of two equal ones the last counts.
WithMember(result, key, member) ==
  IF Failure(key) THEN key
  ELSE IF key.value.type # "string" THEN Read(Throw("domain_error"), 0)
  ELSE IF Failure(member) THEN member
  ELSE Joined(result, AssignedKey(result.value, key.value.string, member.value), member.idx)

WithElementThere(result, element) ==
  IF Failure(element) THEN Read(result.value, result.idx) ELSE Joined(result, PushBack(result.value, element.value), element.idx)
WithElement(result, element) ==
  IF Failure(element) THEN element ELSE Joined(result, PushBack(result.value, element.value), element.idx)

WithChunk(result, chunk) ==
  IF Failure(chunk) THEN chunk
  ELSE IF chunk.value.type # "string" THEN Read(Throw("domain_error"), 0)
  ELSE Joined(result, String(result.value.string \o chunk.value.string), chunk.idx)

RECURSIVE From(_, _, _), Items(_, _, _), WithItem(_, _, _, _)

WithItem(format, v, result, item) ==
  CASE result.value.type = "array"  -> WithElement(result, item)
    [] result.value.type = "object" -> WithMember(result, item, From(format, v, item.idx))
    [] result.value.type = "string" -> WithChunk(result, item)

Items(format, v, result) ==
  CASE Failure(result) \/ result.items = 0 -> result
    [] ~Failure(result) /\ result.items = Indefinite /\ result.idx >= Len(v) -> OutOfRange
    [] /\ ~Failure(result) /\ result.items = Indefinite
       /\ result.idx < Len(v) /\ v[result.idx + 1] = 255 -> Read(result.value, result.idx + 1)
    [] OTHER -> Items(format, v, WithItem(format, v, result, From(format, v, result.idx)))

From(format, v, idx) ==
  Items(format, v, IF format = "msgpack" THEN from_msgpack(v, idx) ELSE from_cbor(v, idx))
To(format, j) == IF format = "msgpack" THEN to_msgpack(j) ELSE to_cbor(j)
===============================================================================
