------------------------------ MODULE JsonValue ------------------------------
(***************************************************************************)
(* The values of the JSON library (class basic_json of json.hh) and the    *)
(* operations of their containers and iterators.                           *)
(*                                                                         *)
(* A value is a record whose field "type" is m_type and whose other field  *)
(* is the member of the union m_value that the type selects.  A string is  *)
(* the sequence of its bytes, a number the eight bytes of its              *)
(* representation, the most significant first, an array a sequence and an  *)
(* object a function from its keys.  An operation that throws returns a    *)
(* record of type "exception" that names the exception.                    *)
(***************************************************************************)
EXTENDS Integers, SequencesExt

CONSTANT AsFloat    \* [integer value -> bytes of the float it is cast to]

NewValue(type, content) == (type :> content) @@ ("type" :> type)

Null == [type |-> "null"]
Boolean(b) == NewValue("boolean", b)
Integer(bytes) == NewValue("number_integer", bytes)
Unsigned(bytes) == NewValue("number_unsigned", bytes)
\* Infinity and not-a-number have every bit of the exponent set: they become null.
Float(bytes) == IF bytes[1] % 128 = 127 /\ bytes[2] >= 240
                THEN [type |-> "null"] ELSE NewValue("number_float", bytes)
String(s) == NewValue("string", s)
Array(s) == NewValue("array", s)
Object(f) == NewValue("object", f)

Throw(exception) == [type |-> "exception", what |-> exception]
Thrown(j) == j.type = "exception"

EmptyObject == Object(<<>>)
IsNumber(j) == j.type \in {"number_integer", "number_unsigned", "number_float"}
IsStructured(j) == j.type \in {"array", "object"}

(***************************************************************************)
(* Bytes of numbers.                                                       *)
(***************************************************************************)

Zeros(n) == [i \in 1..n |-> 0]

\* The eight bytes of a number of this model, in two's complement.
Bytes(n) ==
  [i \in 1..8 |-> IF i >= 5 THEN (n \div 256^(8 - i)) % 256
                            ELSE IF n < 0 THEN 255 ELSE 0]

IsNegative(bytes) == bytes[1] >= 128

\* -1 - n in two's complement: every bit the other way round.
Complement(bytes) == [i \in 1..8 |-> 255 - bytes[i]]

Low(bytes, width) == SubSeq(bytes, 9 - width, 8)

\* Whether an unsigned number, or the number a two's complement stands for,
\* fits in so many bytes.
FitsUnsigned(bytes, width) == \A i \in 1..(8 - width) : bytes[i] = 0
FitsSignedOnes(bytes, width) == \A i \in 1..(8 - width) : bytes[i] = 255
FitsSigned(bytes, width) ==
  LET fill == IF IsNegative(Low(bytes, width) \o Zeros(8 - width)) THEN 255 ELSE 0
  IN  \A i \in 1..(8 - width) : bytes[i] = fill

(***************************************************************************)
(* Order and equality.                                                     *)
(***************************************************************************)

\* std::lexicographical_compare with the order of the elements.
LexicographicLess(Lt(_, _), a, b) ==
  \E n \in 0..Len(a) :
    /\ n < Len(b)
    /\ \A i \in 1..n : ~Lt(a[i], b[i]) /\ ~Lt(b[i], a[i])
    /\ n = Len(a) \/ Lt(a[n + 1], b[n + 1])

StringLess(s, t) ==
  \E n \in 1..(Len(s) + 1) :
    /\ n <= Len(t)
    /\ n = Len(s) + 1 \/ s[n] < t[n]
    /\ \A i \in 1..(n - 1) : s[i] = t[i]

RECURSIVE Ascending(_)
Ascending(keys) ==
  IF keys = {} THEN <<>>
  ELSE LET least == CHOOSE k \in keys : \A l \in keys : ~StringLess(l, k)
       IN  <<least>> \o Ascending(keys \ {least})

\* The keys of an object in the order of std::map.
KeysOf(j) == Ascending(DOMAIN j.object)

SignedLess(m, n) == StringLess([m EXCEPT ![1] = (@ + 128) % 256], [n EXCEPT ![1] = (@ + 128) % 256])

TypeOrderSigned == [null |-> 0, boolean |-> 1, number_integer |-> 2, number_unsigned |-> 3,
                    number_float |-> 4, object |-> 5, array |-> 6, string |-> 7]
TypeOrder == [null |-> 0, boolean |-> 1, number_integer |-> 2, number_unsigned |-> 2,
              number_float |-> 2, object |-> 3, array |-> 4, string |-> 5]

\* The bytes of floats in the order of the numbers, with one zero: all bits
\* of a negative one the other way round, the sign of the others.
FloatBytes(j) == IF j.type = "number_float" THEN j.number_float ELSE AsFloat[j]
Ordered(bytes) ==
  IF bytes = <<128>> \o Zeros(7) THEN <<128>> \o Zeros(7)
  ELSE IF IsNegative(bytes) THEN Complement(bytes) ELSE [bytes EXCEPT ![1] = @ + 128]
FloatLess(a, b) == StringLess(Ordered(FloatBytes(a)), Ordered(FloatBytes(b)))

\* operator<: values of one type by their contents, an integer cast to a float
\* beside a float and an unsigned number to a signed one beside a signed one,
\* other types by their order.
RECURSIVE Less(_, _)
Less(a, b) ==
  LET PairLess(p, q) == \/ StringLess(p[1], q[1])
                        \/ ~StringLess(q[1], p[1]) /\ Less(p[2], q[2])
      Pairs(j) == [i \in 1..Cardinality(DOMAIN j.object) |-> <<KeysOf(j)[i], j.object[KeysOf(j)[i]]>>]
  IN  CASE a.type = "array" /\ b.type = "array" -> LexicographicLess(Less, a.array, b.array)
        [] a.type = "object" /\ b.type = "object" -> LexicographicLess(PairLess, Pairs(a), Pairs(b))
        [] a.type = "string" /\ b.type = "string" -> StringLess(a.string, b.string)
        [] a.type = "boolean" /\ b.type = "boolean" -> ~a.boolean /\ b.boolean
        [] a.type = "number_unsigned" /\ b.type = "number_unsigned" ->
             StringLess(a.number_unsigned, b.number_unsigned)
        [] a.type # b.type /\ TypeOrder[a.type] # TypeOrder[b.type] ->
             TypeOrder[a.type] < TypeOrder[b.type]
        [] IsNumber(a) /\ IsNumber(b) /\ "number_float" \in {a.type, b.type} -> FloatLess(a, b)
        [] {a.type, b.type} \in {{"number_integer"}, {"number_integer", "number_unsigned"}} ->
             SignedLess(a[a.type], b[b.type])
        [] OTHER -> FALSE

\* operator==: deep, with the same casts.
RECURSIVE Same(_, _)
Same(a, b) ==
  \/ a.type = b.type /\ ~IsStructured(a) /\ a = b
  \/ IsNumber(a) /\ IsNumber(b) /\ "number_float" \in {a.type, b.type} /\ ~FloatLess(a, b) /\ ~FloatLess(b, a)
  \/ {a.type, b.type} = {"number_integer", "number_unsigned"} /\ a[a.type] = b[b.type]
  \/ /\ a.type = "array" /\ b.type = "array"
     /\ Len(a.array) = Len(b.array)
     /\ \A i \in DOMAIN a.array : Same(a.array[i], b.array[i])
  \/ /\ a.type = "object" /\ b.type = "object"
     /\ DOMAIN a.object = DOMAIN b.object
     /\ \A k \in DOMAIN a.object : Same(a.object[k], b.object[k])

(***************************************************************************)
(* Construction and capacity.                                              *)
(***************************************************************************)

\* The value a type starts with.
Default(type) ==
  CASE type = "null"    -> Null
    [] type = "boolean" -> Boolean(FALSE)
    [] type \in {"number_integer", "number_unsigned", "number_float"} -> NewValue(type, Zeros(8))
    [] OTHER            -> NewValue(type, <<>>)

\* A list of initialisers is an object when every element is an array of two
\* whose first is a string; the first of two equal keys stays.
IsPair(j) == j.type = "array" /\ Len(j.array) = 2 /\ j.array[1].type = "string"

FromList(init, type_deduction, manual_type) ==
  LET allPairs == \A i \in DOMAIN init : IsPair(init[i])
      Key(i) == init[i].array[1].string
      First(k) == CHOOSE i \in DOMAIN init : Key(i) = k /\ \A n \in 1..(i - 1) : Key(n) # k
  IN  IF ~type_deduction /\ manual_type = "object" /\ ~allPairs
      THEN Throw("domain_error")
      ELSE IF allPairs /\ (type_deduction \/ manual_type = "object")
           THEN Object([k \in {Key(i) : i \in DOMAIN init} |-> init[First(k)].array[2]])
           ELSE Array(init)

Filled(cnt, val) == Array([i \in 1..cnt |-> val])

Size(j) ==
  CASE j.type = "null"   -> 0
    [] j.type = "array"  -> Len(j.array)
    [] j.type = "object" -> Cardinality(DOMAIN j.object)
    [] OTHER             -> 1

Clear(j) == Default(j.type)

(***************************************************************************)
(* Element access.                                                         *)
(***************************************************************************)

At(j, idx) ==
  IF j.type # "array" THEN Throw("domain_error")
  ELSE IF idx >= Len(j.array) THEN Throw("out_of_range")
  ELSE j.array[idx + 1]

AtKey(j, key) ==
  IF j.type # "object" THEN Throw("domain_error")
  ELSE IF key \notin DOMAIN j.object THEN Throw("out_of_range")
  ELSE j.object[key]

\* What j is once operator[] has made room for the element: null has become
\* an array or an object, and an array has been filled up with null.
Subscript(j, idx) ==
  IF j.type \notin {"null", "array"} THEN Throw("domain_error")
  ELSE LET old == IF j.type = "null" THEN <<>> ELSE j.array
           n   == IF idx >= Len(old) THEN idx + 1 ELSE Len(old)
       IN  Array([i \in 1..n |-> IF i <= Len(old) THEN old[i] ELSE Null])

SubscriptKey(j, key) ==
  IF j.type \notin {"null", "object"} THEN Throw("domain_error")
  ELSE LET old == IF j.type = "null" THEN <<>> ELSE j.object
       IN  Object(old @@ (key :> Null))

\* j[idx] = val and j[key] = val.
Assigned(j, idx, val) ==
  LET room == Subscript(j, idx)
  IN  IF Thrown(room) THEN room ELSE [room EXCEPT !.array[idx + 1] = val]
AssignedKey(j, key, val) ==
  LET room == SubscriptKey(j, key)
  IN  IF Thrown(room) THEN room ELSE [room EXCEPT !.object[key] = val]

\* value(): the element, or the default when the object has no such key.
ValueOf(j, key, default_value) ==
  IF j.type # "object" THEN Throw("domain_error")
  ELSE IF key \in DOMAIN j.object THEN j.object[key] ELSE default_value

(***************************************************************************)
(* Modifiers.                                                              *)
(***************************************************************************)

PushBack(j, val) ==
  IF j.type = "null" THEN Array(<<val>>)
  ELSE IF j.type = "array" THEN Array(Append(j.array, val))
  ELSE Throw("domain_error")

\* insert and emplace of std::map: a key that is there keeps its value.
PushBackPair(j, key, val) ==
  IF j.type = "null" THEN Object(key :> val)
  ELSE IF j.type = "object" THEN Object(j.object @@ (key :> val))
  ELSE Throw("domain_error")

\* A list of a string and a value pushed to an object is one of its pairs.
PushBackList(j, init) ==
  IF j.type = "object" /\ Len(init) = 2 /\ init[1].type = "string"
  THEN PushBackPair(j, init[1].string, init[2])
  ELSE PushBack(j, FromList(init, TRUE, "array"))

EraseKey(j, key) ==
  IF j.type = "object" THEN Object([k \in DOMAIN j.object \ {key} |-> j.object[k]])
  ELSE Throw("domain_error")

EraseIndex(j, idx) ==
  IF j.type # "array" THEN Throw("domain_error")
  ELSE IF idx >= Len(j.array) THEN Throw("out_of_range")
  ELSE Array(RemoveAt(j.array, idx + 1))

(***************************************************************************)
(* Iterators: an offset into the array, into the keys of the object, or,   *)
(* for a primitive value, 0 for the value and 1 past it.  Null has no      *)
(* element, its first iterator is past the end.                            *)
(***************************************************************************)

End(j) == IF IsStructured(j) THEN Size(j) ELSE 1
Begin(j) == IF j.type = "null" THEN 1 ELSE 0

Deref(j, at) ==
  CASE j.type = "array"  -> j.array[at + 1]
    [] j.type = "object" -> j.object[KeysOf(j)[at + 1]]
    [] OTHER -> IF at = 0 /\ j.type # "null" THEN j ELSE Throw("out_of_range")

KeyAt(j, at) == IF j.type = "object" THEN KeysOf(j)[at + 1] ELSE Throw("domain_error")

Find(j, key) ==
  IF j.type = "object" /\ key \in DOMAIN j.object
  THEN CHOOSE at \in 0..(Size(j) - 1) : KeyAt(j, at) = key
  ELSE End(j)

\* What a reverse iterator refers to is before its base.
ReverseDeref(j, base) == Deref(j, base - 1)

\* The key of iterator_wrapper for an element: an array has its index.
ProxyKey(j, at, IndexText(_)) ==
  CASE j.type = "array"  -> IndexText(at)
    [] j.type = "object" -> KeyAt(j, at)
    [] OTHER             -> <<>>

\* The value constructed from a range of another.
FromRange(j, first, last) ==
  CASE j.type = "array"  -> Array(SubSeq(j.array, first + 1, last))
    [] j.type = "object" -> LET keys == {KeyAt(j, at) : at \in first..(last - 1)}
                            IN  Object([k \in keys |-> j.object[k]])
    [] j.type = "null"   -> Throw("domain_error")
    [] OTHER -> IF first = 0 /\ last = 1 THEN j ELSE Throw("out_of_range")

\* erase(first, last) and erase(pos): what is left, and the iterator returned.
EraseRange(j, first, last) ==
  CASE j.type = "array"  -> Array(SubSeq(j.array, 1, first) \o SubSeq(j.array, last + 1, Len(j.array)))
    [] j.type = "object" -> Object([k \in DOMAIN j.object \ {KeyAt(j, at) : at \in first..(last - 1)} |-> j.object[k]])
    [] j.type = "null"   -> Throw("domain_error")
    [] OTHER -> IF first = 0 /\ last = 1 THEN Null ELSE Throw("out_of_range")
EraseAt(j, pos) == EraseRange(j, pos, pos + 1)
AfterEraseNext(j, first) == IF IsStructured(j) /\ first < Size(j) - 1 THEN first + 1 ELSE End(j)
AfterErase(j, first) == IF IsStructured(j) THEN first ELSE End(j)

\* insert(pos, ...): the values before the element at pos.
Inserted(j, pos, vals) ==
  IF j.type = "array"
  THEN Array(SubSeq(j.array, 1, pos) \o vals \o SubSeq(j.array, pos + 1, Len(j.array)))
  ELSE Throw("domain_error")

(***************************************************************************)
(* Conversions to other types, with the value made of the result.          *)
(***************************************************************************)

\* To a boolean, a string, and the array and the object of the class itself.
Get(j, type) == IF j.type = type THEN j ELSE Throw("domain_error")

\* To an integer type of 64 bits: the bytes stay.  Casts of floats are left out.
GetNumber(j, type) ==
  IF j.type \in {"number_integer", "number_unsigned"} THEN NewValue(type, j[j.type]) ELSE Throw("domain_error")

\* Any other arithmetic type takes a boolean too.
GetArithmetic(j, type) ==
  IF j.type = "boolean" THEN NewValue(type, Bytes(IF j.boolean THEN 1 ELSE 0)) ELSE GetNumber(j, type)

\* To another container of values: the elements of an array or an object, or
\* the primitive value itself, in the order of the iterator.
GetList(j) ==
  IF j.type = "null" THEN Throw("domain_error")
  ELSE IF IsStructured(j) THEN Array([i \in 1..Size(j) |-> Deref(j, i - 1)]) ELSE Array(<<j>>)
==============================================================================
