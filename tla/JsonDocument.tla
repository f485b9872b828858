----------------------------- MODULE JsonDocument -----------------------------
(***************************************************************************)
(* A program with two values of the JSON library and an iterator into the  *)
(* first.  Each action is a call that changes one of them; a call that     *)
(* throws leaves them as they are.  The properties relate what the library *)
(* writes, reads, compares and patches, for every value the calls reach.   *)
(***************************************************************************)
EXTENDS JsonPatch, JsonBinary

CONSTANTS Leaves,      \* values without elements the program assigns
          Boundary,    \* the same, for the first value with a bound of its own
          Keys,        \* keys of objects
          Counts,      \* sizes of long arrays and objects
          OddBytes,    \* bytes written over those of an encoding
          MaxWeight    \* bound on the weight of the two values together

VARIABLES document, other,
          it      \* offset of the iterator into document, or NoIterator

vars == <<document, other, it>>

NoIterator == -1

Pointers == {<<k, l>> : k, l \in Keys \cup {Dash}}

RECURSIVE Weight(_)
Weight(j) ==
  IF IsStructured(j)
  THEN FoldLeft(LAMBDA sum, at : sum + Weight(Deref(j, at)), 1, [i \in 1..Size(j) |-> i - 1])
  ELSE IF j \in Leaves THEN 1 ELSE 2

(***************************************************************************)
(* Calls that give document a new value, those that give other one, and    *)
(* swap.  The program has given up its iterator before them.               *)
(***************************************************************************)

Become(j) ==
  /\ it = NoIterator
  /\ ~Thrown(j)
  /\ Weight(j) + Weight(other) <= MaxWeight
  /\ document' = j
  /\ UNCHANGED <<other, it>>

Init == document = Null /\ other = Null /\ it = NoIterator

Assign == \E j \in Leaves \cup Boundary \cup {Default("array"), Default("object")} : Become(j)

List ==
  \E init \in {<<other>>, <<document, other>>} \cup {<<Array(<<String(key), other>>)>> : key \in Keys} :
    Become(FromList(init, TRUE, "array"))

\* A long array, or a long object made from the list of its pairs.
Fill ==
  /\ document = Null /\ other = Null
  /\ \E n \in Counts :
       document' \in {Filled(n, Null),
                      FromList([i \in 1..n |-> Array(<<String(<<64 + i>>), Null>>)], TRUE, "array")}
  /\ UNCHANGED <<other, it>>

Push ==
  \/ Become(PushBack(document, other))
  \/ \E key \in Keys :
       \/ Become(PushBackPair(document, key, other))
       \/ Become(PushBackList(document, <<String(key), other>>))

Set ==
  \/ \E idx \in 0..MaxWeight : Become(Assigned(document, idx, other))
  \/ \E key \in Keys : Become(AssignedKey(document, key, other))
  \/ \E tokens \in Pointers : Become(Replaced(document, tokens, other, "unchecked"))

Erase ==
  \/ \E idx \in 0..MaxWeight : Become(EraseIndex(document, idx))
  \/ \E key \in Keys : Become(EraseKey(document, key))

\* document = document.patch(...) with one operation.
Apply ==
  \E op \in {"add", "remove", "replace", "test", "move", "copy"}, from \in Keys,
     tokens \in Pointers \cup {<<key>> : key \in Keys} :
    Become(patch(document, <<[op |-> op, path |-> to_string(tokens), value |-> other, from |-> to_string(<<from>>)]>>))

Empty == Become(Clear(document))

\* other = document, an element of it or a range.
Copy ==
  /\ \E j \in {document, At(document, 0), FromRange(document, Begin(document), it), GetList(document),
                Get(document, "object"), GetArithmetic(document, "number_unsigned")}
               \cup UNION {{AtKey(document, key), ValueOf(document, key, EmptyObject)} : key \in Keys} :
       /\ ~Thrown(j)
       /\ Weight(document) + Weight(j) <= MaxWeight
       /\ other' = j
  /\ UNCHANGED <<document, it>>

Swap ==
  /\ it = NoIterator
  /\ Weight(document) + Weight(other) <= MaxWeight
  /\ document' = other
  /\ other' = document
  /\ UNCHANGED it

(***************************************************************************)
(* The iterator.                                                           *)
(***************************************************************************)

Move ==
  /\ it' \in {NoIterator, Begin(document), End(document)} \cup {Find(document, key) : key \in Keys}
             \cup (IF it # NoIterator /\ it < End(document) THEN {it + 1} ELSE {})
             \cup (IF it > Begin(document) THEN {it - 1} ELSE {})
  /\ UNCHANGED <<document, other>>

\* erase(it) and erase(it, last): the iterator they return goes on.
EraseFrom(last) ==
  /\ it # NoIterator /\ it < last /\ last <= End(document)
  /\ Weight(document) <= MaxWeight
  /\ ~Thrown(EraseRange(document, it, last))
  /\ document' = EraseRange(document, it, last)
  /\ it' = AfterErase(document, it)
  /\ UNCHANGED other

EraseHere == EraseFrom(it + 1)
EraseRest == EraseFrom(End(document))

\* insert(it, ...): other, other twice, the elements of other.
InsertHere ==
  /\ it # NoIterator
  /\ \E vals \in {<<other>>, <<other, other>>} \cup (IF other.type = "array" THEN {other.array} ELSE {}) :
       /\ ~Thrown(Inserted(document, it, vals))
       /\ Weight(Inserted(document, it, vals)) + Weight(other) <= MaxWeight
       /\ document' = Inserted(document, it, vals)
  /\ UNCHANGED <<other, it>>

Next ==
  \/ Assign \/ List \/ Fill \/ Push \/ Set \/ Erase \/ Apply \/ Empty \/ Copy \/ Swap
  \/ Move \/ EraseHere \/ EraseRest \/ InsertHere

Spec == Init /\ [][Next]_vars

-----------------------------------------------------------------------------
(***************************************************************************)
(* Properties.  Those of one value look at the states where the other is   *)
(* null, those of two values at every state without an iterator.           *)
(***************************************************************************)

Alone == other = Null /\ it = NoIterator
Paired == it = NoIterator
Formats == {"msgpack", "cbor"}

\* What to_msgpack or to_cbor wrote, from_msgpack or from_cbor reads back as an
\* equal value, and it stops right after the last byte: a width chosen by the
\* writer is one the reader knows, up to the borders of every width.
BinaryReturns ==
  Alone => \A format \in Formats :
    LET read == From(format, To(format, document), 0)
    IN  Same(read.value, document) /\ read.idx = Len(To(format, document))

\* An encoding that ends early is reported as std::out_of_range, wherever it
\* was cut, and never read past its end or taken for a shorter value.
TruncationThrows ==
  Alone => \A format \in Formats :
    LET v == To(format, document)
    IN  \A n \in 0..(Len(v) - 1) : From(format, SubSeq(v, 1, n), 0).value = Throw("out_of_range")

\* Whatever bytes the readers accept, what they made of them is a value that
\* survives being written and read: bytes nobody wrote in this form (wide
\* numbers, indefinite lengths, half floats, repeated keys) lead to ordinary values.
DecodedSettles ==
  Alone /\ Weight(document) <= 3 => \A format \in Formats :
    LET v == To(format, document)
    IN  \A at \in DOMAIN v, odd \in OddBytes :
          LET read == From(format, [v EXCEPT ![at] = odd], 0)
          IN  at <= 4 /\ ~Failure(read) => Same(From(format, To(format, read.value), 0).value, read.value)

\* Floats whose 15 digits name them: dump() writes no more.
RECURSIVE Exact(_)
Exact(j) ==
  /\ j.type = "number_float" => FloatValue[numtostr(j)] = j.number_float
  /\ IsStructured(j) => \A at \in 0..(Size(j) - 1) : Exact(Deref(j, at))

\* parse() takes back what dump() wrote, on one line or indented: every
\* escape, every sign and the largest numbers come back as an equal value.
TextReturns ==
  Alone /\ Exact(document) =>
    \A pretty \in BOOLEAN : Same(parse(dump(document, pretty, 2, 0), {}), document)

\* What a callback that says no to one event should leave of a value.
RECURSIVE Events(_), Filtered(_, _)
Events(j) ==
  LET inner == UNION {Events(Deref(j, at)) : at \in 0..(Size(j) - 1)}
  IN  CASE j.type = "array"  -> inner \cup {<<"array_end", j>>}
        [] j.type = "object" -> inner \cup {<<"object_end", j>>} \cup {<<"key", String(k)>> : k \in DOMAIN j.object}
        [] OTHER             -> {<<"value", j>>}
Filtered(j, no) ==
  LET Gone(event, k) == IF <<event, k>> = no THEN Discarded ELSE k
      Stays(k) == k.type # "discarded"
      kept == {k \in DOMAIN j.object : <<"key", String(k)>> # no /\ Stays(Filtered(j.object[k], no))}
  IN  CASE j.type = "array"  -> Gone("array_end", Array(SelectSeq([i \in DOMAIN j.array |-> Filtered(j.array[i], no)], Stays)))
        [] j.type = "object" -> Gone("object_end", Object([k \in kept |-> Filtered(j.object[k], no)]))
        [] OTHER             -> Gone("value", j)

NullFor(left) == IF left.type = "discarded" THEN Null ELSE left
FiltersEvents(tokens, whole) ==
  \A no \in Events(whole) : ParseTokens(tokens, {no}) = NullFor(Filtered(whole, no))

\* A value, key, object or array the parser's callback rejects at its end is
\* gone, at any depth, and nothing else is; a rejected document is null.
FilterReturns ==
  Alone /\ Exact(document) /\ Weight(document) < MaxWeight =>
    LET tokens == Tokens(dump(document, FALSE, 0, 0), 1)
    IN  FiltersEvents(tokens, ParseTokens(tokens, {}))

\* diff() finds operations that patch() carries out to reach the other value,
\* though every removal moves the elements behind it.
PatchReaches == Paired => Same(patch(document, diff(document, other, <<>>)), other)

\* Without empty containers, which flatten() turns into null, and objects with
\* the key "0", which unflatten() takes for arrays when it comes first.
RECURSIVE Flattens(_)
Flattens(j) ==
  IsStructured(j) =>
    /\ Size(j) > 0
    /\ j.type = "object" => <<48>> \notin DOMAIN j.object
    /\ \A at \in 0..(Size(j) - 1) : Flattens(Deref(j, at))

\* flatten() loses nothing unflatten() needs, whatever is in the keys.
FlattenReturns == Alone /\ Flattens(document) => unflatten(flatten(document)) = document

\* The key the iteration reports for an element leads a JSON pointer to it.
PointerFollows ==
  Alone /\ IsStructured(document) =>
    \A at \in 0..(Size(document) - 1) :
      Resolved(document, split(to_string(<<ProxyKey(document, at, IndexText)>>)).tokens, "checked")
        = ReverseDeref(document, at + 1)

\* Of <, == and > exactly one holds of two values, integers with and without
\* sign and floats among them, whose casts differ.
OrderAgrees ==
  Paired => Cardinality({relation \in 1..3 :
              CASE relation = 1 -> Less(document, other)
                [] relation = 2 -> Same(document, other)
                [] relation = 3 -> Less(other, document)}) = 1

\* A loop that erases or inserts at its iterator misses and repeats nothing:
\* what is before the iterator stays, what it has yet to visit is what it had
\* to, without the erased element or after the inserted ones.
Visited(j, first, last) == [i \in 1..(last - first) |-> Deref(j, first + i - 1)]
Ahead(j, at) == Visited(j, at, End(j))
LoopGoesOn ==
  [][/\ EraseHere => Ahead(document', it') = Tail(Ahead(document, it))
     /\ InsertHere => IsSuffix(Ahead(document, it), Ahead(document', it'))
     /\ (EraseHere \/ InsertHere) /\ IsStructured(document) =>
          Visited(document', 0, it) = Visited(document, 0, it)]_vars
===============================================================================
