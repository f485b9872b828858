------------------------------ MODULE JsonPatch ------------------------------
(***************************************************************************)
(* JSON pointers, flatten and unflatten, patch and diff of json.hh.        *)
(*                                                                         *)
(* A pointer is the sequence of its reference tokens, its text a string.   *)
(* An operation of a patch is a record with the members of the object in   *)
(* the code: op, path and, as op needs them, value and from.               *)
(***************************************************************************)
EXTENDS JsonText

Slash == 47
Tilde == 126
Dash == <<Minus>>

RECURSIVE replace_substring(_, _, _)
replace_substring(s, f, t) ==
  IF Len(s) < Len(f) THEN s
  ELSE IF SubSeq(s, 1, Len(f)) = f
       THEN t \o replace_substring(SubSeq(s, Len(f) + 1, Len(s)), f, t)
       ELSE <<s[1]>> \o replace_substring(Tail(s), f, t)

escape(s) == replace_substring(replace_substring(s, <<Tilde>>, <<Tilde, 48>>), <<Slash>>, <<Tilde, 49>>)
unescapeTildeFirst(s) ==
  replace_substring(replace_substring(s, <<Tilde, 48>>, <<Tilde>>), <<Tilde, 49>>, <<Slash>>)
unescape(s) == replace_substring(replace_substring(s, <<Tilde, 49>>, <<Slash>>), <<Tilde, 48>>, <<Tilde>>)

to_stringPlain(tokens) == FlattenSeq([i \in DOMAIN tokens |-> <<Slash>> \o tokens[i]])
to_string(tokens) == FlattenSeq([i \in DOMAIN tokens |-> <<Slash>> \o escape(tokens[i])])
IndexText(i) == numtostr(Unsigned(Bytes(i)))

\* The tokens of a pointer's text, or an exception.
split(s) ==
  LET slashes  == SelectSeq([i \in 1..Len(s) |-> i], LAMBDA i : s[i] = Slash) \o <<Len(s) + 1>>
      tokens   == [i \in 1..(Len(slashes) - 1) |-> SubSeq(s, slashes[i] + 1, slashes[i + 1] - 1)]
      Sound(t) == \A i \in DOMAIN t : t[i] = Tilde => CharAt(t, i + 1) \in {48, 49}
  IN  CASE s = <<>> -> [type |-> "tokens", tokens |-> <<>>]
        [] s # <<>> /\ (s[1] # Slash \/ \E i \in DOMAIN tokens : ~Sound(tokens[i])) -> Throw("domain_error")
        [] OTHER -> [type |-> "tokens", tokens |-> [i \in DOMAIN tokens |-> unescape(tokens[i])]]

\* std::stoi for tokens without sign and space: the leading digits.
RECURSIVE StoI(_)
StoI(token) ==
  LET last == Len(token)
  IN  IF AfterDigits(token, 1) <= last THEN StoI(SubSeq(token, 1, AfterDigits(token, 1) - 1))
      ELSE IF last = 1 THEN token[1] - 48
      ELSE StoI(SubSeq(token, 1, last - 1)) * 10 + token[last] - 48
IsIndex(token) == CharAt(token, 1) \in Digits

(***************************************************************************)
(* One step of a pointer: the value it goes through, with room made for    *)
(* the child where that way of resolving makes it, and the child's place.  *)
(***************************************************************************)

Place(j, child) == IF Thrown(j) THEN j ELSE [type |-> "place", of |-> j, child |-> child]
Numbered(token, Room(_)) == IF IsIndex(token) THEN Place(Room(StoI(token)), StoI(token))
                            ELSE Throw("invalid_argument")

\* at(): every element has to be there.
StepChecked(j, token) ==
  LET Found(i) == IF Thrown(At(j, i)) THEN At(j, i) ELSE j
  IN  CASE j.type = "object" -> IF Thrown(AtKey(j, token)) THEN AtKey(j, token) ELSE Place(j, token)
        [] j.type = "array" -> IF token = Dash THEN Throw("out_of_range")
                               ELSE IF Len(token) > 1 /\ token[1] = 48 THEN Throw("domain_error")
                               ELSE Numbered(token, Found)
        [] OTHER -> Throw("out_of_range")

\* operator[]: null becomes an array for a token of digits or "-", else an
\* object; "-" is the place after the last element.
StepUnchecked(j, token) ==
  LET numeric == token = Dash \/ AfterDigits(token, 1) > Len(token)
      held    == IF j.type # "null" THEN j ELSE IF numeric THEN Array(<<>>) ELSE EmptyObject
      Room(i) == Subscript(held, i)
  IN  CASE held.type = "object" -> Place(SubscriptKey(held, token), token)
        [] held.type = "array"  -> IF Len(token) > 1 /\ token[1] = 48 THEN Throw("domain_error")
                                   ELSE IF token = Dash THEN Place(Room(Size(held)), Size(held))
                                   ELSE Numbered(token, Room)
        [] OTHER -> Throw("out_of_range")

\* unflatten: null becomes an array for the token "0", else an object.
StepCreate(j, token) ==
  LET Room(i) == Subscript(j, i)
  IN  CASE j.type = "null" /\ token = <<48>> -> Place(Room(0), 0)
        [] j.type \in {"null", "object"} /\ ~(j.type = "null" /\ token = <<48>>) ->
             Place(SubscriptKey(j, token), token)
        [] j.type = "array" -> Numbered(token, Room)
        [] OTHER -> Throw("domain_error")

Step(j, token, way) ==
  CASE way = "checked"   -> StepChecked(j, token)
    [] way = "unchecked" -> StepUnchecked(j, token)
    [] way = "create"    -> StepCreate(j, token)

ChildOf(place) == IF place.of.type = "array" THEN place.of.array[place.child + 1] ELSE place.of.object[place.child]

\* The value a pointer resolves to.
RECURSIVE Resolved(_, _, _), ResolvedFrom(_, _, _)
ResolvedFrom(place, tokens, way) ==
  IF Thrown(place) THEN place ELSE Resolved(ChildOf(place), tokens, way)
Resolved(j, tokens, way) ==
  IF tokens = <<>> THEN j ELSE ResolvedFrom(Step(j, tokens[1], way), Tail(tokens), way)

\* What j is after the value a pointer resolves to has been replaced.
RECURSIVE Replaced(_, _, _, _), ReplacedFrom(_, _, _, _)
PutBack(place, inner) ==
  IF Thrown(inner) THEN inner
  ELSE IF place.of.type = "array" THEN Assigned(place.of, place.child, inner)
  ELSE AssignedKey(place.of, place.child, inner)
ReplacedFrom(place, tokens, val, way) ==
  IF Thrown(place) THEN place ELSE PutBack(place, Replaced(ChildOf(place), tokens, val, way))
Replaced(j, tokens, val, way) ==
  IF Thrown(val) \/ tokens = <<>> THEN val
  ELSE ReplacedFrom(Step(j, tokens[1], way), Tail(tokens), val, way)

(***************************************************************************)
(* flatten and unflatten.                                                  *)
(***************************************************************************)

RECURSIVE FlattenTo(_, _, _)
FlattenTo(reference_string, value, result) ==
  LET Name(at) == IF value.type = "array" THEN IndexText(at) ELSE escape(KeyAt(value, at))
      Inner(sum, at) == FlattenTo(reference_string \o <<Slash>> \o Name(at), Deref(value, at), sum)
  IN  IF ~IsStructured(value) THEN AssignedKey(result, reference_string, value)
      ELSE IF Size(value) = 0 THEN AssignedKey(result, reference_string, Null)
      ELSE FoldLeft(Inner, result, [i \in 1..Size(value) |-> i - 1])

flatten(j) == FlattenTo(<<>>, j, EmptyObject)

unflatten(value) ==
  LET Put(sum, key) ==
        LET ptr == split(key)
        IN  IF Thrown(sum) THEN sum
            ELSE IF IsStructured(value.object[key]) THEN Throw("domain_error")
            ELSE IF Thrown(ptr) THEN ptr
            ELSE Replaced(sum, ptr.tokens, value.object[key], "create")
  IN  IF value.type # "object" THEN Throw("domain_error")
      ELSE FoldLeft(Put, Null, KeysOf(value))

(***************************************************************************)
(* patch.                                                                  *)
(***************************************************************************)

\* Every operation that throws leaves no result: patch works on a copy.
AddedTo(parent, last, val) ==
  CASE Thrown(parent) -> parent
    [] parent.type \in {"null", "object"} -> AssignedKey(parent, last, val)
    [] parent.type = "array" -> IF last = Dash THEN PushBack(parent, val)
                                ELSE IF ~IsIndex(last) THEN Throw("invalid_argument")
                                ELSE IF StoI(last) > Size(parent) THEN Throw("out_of_range")
                                ELSE Inserted(parent, StoI(last), <<val>>)
    [] OTHER -> Throw("assertion")

\* The top pointer has to be there, what is between it and the parent need not.
operation_add(j, tokens, val) ==
  LET top == Resolved(j, SubSeq(tokens, 1, 1), "checked")
  IN  IF tokens = <<>> THEN val
      ELSE IF Len(tokens) > 1 /\ Thrown(top) THEN top
      ELSE Replaced(j, Front(tokens),
                    AddedTo(Resolved(j, Front(tokens), "unchecked"), Last(tokens), val), "unchecked")

\* A parent that is neither an object nor an array is left as it is.
RemovedFrom(parent, last) ==
  CASE parent.type = "object" -> IF Find(parent, last) = End(parent) THEN Throw("out_of_range")
                                 ELSE EraseAt(parent, Find(parent, last))
    [] parent.type = "array" -> IF IsIndex(last) THEN EraseIndex(parent, StoI(last)) ELSE Throw("invalid_argument")
    [] OTHER -> parent

operation_remove(j, tokens) ==
  IF tokens = <<>> THEN Throw("domain_error")
  ELSE Replaced(j, Front(tokens), RemovedFrom(Resolved(j, Front(tokens), "checked"), Last(tokens)), "checked")

\* test: a value that is not there is one that differs.
Tested(j, found, expected) ==
  IF Thrown(found)
  THEN IF found.what = "out_of_range" THEN Throw("domain_error") ELSE found
  ELSE IF Same(found, expected) THEN j ELSE Throw("domain_error")

\* One operation on the result so far, with its pointers: a move takes the
\* value away before it is added.
Carried(j, val, tokens, from) ==
  LET source == Resolved(j, from, "checked")
      rest   == IF val.op = "move" THEN operation_remove(j, from) ELSE j
      value  == IF val.op = "add" THEN val.value ELSE source
  IN  CASE val.op = "remove"  -> operation_remove(j, tokens)
        [] val.op = "replace" -> Replaced(j, tokens, val.value, "checked")
        [] val.op = "test"    -> Tested(j, Resolved(j, tokens, "checked"), val.value)
        [] val.op = "copy"    -> Replaced(j, tokens, source, "unchecked")
        [] val.op \in {"add", "move"} -> IF Thrown(value) THEN value
                                         ELSE IF Thrown(rest) THEN rest
                                         ELSE operation_add(rest, tokens, value)
        [] OTHER -> Throw("invalid_argument")

Operation(j, val) ==
  LET needed == CASE val.op \in {"add", "replace", "test"} -> "value"
                  [] val.op \in {"move", "copy"} -> "from"
                  [] OTHER -> "op"
      ptr    == split(val.path)
      from   == IF needed = "from" THEN split(val.from) ELSE ptr
  IN  IF Thrown(j) THEN j
      ELSE IF ~({"op", "path"} \subseteq DOMAIN val) THEN Throw("invalid_argument")
      ELSE IF Thrown(ptr) THEN ptr
      ELSE IF needed \notin DOMAIN val THEN Throw("invalid_argument")
      ELSE IF Thrown(from) THEN from
      ELSE Carried(j, val, ptr.tokens, from.tokens)

patch(j, json_patch) == FoldLeft(Operation, j, json_patch)

(***************************************************************************)
(* diff.                                                                   *)
(***************************************************************************)

Below(path, token) == path \o <<Slash>> \o token

\* The elements from common on go, the last one first.
RemovalsInOrder(path, common, n) ==
  [i \in 1..(n - common) |-> [op |-> "remove", path |-> Below(path, IndexText(common + i - 1))]]
Removals(path, common, n) ==
  [i \in 1..(n - common) |-> [op |-> "remove", path |-> Below(path, IndexText(n - i))]]

RECURSIVE diff(_, _, _)
diff(source, target, path) ==
  LET replace == <<[op |-> "replace", path |-> path, value |-> target]>>
      common  == IF Size(source) < Size(target) THEN Size(source) ELSE Size(target)
      changed == [i \in 1..common |-> diff(source.array[i], target.array[i], Below(path, IndexText(i - 1)))]
      added   == [i \in 1..(Size(target) - common) |->
                    [op |-> "add", path |-> Below(path, IndexText(common + i - 1)), value |-> target.array[common + i]]]
      InBoth(k) == IF k \in DOMAIN target.object
                   THEN diff(source.object[k], target.object[k], Below(path, escape(k)))
                   ELSE <<[op |-> "remove", path |-> Below(path, escape(k))]>>
      InOne(k)  == IF k \in DOMAIN source.object THEN <<>>
                   ELSE <<[op |-> "add", path |-> Below(path, escape(k)), value |-> target.object[k]]>>
      Each(keys, Op(_)) == FlattenSeq([i \in DOMAIN keys |-> Op(keys[i])])
  IN  IF Same(source, target) THEN <<>>
      ELSE IF source.type # target.type THEN replace
      ELSE CASE source.type = "array"  -> FlattenSeq(changed) \o Removals(path, common, Size(source)) \o added
             [] source.type = "object" -> Each(KeysOf(source), InBoth) \o Each(KeysOf(target), InOne)
             [] OTHER -> replace
==============================================================================
