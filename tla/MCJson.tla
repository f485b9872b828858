-------------------------------- MODULE MCJson --------------------------------
(* An instance of JsonDocument for TLC: numbers at the borders of the widths, *)
(* strings at the borders of the lengths, and what the C library and the     *)
(* processor make of them.                                                   *)
EXTENDS JsonDocument

MCLeaves == {Null, Unsigned(Bytes(1))}
MCKeys == {<<49>>, <<47, 126, 49>>}

MCIntegers == {Integer(<<255, 255, 255, 255, 255, 255, 255, 255>>),
   Integer(<<255, 255, 255, 255, 255, 255, 255, 224>>),
   Integer(<<255, 255, 255, 255, 255, 255, 255, 223>>),
   Integer(<<255, 255, 255, 255, 255, 255, 255, 128>>),
   Integer(<<255, 255, 255, 255, 255, 255, 255, 127>>),
   Integer(<<255, 255, 255, 255, 255, 255, 128, 0>>),
   Integer(<<255, 255, 255, 255, 255, 255, 127, 255>>),
   Integer(<<255, 255, 255, 255, 128, 0, 0, 0>>),
   Integer(<<255, 255, 255, 255, 127, 255, 255, 255>>),
   Integer(<<128, 0, 0, 0, 0, 0, 0, 0>>)}
MCUnsigned == {Unsigned(<<0, 0, 0, 0, 0, 0, 0, 23>>),
   Unsigned(<<0, 0, 0, 0, 0, 0, 0, 24>>),
   Unsigned(<<0, 0, 0, 0, 0, 0, 0, 127>>),
   Unsigned(<<0, 0, 0, 0, 0, 0, 0, 128>>),
   Unsigned(<<0, 0, 0, 0, 0, 0, 0, 255>>),
   Unsigned(<<0, 0, 0, 0, 0, 0, 1, 0>>),
   Unsigned(<<0, 0, 0, 0, 0, 0, 255, 255>>),
   Unsigned(<<0, 0, 0, 0, 0, 1, 0, 0>>),
   Unsigned(<<0, 0, 0, 0, 255, 255, 255, 255>>),
   Unsigned(<<0, 0, 0, 1, 0, 0, 0, 0>>),
   Unsigned(<<128, 0, 0, 0, 0, 0, 0, 0>>),
   Unsigned(<<255, 255, 255, 255, 255, 255, 255, 255>>)}
MCFloats == {Float(<<63, 248, 0, 0, 0, 0, 0, 0>>),
   Float(<<128, 0, 0, 0, 0, 0, 0, 0>>),
   Float(<<191, 100, 122, 225, 71, 174, 20, 123>>),
   Float(<<68, 21, 175, 29, 120, 181, 140, 64>>),
   Float(<<63, 211, 51, 51, 51, 51, 51, 52>>)}

\* A string with every kind of escape and characters of two and four bytes.
MCStrings == {String(<<34, 92, 8, 12, 10, 13, 9, 31, 127, 195, 169, 240, 159, 152, 128>>)}
  \cup {String([i \in 1..n |-> 120]) : n \in {23, 24, 31, 32, 256}}
MCBoundary == MCIntegers \cup MCUnsigned \cup MCFloats \cup MCStrings \cup {Boolean(FALSE), Boolean(TRUE)}

MCAsFloat ==
     (Integer(<<0, 0, 0, 0, 0, 0, 0, 0>>) :> <<0, 0, 0, 0, 0, 0, 0, 0>>)
  @@ (Integer(<<255, 255, 255, 255, 255, 255, 255, 255>>) :> <<191, 240, 0, 0, 0, 0, 0, 0>>)
  @@ (Integer(<<255, 255, 255, 255, 255, 255, 255, 224>>) :> <<192, 64, 0, 0, 0, 0, 0, 0>>)
  @@ (Integer(<<255, 255, 255, 255, 255, 255, 255, 223>>) :> <<192, 64, 128, 0, 0, 0, 0, 0>>)
  @@ (Integer(<<255, 255, 255, 255, 255, 255, 255, 128>>) :> <<192, 96, 0, 0, 0, 0, 0, 0>>)
  @@ (Integer(<<255, 255, 255, 255, 255, 255, 255, 127>>) :> <<192, 96, 32, 0, 0, 0, 0, 0>>)
  @@ (Integer(<<255, 255, 255, 255, 255, 255, 128, 0>>) :> <<192, 224, 0, 0, 0, 0, 0, 0>>)
  @@ (Integer(<<255, 255, 255, 255, 255, 255, 127, 255>>) :> <<192, 224, 0, 32, 0, 0, 0, 0>>)
  @@ (Integer(<<255, 255, 255, 255, 128, 0, 0, 0>>) :> <<193, 224, 0, 0, 0, 0, 0, 0>>)
  @@ (Integer(<<255, 255, 255, 255, 127, 255, 255, 255>>) :> <<193, 224, 0, 0, 0, 32, 0, 0>>)
  @@ (Integer(<<128, 0, 0, 0, 0, 0, 0, 0>>) :> <<195, 224, 0, 0, 0, 0, 0, 0>>)
  @@ (Unsigned(<<0, 0, 0, 0, 0, 0, 0, 0>>) :> <<0, 0, 0, 0, 0, 0, 0, 0>>)
  @@ (Unsigned(<<0, 0, 0, 0, 0, 0, 0, 1>>) :> <<63, 240, 0, 0, 0, 0, 0, 0>>)
  @@ (Unsigned(<<0, 0, 0, 0, 0, 0, 0, 23>>) :> <<64, 55, 0, 0, 0, 0, 0, 0>>)
  @@ (Unsigned(<<0, 0, 0, 0, 0, 0, 0, 24>>) :> <<64, 56, 0, 0, 0, 0, 0, 0>>)
  @@ (Unsigned(<<0, 0, 0, 0, 0, 0, 0, 127>>) :> <<64, 95, 192, 0, 0, 0, 0, 0>>)
  @@ (Unsigned(<<0, 0, 0, 0, 0, 0, 0, 128>>) :> <<64, 96, 0, 0, 0, 0, 0, 0>>)
  @@ (Unsigned(<<0, 0, 0, 0, 0, 0, 0, 255>>) :> <<64, 111, 224, 0, 0, 0, 0, 0>>)
  @@ (Unsigned(<<0, 0, 0, 0, 0, 0, 1, 0>>) :> <<64, 112, 0, 0, 0, 0, 0, 0>>)
  @@ (Unsigned(<<0, 0, 0, 0, 0, 0, 255, 255>>) :> <<64, 239, 255, 224, 0, 0, 0, 0>>)
  @@ (Unsigned(<<0, 0, 0, 0, 0, 1, 0, 0>>) :> <<64, 240, 0, 0, 0, 0, 0, 0>>)
  @@ (Unsigned(<<0, 0, 0, 0, 255, 255, 255, 255>>) :> <<65, 239, 255, 255, 255, 224, 0, 0>>)
  @@ (Unsigned(<<0, 0, 0, 1, 0, 0, 0, 0>>) :> <<65, 240, 0, 0, 0, 0, 0, 0>>)
  @@ (Unsigned(<<128, 0, 0, 0, 0, 0, 0, 0>>) :> <<67, 224, 0, 0, 0, 0, 0, 0>>)
  @@ (Unsigned(<<255, 255, 255, 255, 255, 255, 255, 255>>) :> <<67, 240, 0, 0, 0, 0, 0, 0>>)
  @@ (Unsigned(<<255, 255, 255, 255, 255, 255, 255, 255>>) :> <<67, 240, 0, 0, 0, 0, 0, 0>>)
  @@ (Unsigned(<<255, 255, 255, 255, 255, 255, 255, 224>>) :> <<67, 240, 0, 0, 0, 0, 0, 0>>)
  @@ (Unsigned(<<255, 255, 255, 255, 255, 255, 255, 223>>) :> <<67, 240, 0, 0, 0, 0, 0, 0>>)
  @@ (Unsigned(<<255, 255, 255, 255, 255, 255, 255, 128>>) :> <<67, 240, 0, 0, 0, 0, 0, 0>>)
  @@ (Unsigned(<<255, 255, 255, 255, 255, 255, 255, 127>>) :> <<67, 240, 0, 0, 0, 0, 0, 0>>)
  @@ (Unsigned(<<255, 255, 255, 255, 255, 255, 128, 0>>) :> <<67, 239, 255, 255, 255, 255, 255, 240>>)
  @@ (Unsigned(<<255, 255, 255, 255, 255, 255, 127, 255>>) :> <<67, 239, 255, 255, 255, 255, 255, 240>>)
  @@ (Unsigned(<<255, 255, 255, 255, 128, 0, 0, 0>>) :> <<67, 239, 255, 255, 255, 240, 0, 0>>)
  @@ (Unsigned(<<255, 255, 255, 255, 127, 255, 255, 255>>) :> <<67, 239, 255, 255, 255, 240, 0, 0>>)
  @@ (Unsigned(<<128, 0, 0, 0, 0, 0, 0, 0>>) :> <<67, 224, 0, 0, 0, 0, 0, 0>>)

MCFloatText ==
     (<<0, 0, 0, 0, 0, 0, 0, 0>> :> <<48>>)
  @@ (<<63, 248, 0, 0, 0, 0, 0, 0>> :> <<49, 46, 53>>)
  @@ (<<128, 0, 0, 0, 0, 0, 0, 0>> :> <<45, 48>>)
  @@ (<<191, 100, 122, 225, 71, 174, 20, 123>> :> <<45, 48, 46, 48, 48, 50, 53>>)
  @@ (<<68, 21, 175, 29, 120, 181, 140, 64>> :> <<49, 101, 43, 50, 48>>)
  @@ (<<63, 211, 51, 51, 51, 51, 51, 52>> :> <<48, 46, 51>>)
MCFloatValue ==
     (<<48, 46, 48>> :> <<0, 0, 0, 0, 0, 0, 0, 0>>)
  @@ (<<49, 46, 53>> :> <<63, 248, 0, 0, 0, 0, 0, 0>>)
  @@ (<<45, 48, 46, 48>> :> <<128, 0, 0, 0, 0, 0, 0, 0>>)
  @@ (<<45, 48, 46, 48, 48, 50, 53>> :> <<191, 100, 122, 225, 71, 174, 20, 123>>)
  @@ (<<49, 101, 43, 50, 48>> :> <<68, 21, 175, 29, 120, 181, 140, 64>>)
  @@ (<<48, 46, 51>> :> <<63, 211, 51, 51, 51, 51, 51, 51>>)
===============================================================================
