---------------------------- MODULE SequenceFacts ----------------------------
(***************************************************************************)
(* Facts about data that the proofs of other modules rest on: induction    *)
(* over the natural numbers in a form that needs no operator as parameter, *)
(* and what FlattenSeq of the community modules returns.                   *)
(***************************************************************************)
EXTENDS Naturals, Sequences, FiniteSetTheorems, WellFoundedInduction, TLAPS

SE == INSTANCE SequencesExt
-----------------------------------------------------------------------------
(* Induction over the natural numbers, for a set: the library states it for *)
(* operators.  It rests on the order of the sets 0 .. n by inclusion.       *)
LEMMA SetInduction ==
  ASSUME NEW S, 0 \in S, \A n \in Nat : n \in S => n + 1 \in S
  PROVE  \A n \in Nat : n \in S
<1> DEFINE missing == {n \in Nat : n \notin S}
           below == {0 .. n : n \in missing}
<1> SUFFICES ASSUME missing # {} PROVE FALSE
  OBVIOUS
<1>1. IsWellFoundedOn(StrictSubsetOrdering(Nat), FiniteSubsetsOf(Nat))
  BY FS_StrictSubsetOrderingWellFounded
<1>2. below # {} /\ below \subseteq FiniteSubsetsOf(Nat)
  <2>1. ASSUME NEW n \in Nat PROVE 0 .. n \in FiniteSubsetsOf(Nat)
    <3>1. 0 .. n \subseteq Nat /\ IsFiniteSet(0 .. n)
      BY FS_Interval
    <3>2. QED
      BY <3>1 DEF FiniteSubsetsOf
  <2>2. QED
    BY <2>1
<1>3. PICK x \in below : \A y \in below : ~ (<<y, x>> \in StrictSubsetOrdering(Nat))
  <2> HIDE DEF below
  <2>1. QED
    BY <1>1, <1>2, WFMin
<1>4. PICK n \in missing : x = 0 .. n
  OBVIOUS
<1>5. n \in Nat /\ n # 0 /\ n - 1 \in Nat
  OBVIOUS
<1>6. n - 1 \in missing
  BY <1>5
<1>7. 0 .. n - 1 \in below
  BY <1>6
<1>8. 0 .. n - 1 \subseteq 0 .. n /\ n \in 0 .. n /\ n \notin 0 .. n - 1
  BY <1>5
<1>9. <<0 .. n - 1, 0 .. n>> \in StrictSubsetOrdering(Nat)
  BY <1>5, <1>8 DEF StrictSubsetOrdering
<1>10. QED
  BY <1>3, <1>4, <1>7, <1>9

(* The value of FlattenSeq's local function at each position. *)
IsFlatten(f, s, n) == \A i \in 1 .. n : f[i] = IF i = 1 THEN s[i] ELSE f[i - 1] \o s[i]

(* There is such a function for the first n elements of a list of lists. *)
LEMMA FlattenExists ==
  ASSUME NEW S, NEW s \in Seq(Seq(S))
  PROVE  \A n \in Nat : n <= Len(s) => \E f \in [1 .. n -> Seq(S)] : IsFlatten(f, s, n)
<1> DEFINE Good == {n \in Nat : n <= Len(s) => \E f \in [1 .. n -> Seq(S)] : IsFlatten(f, s, n)}
<1>1. 0 \in Good
  <2> DEFINE f == [i \in 1 .. 0 |-> <<>>]
  <2>1. f \in [1 .. 0 -> Seq(S)] /\ IsFlatten(f, s, 0)
    BY DEF IsFlatten
  <2>2. QED
    BY <2>1
<1>2. ASSUME NEW n \in Nat, n \in Good PROVE n + 1 \in Good
  <2> SUFFICES ASSUME n + 1 <= Len(s)
               PROVE  \E f \in [1 .. n + 1 -> Seq(S)] : IsFlatten(f, s, n + 1)
    OBVIOUS
  <2>1. Len(s) \in Nat /\ n <= Len(s) /\ n + 1 \in 1 .. Len(s) /\ s[n + 1] \in Seq(S)
    OBVIOUS
  <2>2. PICK g \in [1 .. n -> Seq(S)] : IsFlatten(g, s, n)
    BY <1>2, <2>1
  <2> DEFINE f == [i \in 1 .. n + 1 |->
                     IF i = n + 1 THEN (IF n = 0 THEN s[1] ELSE g[n] \o s[n + 1]) ELSE g[i]]
  <2>3. f \in [1 .. n + 1 -> Seq(S)]
    <3>1. ASSUME n # 0 PROVE g[n] \o s[n + 1] \in Seq(S)
      BY <2>1, <3>1
    <3>2. QED
      BY <2>1, <3>1
  <2>4. ASSUME NEW i \in 1 .. n + 1
        PROVE  f[i] = IF i = 1 THEN s[i] ELSE f[i - 1] \o s[i]
    <3>1. CASE i = n + 1
      <4>1. CASE n = 0
        BY <3>1, <4>1
      <4>2. CASE n # 0
        <5>1. i - 1 = n /\ n \in 1 .. n + 1 /\ n # n + 1
          BY <3>1, <4>2
        <5>2. f[i - 1] = g[n]
          BY <5>1
        <5>3. QED
          BY <3>1, <4>2, <5>1, <5>2
      <4>3. QED
        BY <4>1, <4>2
    <3>2. CASE i # n + 1
      <4>1. i \in 1 .. n /\ f[i] = g[i]
        BY <3>2
      <4>2. g[i] = IF i = 1 THEN s[i] ELSE g[i - 1] \o s[i]
        BY <2>2, <4>1 DEF IsFlatten
      <4>3. i # 1 => f[i - 1] = g[i - 1]
        BY <3>2
      <4>4. QED
        BY <4>1, <4>2, <4>3
    <3>3. QED
      BY <3>1, <3>2
  <2>5. IsFlatten(f, s, n + 1)
    <3> HIDE DEF f
    <3>1. QED
      BY <2>3, <2>4 DEF IsFlatten
  <2>6. QED
    BY <2>3, <2>5
<1>3. QED
  <2> HIDE DEF Good
  <2>1. \A n \in Nat : n \in Good
    BY <1>1, <1>2, SetInduction
  <2>2. QED
    BY <2>1 DEF Good

(* It depends on these elements only: there is one. *)
LEMMA FlattenUnique ==
  ASSUME NEW s, NEW t, NEW f, NEW g, NEW m \in Nat, NEW n \in Nat, m <= n,
         IsFlatten(f, s, m), IsFlatten(g, t, n), \A i \in 1 .. m : s[i] = t[i]
  PROVE  \A i \in 1 .. m : f[i] = g[i]
<1> DEFINE Same == {i \in Nat : i \in 1 .. m => f[i] = g[i]}
<1>1. 0 \in Same
  OBVIOUS
<1>2. ASSUME NEW i \in Nat, i \in Same PROVE i + 1 \in Same
  <2> SUFFICES ASSUME i + 1 \in 1 .. m PROVE f[i + 1] = g[i + 1]
    OBVIOUS
  <2>1. f[i + 1] = IF i + 1 = 1 THEN s[i + 1] ELSE f[i + 1 - 1] \o s[i + 1]
    BY DEF IsFlatten
  <2>2. g[i + 1] = IF i + 1 = 1 THEN t[i + 1] ELSE g[i + 1 - 1] \o t[i + 1]
    BY DEF IsFlatten
  <2>3. i + 1 - 1 = i /\ (i # 0 => f[i] = g[i])
    BY <1>2
  <2>4. QED
    BY <2>1, <2>2, <2>3
<1>3. QED
  <2> HIDE DEF Same
  <2>1. \A i \in Nat : i \in Same
    BY <1>1, <1>2, SetInduction
  <2>2. QED
    BY <2>1 DEF Same

(* The same for one sequence, and for a sequence and its first elements. *)
LEMMA FlattenSame ==
  ASSUME NEW s, NEW f, NEW g, NEW n \in Nat, IsFlatten(f, s, n), IsFlatten(g, s, n)
  PROVE  \A i \in 1 .. n : f[i] = g[i]
<1>1. n <= n /\ \A i \in 1 .. n : s[i] = s[i]
  OBVIOUS
<1>2. QED
  BY <1>1, FlattenUnique

LEMMA FlattenStep ==
  ASSUME NEW s, NEW t, NEW f, NEW g, NEW n \in Nat,
         IsFlatten(f, s, n), IsFlatten(g, t, n + 1), \A i \in 1 .. n : s[i] = t[i]
  PROVE  g[n + 1] = IF n = 0 THEN t[n + 1] ELSE f[n] \o t[n + 1]
<1>1. n + 1 \in Nat /\ n <= n + 1
  OBVIOUS
<1>2. \A i \in 1 .. n : f[i] = g[i]
  BY <1>1, FlattenUnique
<1>3. n + 1 \in 1 .. n + 1 /\ n + 1 - 1 = n /\ (n + 1 = 1 <=> n = 0) /\ (n # 0 => n \in 1 .. n)
  OBVIOUS
<1>4. g[n + 1] = IF n + 1 = 1 THEN t[n + 1] ELSE g[n + 1 - 1] \o t[n + 1]
  BY <1>3 DEF IsFlatten
<1>5. QED
  BY <1>2, <1>3, <1>4

(* The CHOOSE behind a recursive function, once there is such a function. *)
LEMMA FlattenChosen ==
  ASSUME NEW s, NEW n \in Nat, NEW g, DOMAIN g = 1 .. n, g = [i \in 1 .. n |-> g[i]],
         IsFlatten(g, s, n)
  PROVE  g = CHOOSE f : f = [i \in 1 .. n |-> IF i = 1 THEN s[i] ELSE f[i - 1] \o s[i]]
<1> DEFINE F == CHOOSE f : f = [i \in 1 .. n |-> IF i = 1 THEN s[i] ELSE f[i - 1] \o s[i]]
<1>1. g = [i \in 1 .. n |-> IF i = 1 THEN s[i] ELSE g[i - 1] \o s[i]]
  <2> DEFINE h == [i \in 1 .. n |-> IF i = 1 THEN s[i] ELSE g[i - 1] \o s[i]]
  <2>1. ASSUME NEW i \in 1 .. n PROVE g[i] = h[i]
    <3>1. g[i] = IF i = 1 THEN s[i] ELSE g[i - 1] \o s[i]
      BY DEF IsFlatten
    <3>2. h[i] = IF i = 1 THEN s[i] ELSE g[i - 1] \o s[i]
      OBVIOUS
    <3> HIDE DEF h
    <3>3. QED
      BY <3>1, <3>2
  <2>2. DOMAIN h = 1 .. n /\ h = [i \in 1 .. n |-> h[i]]
    OBVIOUS
  <2> HIDE DEF h
  <2>3. g = h
    BY <2>1, <2>2
  <2>4. QED
    BY <2>3 DEF h
<1>2. F = [i \in 1 .. n |-> IF i = 1 THEN s[i] ELSE F[i - 1] \o s[i]]
  BY <1>1
<1> HIDE DEF F
<1>3. IsFlatten(F, s, n) /\ DOMAIN F = 1 .. n /\ F = [i \in 1 .. n |-> F[i]]
  <2> DEFINE h == [i \in 1 .. n |-> IF i = 1 THEN s[i] ELSE F[i - 1] \o s[i]]
  <2>1. \A i \in 1 .. n : h[i] = IF i = 1 THEN s[i] ELSE F[i - 1] \o s[i]
    OBVIOUS
  <2>2. DOMAIN h = 1 .. n /\ h = [i \in 1 .. n |-> h[i]]
    OBVIOUS
  <2>3. F = h
    BY <1>2
  <2> HIDE DEF h
  <2>4. QED
    BY <2>1, <2>2, <2>3 DEF IsFlatten
<1>4. \A i \in 1 .. n : F[i] = g[i]
  BY <1>3, FlattenSame
<1>5. F = g
  BY <1>3, <1>4
<1>6. QED
  BY <1>5 DEF F

(* FlattenSeq is the last value of that function. *)
LEMMA FlattenIs ==
  ASSUME NEW S, NEW s \in Seq(Seq(S)), Len(s) > 0
  PROVE  \E f \in [1 .. Len(s) -> Seq(S)] :
            IsFlatten(f, s, Len(s)) /\ SE!FlattenSeq(s) = f[Len(s)]
<1>1. Len(s) \in Nat /\ Len(s) <= Len(s) /\ Len(s) # 0
  OBVIOUS
<1>2. PICK g \in [1 .. Len(s) -> Seq(S)] : IsFlatten(g, s, Len(s))
  BY <1>1, FlattenExists
<1>3. DOMAIN g = 1 .. Len(s) /\ g = [i \in 1 .. Len(s) |-> g[i]]
  OBVIOUS
<1>4. g = CHOOSE f : f = [i \in 1 .. Len(s) |-> IF i = 1 THEN s[i] ELSE f[i - 1] \o s[i]]
  BY <1>1, <1>2, <1>3, FlattenChosen, Zenon
<1>5. SE!FlattenSeq(s) = g[Len(s)]
  BY <1>1, <1>4, Zenon DEF SE!FlattenSeq
<1>6. QED
  BY <1>2, <1>5

(* FlattenSeq of no list, its type, and of one list more. *)
LEMMA FlattenEmpty == SE!FlattenSeq(<<>>) = <<>>
  BY DEF SE!FlattenSeq

LEMMA FlattenType ==
  ASSUME NEW S, NEW s \in Seq(Seq(S))
  PROVE  SE!FlattenSeq(s) \in Seq(S)
<1>1. CASE Len(s) = 0
  <2>1. s = <<>>
    BY <1>1
  <2>2. SE!FlattenSeq(s) = <<>>
    BY <2>1, FlattenEmpty
  <2>3. <<>> \in Seq(S)
    OBVIOUS
  <2>4. QED
    BY <2>2, <2>3
<1>2. CASE Len(s) # 0
  <2>1. Len(s) > 0 /\ Len(s) \in 1 .. Len(s)
    BY <1>2
  <2>2. PICK f \in [1 .. Len(s) -> Seq(S)] : SE!FlattenSeq(s) = f[Len(s)]
    BY <2>1, FlattenIs
  <2>3. QED
    BY <2>1, <2>2
<1>3. QED
  BY <1>1, <1>2

(* What Append does to a sequence, its elements one by one. *)
LEMMA AppendIs ==
  ASSUME NEW S, NEW s \in Seq(S), NEW x \in S
  PROVE  /\ Append(s, x) \in Seq(S) /\ Len(s) \in Nat /\ Len(Append(s, x)) = Len(s) + 1
         /\ Append(s, x)[Len(s) + 1] = x
         /\ \A i \in 1 .. Len(s) : s[i] = Append(s, x)[i]
  OBVIOUS

LEMMA FlattenAppend ==
  ASSUME NEW S, NEW s \in Seq(Seq(S)), NEW x \in Seq(S)
  PROVE  SE!FlattenSeq(Append(s, x)) = SE!FlattenSeq(s) \o x
<1> DEFINE t == Append(s, x)
<1>1. /\ t \in Seq(Seq(S)) /\ Len(s) \in Nat /\ Len(t) = Len(s) + 1
      /\ t[Len(s) + 1] = x /\ \A i \in 1 .. Len(s) : s[i] = t[i]
  BY AppendIs
<1> HIDE DEF t
<1>2. Len(t) > 0
  BY <1>1
<1>3. PICK g : IsFlatten(g, t, Len(s) + 1) /\ SE!FlattenSeq(t) = g[Len(s) + 1]
  <2>1. PICK g \in [1 .. Len(t) -> Seq(S)] :
          IsFlatten(g, t, Len(t)) /\ SE!FlattenSeq(t) = g[Len(t)]
    BY <1>1, <1>2, FlattenIs
  <2>2. QED
    BY <1>1, <2>1
<1>4. CASE Len(s) = 0
  <2>1. s = <<>>
    BY <1>4
  <2>2. IsFlatten(<<>>, s, Len(s))
    BY <1>4 DEF IsFlatten
  <2>3. g[Len(s) + 1] = x
    BY <1>1, <1>3, <1>4, <2>2, FlattenStep
  <2>4. <<>> \o x = x
    OBVIOUS
  <2>5. QED
    BY <1>3, <2>1, <2>3, <2>4, FlattenEmpty DEF t
<1>5. CASE Len(s) # 0
  <2>1. Len(s) > 0
    BY <1>1, <1>5
  <2>2. PICK f : IsFlatten(f, s, Len(s)) /\ SE!FlattenSeq(s) = f[Len(s)]
    BY <2>1, FlattenIs
  <2>3. g[Len(s) + 1] = f[Len(s)] \o x
    <3>1. g[Len(s) + 1] = IF Len(s) = 0 THEN t[Len(s) + 1] ELSE f[Len(s)] \o t[Len(s) + 1]
      <4>1. /\ Len(s) \in Nat /\ IsFlatten(f, s, Len(s)) /\ IsFlatten(g, t, Len(s) + 1)
            /\ \A i \in 1 .. Len(s) : s[i] = t[i]
        BY <1>1, <1>3, <2>2
      <4>2. QED
        BY <4>1, FlattenStep
    <3>2. QED
      BY <1>1, <1>5, <3>1
  <2>4. QED
    BY <1>3, <2>2, <2>3 DEF t
<1>6. QED
  BY <1>4, <1>5

(* The first elements of a sequence: one more, none, and all of them. *)
LEMMA PrefixStep ==
  ASSUME NEW S, NEW s \in Seq(S), NEW k \in Nat, k + 1 <= Len(s)
  PROVE  /\ SubSeq(s, 1, k) \in Seq(S) /\ s[k + 1] \in S
         /\ SubSeq(s, 1, k + 1) = Append(SubSeq(s, 1, k), s[k + 1])
  OBVIOUS

LEMMA WholePrefix ==
  ASSUME NEW S, NEW s \in Seq(S)
  PROVE  /\ SubSeq(s, 1, 0) = <<>> /\ SubSeq(s, 1, Len(s)) = s /\ Len(s) \in Nat
         /\ \A i \in 1 .. Len(s) : s[i] \in S
  OBVIOUS

(* Two sequences appended one after the other. *)
LEMMA ConcatTwice ==
  ASSUME NEW S, NEW x, NEW y, NEW z, NEW a, NEW b,
         x \in Seq(S) /\ a \in Seq(S) /\ b \in Seq(S) /\ y = x \o a /\ z = y \o b
  PROVE  z = x \o (a \o b)
  BY SMTT(20)

(* Two more elements at once; the typing of s is cited only where it is used. *)
TwoMore(s, m) == SE!FlattenSeq(SubSeq(s, 1, m + 1 + 1)) =
                   SE!FlattenSeq(SubSeq(s, 1, m)) \o (s[m + 1] \o s[m + 1 + 1])

LEMMA FlattenPrefixTwo ==
  \A S, s, m : s \in Seq(Seq(S)) /\ m \in Nat /\ m + 1 + 1 <= Len(s) => TwoMore(s, m)
<1>1. SUFFICES ASSUME NEW S, NEW s, NEW m,
                      s \in Seq(Seq(S)) /\ m \in Nat /\ m + 1 + 1 <= Len(s)
               PROVE  TwoMore(s, m)
  OBVIOUS
<1>2. PICK p, q, r, a, b : /\ p = SubSeq(s, 1, m) /\ q = SubSeq(s, 1, m + 1)
                           /\ r = SubSeq(s, 1, m + 1 + 1)
                           /\ a = s[m + 1] /\ b = s[m + 1 + 1]
  OBVIOUS
<1>3. m + 1 \in Nat /\ m + 1 <= Len(s)
  BY <1>1, WholePrefix
<1>4. p \in Seq(Seq(S)) /\ a \in Seq(S) /\ q = Append(p, a)
  BY <1>1, <1>2, <1>3, PrefixStep
<1>5. q \in Seq(Seq(S)) /\ b \in Seq(S) /\ r = Append(q, b)
  BY <1>1, <1>2, <1>3, PrefixStep
<1>6. SE!FlattenSeq(q) = SE!FlattenSeq(p) \o a
  BY <1>4, FlattenAppend
<1>7. SE!FlattenSeq(r) = SE!FlattenSeq(q) \o b
  BY <1>5, FlattenAppend
<1>8. SE!FlattenSeq(p) \in Seq(S)
  BY <1>4, FlattenType
<1>9. PICK x, y, z : x = SE!FlattenSeq(p) /\ y = SE!FlattenSeq(q) /\ z = SE!FlattenSeq(r)
  OBVIOUS
<1>10. x \in Seq(S) /\ a \in Seq(S) /\ b \in Seq(S) /\ y = x \o a /\ z = y \o b
  BY <1>4, <1>5, <1>6, <1>7, <1>8, <1>9
<1>11. z = x \o (a \o b)
  BY <1>10, ConcatTwice
<1>12. QED
  BY <1>2, <1>9, <1>11 DEF TwoMore

(* The sequence "pairs" joins the elements of "nodes" two by two. *)
IsPairs(S, nodes, pairs) ==
  /\ nodes \in Seq(Seq(S)) /\ pairs \in Seq(Seq(S)) /\ Len(nodes) = 2 * Len(pairs)
  /\ \A i \in 1 .. Len(pairs) : pairs[i] = nodes[2 * i - 1] \o nodes[2 * i]

(* The first k pairs flatten to what the first 2k nodes flatten to. *)
SameBelow(nodes, pairs, k) ==
  SE!FlattenSeq(SubSeq(pairs, 1, k)) = SE!FlattenSeq(SubSeq(nodes, 1, 2 * k))

(* One pair more flattens to what two nodes more flatten to. *)
LEMMA PairsStep ==
  \A S, nodes, pairs, k :
    IsPairs(S, nodes, pairs) /\ k \in Nat /\ k + 1 <= Len(pairs) /\ SameBelow(nodes, pairs, k)
    => SameBelow(nodes, pairs, k + 1)
<1>1. SUFFICES ASSUME NEW S, NEW nodes, NEW pairs, NEW k, IsPairs(S, nodes, pairs),
                      k \in Nat, k + 1 <= Len(pairs), SameBelow(nodes, pairs, k)
               PROVE  SameBelow(nodes, pairs, k + 1)
  OBVIOUS
<1>2. PICK m, a, b : m = 2 * k /\ a = nodes[m + 1] /\ b = nodes[m + 1 + 1]
  OBVIOUS
<1>3. nodes \in Seq(Seq(S)) /\ pairs \in Seq(Seq(S)) /\ Len(pairs) \in Nat
  BY <1>1, WholePrefix DEF IsPairs
<1>4. /\ m \in Nat /\ m + 1 + 1 <= Len(nodes) /\ 2 * (k + 1) = m + 1 + 1
      /\ k + 1 \in 1 .. Len(pairs) /\ 2 * (k + 1) - 1 = m + 1
  <2>1. Len(nodes) = 2 * Len(pairs)
    BY <1>1 DEF IsPairs
  <2>2. Len(pairs) \in Nat
    BY <1>3
  <2>3. QED
    BY <1>1, <1>2, <2>1, <2>2
<1>5. pairs[k + 1] = a \o b
  BY <1>1, <1>2, <1>4 DEF IsPairs
<1>6. /\ SubSeq(pairs, 1, k) \in Seq(Seq(S)) /\ pairs[k + 1] \in Seq(S)
      /\ SubSeq(pairs, 1, k + 1) = Append(SubSeq(pairs, 1, k), pairs[k + 1])
  BY <1>1, <1>3, PrefixStep
<1>7. SE!FlattenSeq(SubSeq(pairs, 1, k + 1)) = SE!FlattenSeq(SubSeq(pairs, 1, k)) \o pairs[k + 1]
  BY <1>6, FlattenAppend
<1>8. SE!FlattenSeq(SubSeq(nodes, 1, m + 1 + 1)) = SE!FlattenSeq(SubSeq(nodes, 1, m)) \o (a \o b)
  <2>1. TwoMore(nodes, m)
    BY <1>3, <1>4, FlattenPrefixTwo
  <2>2. QED
    BY <1>2, <2>1 DEF TwoMore
<1>9. QED
  BY <1>1, <1>2, <1>4, <1>5, <1>7, <1>8 DEF SameBelow

(* Joining the lists of a list two by two does not change what it flattens to. *)
LEMMA FlattenPairs ==
  \A S, nodes, pairs :
    IsPairs(S, nodes, pairs) => SE!FlattenSeq(pairs) = SE!FlattenSeq(nodes)
<1>1. SUFFICES ASSUME NEW S, NEW nodes, NEW pairs, IsPairs(S, nodes, pairs)
               PROVE  SE!FlattenSeq(pairs) = SE!FlattenSeq(nodes)
  OBVIOUS
<1> DEFINE Good == {k \in Nat : k <= Len(pairs) => SameBelow(nodes, pairs, k)}
<1>2. 0 \in Good
  <2>1. SubSeq(pairs, 1, 0) = <<>> /\ SubSeq(nodes, 1, 0) = <<>> /\ 2 * 0 = 0
    BY <1>1, WholePrefix DEF IsPairs
  <2>2. QED
    BY <2>1 DEF SameBelow
<1>3. Len(pairs) \in Nat
  BY <1>1, WholePrefix DEF IsPairs
<1>4. ASSUME NEW k \in Nat, k \in Good PROVE k + 1 \in Good
  <2>1. ASSUME k + 1 <= Len(pairs) PROVE SameBelow(nodes, pairs, k + 1)
    <3>1. SameBelow(nodes, pairs, k)
      BY <1>3, <1>4, <2>1
    <3>2. QED
      BY <1>1, <2>1, <3>1, PairsStep
  <2>2. QED
    BY <2>1
<1>5. Len(pairs) \in Good
  <2> HIDE DEF Good
  <2>1. QED
    BY <1>2, <1>3, <1>4, SetInduction
<1>6. SameBelow(nodes, pairs, Len(pairs))
  BY <1>3, <1>5
<1>7. /\ SubSeq(pairs, 1, Len(pairs)) = pairs
      /\ SubSeq(nodes, 1, Len(nodes)) = nodes /\ Len(nodes) = 2 * Len(pairs)
  BY <1>1, WholePrefix DEF IsPairs
<1>8. QED
  BY <1>6, <1>7 DEF SameBelow

(* Lists of one element each flatten to the list of these elements. *)
LEMMA FlattenSingles ==
  ASSUME NEW S, NEW s \in Seq(S), NEW singles \in Seq(Seq(S)), Len(singles) = Len(s),
         \A i \in 1 .. Len(s) : singles[i] = <<s[i]>>
  PROVE  SE!FlattenSeq(singles) = s
<1> DEFINE Good == {k \in Nat : k <= Len(s) =>
                     SE!FlattenSeq(SubSeq(singles, 1, k)) = SubSeq(s, 1, k)}
<1>1. 0 \in Good
  <2>1. SubSeq(singles, 1, 0) = <<>> /\ SubSeq(s, 1, 0) = <<>>
    BY WholePrefix
  <2>2. QED
    BY <2>1, FlattenEmpty
<1>2. ASSUME NEW k \in Nat, k \in Good PROVE k + 1 \in Good
  <2>1. SUFFICES ASSUME k + 1 <= Len(s)
               PROVE  SE!FlattenSeq(SubSeq(singles, 1, k + 1)) = SubSeq(s, 1, k + 1)
    OBVIOUS
  <2>2. k <= Len(s) /\ k + 1 \in 1 .. Len(s)
    BY <2>1, WholePrefix
  <2>3. SE!FlattenSeq(SubSeq(singles, 1, k)) = SubSeq(s, 1, k)
    BY <1>2, <2>2
  <2> HIDE DEF Good
  <2>4. /\ SubSeq(singles, 1, k) \in Seq(Seq(S)) /\ singles[k + 1] \in Seq(S)
        /\ SubSeq(singles, 1, k + 1) = Append(SubSeq(singles, 1, k), singles[k + 1])
    BY <2>1, PrefixStep
  <2>5. /\ SubSeq(s, 1, k) \in Seq(S) /\ s[k + 1] \in S
        /\ SubSeq(s, 1, k + 1) = Append(SubSeq(s, 1, k), s[k + 1])
    BY <2>1, PrefixStep
  <2>6. SE!FlattenSeq(SubSeq(singles, 1, k + 1)) = SubSeq(s, 1, k) \o singles[k + 1]
    BY <2>3, <2>4, FlattenAppend
  <2>7. singles[k + 1] = <<s[k + 1]>>
    BY <2>2
  <2>8. SubSeq(s, 1, k) \o <<s[k + 1]>> = Append(SubSeq(s, 1, k), s[k + 1])
    BY <2>5
  <2>9. QED
    BY <2>5, <2>6, <2>7, <2>8
<1>3. Len(s) \in Good
  <2> HIDE DEF Good
  <2>1. Len(s) \in Nat
    BY WholePrefix
  <2>2. QED
    BY <1>1, <1>2, <2>1, SetInduction
<1>4. SE!FlattenSeq(SubSeq(singles, 1, Len(s))) = SubSeq(s, 1, Len(s))
  BY <1>3, WholePrefix
<1>5. SubSeq(singles, 1, Len(singles)) = singles /\ SubSeq(s, 1, Len(s)) = s
  BY WholePrefix
<1>6. QED
  BY <1>4, <1>5
=============================================================================
