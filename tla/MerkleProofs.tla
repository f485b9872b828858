---------------------------- MODULE MerkleProofs ----------------------------
(***************************************************************************)
(* Proofs about Merkle, for every set of leaves, every bound on the lists  *)
(* and every number of nonces.                                             *)
(***************************************************************************)
EXTENDS Merkle, SequenceFacts, SequenceTheorems

(* A level is never empty below a root that is not: there is a last leaf to *)
(* pad it with.                                                             *)
LeafToPadWith == level # <<>> => merkle # <<>>

(* What the loop of findHash knows at its head: every nonce before the one  *)
(* at hand has been tried in vain.                                          *)
TriedInVain == /\ pc = "root" => nonce = 0
               /\ pc = "search" => \A n \in meets : nonce <= n

IInv == TypeOK /\ LeafToPadWith /\ TriedInVain /\ FirstNonce

LEMMA NoncesAreNatural == ASSUME NEW n \in Nonces PROVE n \in Nat /\ n < Limit
  BY LimitAssumption DEF Nonces

LEMMA ElementType ==
  ASSUME NEW S, NEW s \in Seq(S), NEW j \in 1 .. Len(s) PROVE s[j] \in S
  OBVIOUS

(* The pairs of a level of even length. *)
LEMMA PairsAreNodes ==
  ASSUME NEW nodes \in Seq(Seq(Leaves)), Len(nodes) % 2 = 0
  PROVE  [i \in 1 .. Len(nodes) \div 2 |-> Combine(nodes[2 * i - 1], nodes[2 * i])]
           \in Seq(Seq(Leaves))
<1> DEFINE half == Len(nodes) \div 2
<1>1. Len(nodes) \in Nat /\ half \in Nat /\ Len(nodes) = 2 * half
  OBVIOUS
<1> HIDE DEF half
<1>2. ASSUME NEW i \in 1 .. half
      PROVE  Combine(nodes[2 * i - 1], nodes[2 * i]) \in Seq(Leaves)
  <2>1. 2 * i - 1 \in 1 .. Len(nodes) /\ 2 * i \in 1 .. Len(nodes)
    BY <1>1
  <2>2. ASSUME NEW j \in 1 .. Len(nodes) PROVE nodes[j] \in Seq(Leaves)
    BY ElementType
  <2>3. nodes[2 * i - 1] \in Seq(Leaves) /\ nodes[2 * i] \in Seq(Leaves)
    BY <2>1, <2>2
  <2>4. QED
    BY <2>3 DEF Combine
<1>3. [i \in 1 .. half |-> Combine(nodes[2 * i - 1], nodes[2 * i])] \in Seq(Seq(Leaves))
  BY <1>1, <1>2
<1>4. QED
  BY <1>3 DEF half

LEMMA OddAndOne == ASSUME NEW n \in Nat, n % 2 = 1 PROVE (n + 1) % 2 = 0
  OBVIOUS

(* Padding makes the length even, and what it adds is a leaf. *)
LEMMA PaddedIsEven ==
  ASSUME NEW nodes \in Seq(Seq(Leaves)), merkle \in Seq(Leaves), merkle # <<>>
  PROVE  Padded(nodes) \in Seq(Seq(Leaves)) /\ Len(Padded(nodes)) % 2 = 0
<1>1. SX!Last(merkle) \in Leaves
  BY DEF SX!Last
<1>2. Node(SX!Last(merkle)) \in Seq(Leaves)
  BY <1>1 DEF Node
<1>3. CASE Len(nodes) % 2 = 1
  <2>1. Padded(nodes) = Append(nodes, Node(SX!Last(merkle)))
    BY <1>3 DEF Padded
  <2>2. Len(Padded(nodes)) = Len(nodes) + 1 /\ Padded(nodes) \in Seq(Seq(Leaves))
    BY <1>2, <2>1
  <2>3. Len(nodes) \in Nat
    OBVIOUS
  <2>4. Len(Padded(nodes)) % 2 = 0
    BY <1>3, <2>2, <2>3, OddAndOne
  <2>5. QED
    BY <2>2, <2>4
<1>4. CASE Len(nodes) % 2 # 1
  <2>1. Padded(nodes) = nodes
    BY <1>4 DEF Padded
  <2>2. Len(nodes) % 2 = 0
    BY <1>4
  <2>3. QED
    BY <2>1, <2>2
<1>5. QED
  BY <1>3, <1>4

LEMMA InvariantHolds == Spec => []IInv
<1>1. Init => IInv
  <2> SUFFICES ASSUME Init PROVE IInv
    OBVIOUS
  <2>1. merkle \in Seq(Leaves)
    BY MaxLeavesAssumption DEF Init, SX!BoundedSeq, SX!SeqOf
  <2>2. level \in Seq(Seq(Leaves)) /\ LeafToPadWith
    <3>1. Len(merkle) \in Nat /\ DOMAIN merkle = 1 .. Len(merkle)
      BY <2>1
    <3>2. ASSUME NEW i \in 1 .. Len(merkle) PROVE Node(merkle[i]) \in Seq(Leaves)
      BY <2>1, <3>2 DEF Node
    <3>3. level = [i \in 1 .. Len(merkle) |-> Node(merkle[i])]
      BY <3>1 DEF Init
    <3>4. level \in Seq(Seq(Leaves)) /\ Len(level) = Len(merkle)
      BY <3>1, <3>2, <3>3
    <3>5. QED
      BY <2>1, <3>4 DEF LeafToPadWith
  <2>3. TypeOK
    BY <2>1, <2>2, LimitAssumption DEF Init, TypeOK
  <2>4. TriedInVain /\ FirstNonce
    BY DEF Init, TriedInVain, FirstNonce
  <2>5. QED
    BY <2>2, <2>3, <2>4 DEF IInv
<1>2. IInv /\ [Next]_vars => IInv'
  <2> SUFFICES ASSUME IInv, [Next]_vars PROVE IInv'
    OBVIOUS
  <2> USE DEF IInv
  <2>1. ASSUME Level PROVE IInv'
    <3>1. level \in Seq(Seq(Leaves)) /\ merkle \in Seq(Leaves) /\ merkle # <<>>
      BY <2>1 DEF Level, TypeOK, LeafToPadWith
    <3>2. level' \in Seq(Seq(Leaves))
      BY <2>1, <3>1, PaddedIsEven, PairsAreNodes DEF Level
    <3>3. TypeOK' /\ LeafToPadWith'
      BY <2>1, <3>1, <3>2 DEF Level, TypeOK, LeafToPadWith
    <3>4. TriedInVain' /\ FirstNonce'
      BY <2>1 DEF Level, TriedInVain, FirstNonce
    <3>5. QED
      BY <3>3, <3>4
  <2>2. ASSUME Root PROVE IInv'
    <3>1. TypeOK' /\ LeafToPadWith'
      BY <2>2 DEF Root, TypeOK, LeafToPadWith
    <3>2. TriedInVain' /\ FirstNonce'
      BY <2>2, NoncesAreNatural DEF Root, TypeOK, TriedInVain, FirstNonce
    <3>3. QED
      BY <3>1, <3>2
  <2>3. ASSUME Found PROVE IInv'
    BY <2>3 DEF Found, TypeOK, LeafToPadWith, TriedInVain, FirstNonce
  <2>4. ASSUME Missed PROVE IInv'
    <3>1. TypeOK' /\ LeafToPadWith'
      BY <2>4, LimitAssumption DEF Missed, TypeOK, LeafToPadWith
    <3>2. ASSUME NEW n \in meets PROVE nonce + 1 <= n
      <4>1. nonce <= n /\ nonce # n /\ n \in Nat /\ nonce \in Nat
        BY <2>4, NoncesAreNatural DEF Missed, TypeOK, TriedInVain
      <4>2. QED
        BY <4>1
    <3>3. QED
      BY <2>4, <3>1, <3>2 DEF Missed, TriedInVain, FirstNonce
  <2>5. ASSUME Exhausted PROVE IInv'
    <3>1. meets = {}
      <4>1. ASSUME NEW n \in meets PROVE FALSE
        BY <2>5, NoncesAreNatural, LimitAssumption DEF Exhausted, TypeOK, TriedInVain
      <4>2. QED
        BY <4>1
    <3>2. QED
      BY <2>5, <3>1 DEF Exhausted, TypeOK, LeafToPadWith, TriedInVain, FirstNonce
  <2>6. CASE UNCHANGED vars
    BY <2>6 DEF vars, TypeOK, LeafToPadWith, TriedInVain, FirstNonce
  <2>7. QED
    BY <2>1, <2>2, <2>3, <2>4, <2>5, <2>6 DEF Next
<1>3. QED
  BY <1>1, <1>2, PTL DEF Spec
-----------------------------------------------------------------------------
(* The levels of getMerkleRoot are lists of nodes, each an even number of    *)
(* them joined to the next, and the nonce of findHash does not go beyond the *)
(* limit of its loop (common.hpp:19-63).                                     *)
THEOREM TypeCorrect == Spec => []TypeOK
<1>1. IInv => TypeOK
  BY DEF IInv
<1>2. QED
  BY <1>1, InvariantHolds, PTL

(* findHash returns the first nonce that meets the target, and "fail" only if*)
(* none below the limit does, for every limit (common.hpp:53-62).            *)
THEOREM FirstIsFound == Spec => []FirstNonce
<1>1. IInv => FirstNonce
  BY DEF IInv
<1>2. QED
  BY <1>1, InvariantHolds, PTL
-----------------------------------------------------------------------------
(* What RootHoldsTheList says of the leaves below a level, one by one. *)
IsPadded(list, below) ==
  /\ list \in Seq(Leaves) /\ below \in Seq(Leaves) /\ Len(list) <= Len(below)
  /\ \A i \in 1 .. Len(list) : below[i] = list[i]
  /\ \A i \in Len(list) + 1 .. Len(below) : below[i] = SX!Last(list)

LEMMA PaddedHolds ==
  ASSUME NEW below, IsPadded(merkle, below), below = SX!FlattenSeq(level)
  PROVE  RootHoldsTheList
<1>1. SubSeq(merkle, 1, Len(merkle)) = SubSeq(below, 1, Len(merkle))
  BY DEF IsPadded
<1>2. SX!IsPrefix(merkle, below)
  BY <1>1 DEF IsPadded, SX!IsPrefix
<1>3. QED
  BY <1>2 DEF IsPadded, RootHoldsTheList

LEMMA PaddedOnce ==
  ASSUME NEW list, NEW below, IsPadded(list, below), list # <<>>
  PROVE  IsPadded(list, below \o <<SX!Last(list)>>)
<1>1. SX!Last(list) \in Leaves
  BY DEF IsPadded, SX!Last
<1>2. PICK x \in Leaves : x = SX!Last(list)
  BY <1>1
<1> DEFINE more == below \o <<x>>
<1>3. /\ more \in Seq(Leaves) /\ Len(more) = Len(below) + 1 /\ more[Len(below) + 1] = x
      /\ \A i \in 1 .. Len(below) : more[i] = below[i]
  BY DEF IsPadded
<1>4. Len(list) \in Nat /\ Len(below) \in Nat
  BY DEF IsPadded
<1> HIDE DEF more
<1>5. IsPadded(list, more)
  <2>1. /\ list \in Seq(Leaves) /\ Len(list) <= Len(below)
        /\ \A i \in 1 .. Len(list) : below[i] = list[i]
        /\ \A i \in Len(list) + 1 .. Len(below) : below[i] = x
    BY <1>2 DEF IsPadded
  <2>2. Len(list) <= Len(more) /\ \A i \in 1 .. Len(list) : more[i] = list[i]
    BY <1>3, <1>4, <2>1
  <2>3. ASSUME NEW i \in Len(list) + 1 .. Len(more) PROVE more[i] = x
    <3>1. i \in Len(list) + 1 .. Len(below) \/ i = Len(below) + 1
      BY <1>3, <1>4
    <3>2. i \in Len(list) + 1 .. Len(below) => i \in 1 .. Len(below)
      BY <1>4
    <3>3. QED
      BY <1>3, <2>1, <3>1, <3>2
  <2>4. QED
    BY <1>2, <1>3, <2>1, <2>2, <2>3 DEF IsPadded
<1>6. QED
  BY <1>2, <1>5 DEF more

(* Two lists of one length are below the same leaves only if they are equal: *)
(* with their number, the root tells the transactions it was made of.        *)
LEMMA SameLeavesSameList ==
  ASSUME NEW s, NEW t, NEW below, IsPadded(s, below), IsPadded(t, below), Len(s) = Len(t)
  PROVE  s = t
<1>1. s \in Seq(Leaves) /\ t \in Seq(Leaves) /\ \A i \in 1 .. Len(s) : s[i] = t[i]
  BY DEF IsPadded
<1>2. QED
  BY <1>1, SeqEqual

(* The two instances of the library speak of one operator. *)
LEMMA FlattenIsFlatten == \A s : SX!FlattenSeq(s) = SE!FlattenSeq(s)
  BY DEF SX!FlattenSeq, SE!FlattenSeq

(* The next level has the leaves of the padded one below it. *)
LEMMA LevelBelow ==
  ASSUME TypeOK, merkle # <<>>, Level
  PROVE  SE!FlattenSeq(level') = SE!FlattenSeq(Padded(level))
<1>1. PICK nodes : nodes = Padded(level)
  OBVIOUS
<1>2. level' = [i \in 1 .. Len(nodes) \div 2 |-> Combine(nodes[2 * i - 1], nodes[2 * i])]
  BY <1>1 DEF Level
<1>3. nodes \in Seq(Seq(Leaves)) /\ Len(nodes) % 2 = 0
  BY <1>1, PaddedIsEven DEF TypeOK
<1>4. level' \in Seq(Seq(Leaves))
  BY <1>2, <1>3, PairsAreNodes
<1>5. PICK n : n = Len(nodes)
  OBVIOUS
<1>6. n \in Nat /\ n % 2 = 0
  BY <1>3, <1>5, WholePrefix
<1>7. n \div 2 \in Nat /\ n = 2 * (n \div 2)
  BY <1>6
<1>8. Len(level') = n \div 2
  BY <1>2, <1>5, <1>7
<1>9. \A i \in 1 .. Len(level') : level'[i] = nodes[2 * i - 1] \o nodes[2 * i]
  BY <1>2, <1>5, <1>8 DEF Combine
<1>10. IsPairs(Leaves, nodes, level')
  BY <1>3, <1>4, <1>5, <1>7, <1>8, <1>9 DEF IsPairs
<1>11. QED
  BY <1>1, <1>10, FlattenPairs

(* Every level stands for the whole list, in its order and padded with copies *)
(* of its last leaf, for lists of every length (common.hpp:32-47).            *)
THEOREM RootHolds == Spec => []RootHoldsTheList
<1> DEFINE Inv == IsPadded(merkle, SE!FlattenSeq(level))
<1>1. Init /\ IInv => Inv
  <2>1. SUFFICES ASSUME Init, IInv PROVE Inv
    OBVIOUS
  <2>2. merkle \in Seq(Leaves) /\ level \in Seq(Seq(Leaves))
    BY <2>1 DEF IInv, TypeOK
  <2>3. Len(level) = Len(merkle) /\ \A i \in 1 .. Len(merkle) : level[i] = <<merkle[i]>>
    BY <2>1, <2>2 DEF Init, Node
  <2>4. SE!FlattenSeq(level) = merkle
    BY <2>2, <2>3, FlattenSingles
  <2>5. IsPadded(merkle, merkle)
    BY <2>2 DEF IsPadded
  <2>6. QED
    BY <2>4, <2>5
<1>2. Inv /\ IInv /\ [Next]_vars => Inv'
  <2>1. SUFFICES ASSUME Inv, IInv, [Next]_vars PROVE Inv'
    OBVIOUS
  <2>2. CASE Level
    <3>1. merkle' = merkle /\ merkle # <<>> /\ level \in Seq(Seq(Leaves)) /\ TypeOK
      BY <2>1, <2>2 DEF Level, IInv, TypeOK, LeafToPadWith
    <3>2. SE!FlattenSeq(level') = SE!FlattenSeq(Padded(level))
      BY <2>2, <3>1, LevelBelow
    <3>3. CASE Len(level) % 2 = 1
      <4>1. PICK x : x = SX!Last(merkle)
        OBVIOUS
      <4>2. Padded(level) = Append(level, <<x>>)
        BY <3>3, <4>1 DEF Padded, Node
      <4>3. <<x>> \in Seq(Leaves)
        BY <3>1, <4>1 DEF TypeOK, SX!Last
      <4>4. SE!FlattenSeq(Append(level, <<x>>)) = SE!FlattenSeq(level) \o <<x>>
        BY <3>1, <4>3, FlattenAppend
      <4>5. IsPadded(merkle, SE!FlattenSeq(level) \o <<x>>)
        BY <2>1, <3>1, <4>1, PaddedOnce
      <4>6. QED
        BY <3>1, <3>2, <4>2, <4>4, <4>5
    <3>4. CASE Len(level) % 2 # 1
      <4>1. Padded(level) = level
        BY <3>4 DEF Padded
      <4>2. QED
        BY <2>1, <3>1, <3>2, <4>1
    <3>5. QED
      BY <3>3, <3>4
  <2>3. CASE ~ Level
    <3>1. merkle' = merkle /\ level' = level
      BY <2>1, <2>3 DEF Next, Root, Found, Missed, Exhausted, vars
    <3>2. QED
      BY <2>1, <3>1
  <2>4. QED
    BY <2>2, <2>3
<1>3. Inv => RootHoldsTheList
  BY FlattenIsFlatten, PaddedHolds
<1>4. QED
  BY <1>1, <1>2, <1>3, InvariantHolds, PTL DEF Spec

=============================================================================
