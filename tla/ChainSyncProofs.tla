-------------------------- MODULE ChainSyncProofs --------------------------
(***************************************************************************)
(* Proofs about ChainSync: a node that joins starts with the longest chain *)
(* it was told of and is known afterwards to the nodes it was given, no    *)
(* list has a node twice, and a chain that is sent out has been posted once*)
(* to every node the loop has passed.  They need an invariant about what is*)
(* under way: AddedSoFar and ListedByLoop say whom a loop of               *)
(* addSelfToNetwork has told and that nobody else lists its node, PostsAre *)
(* what a loop of sendNewChain has posted.                                 *)
(***************************************************************************)
EXTENDS ChainSync, FiniteSetTheorems, SequenceTheorems, WellFoundedInduction, TLAPS

(* A set of numbers has a least one. *)
LEMMA Least ==
  ASSUME NEW T \in SUBSET Nat, T # {}
  PROVE  \E x \in T : \A y \in T : x <= y
<1>1. PICK x \in T : \A y \in T : ~ (<<y, x>> \in OpToRel(<, Nat))
  BY NatLessThanWellFounded, WFMin
<1>2. \A y \in T : ~ (y < x)
  BY <1>1 DEF OpToRel
<1> QED BY <1>2

(* The list of the members of a finite set has each of them. *)
LEMMA Listed ==
  ASSUME NEW S, IsFiniteSet(S)
  PROVE  /\ SX!SetToSeq(S) \in Seq(S)
         /\ SX!IsInjective(SX!SetToSeq(S))
         /\ \A x \in S : \E i \in 1 .. Len(SX!SetToSeq(S)) : SX!SetToSeq(S)[i] = x
<1> DEFINE n == Cardinality(S)
           s == SX!SetToSeq(S)
<1>1. n \in Nat /\ ExistsBijection(1 .. n, S)
  BY FS_CardinalityType
<1>2. \E f \in [1 .. n -> S] : SX!IsInjective(f)
  BY <1>1 DEF ExistsBijection, Bijection, Injection, Surjection, IsInjective, SX!IsInjective
<1>3. SX!Cardinality(S) = Cardinality(S)
  BY DEF Cardinality, SX!Cardinality
<1>4. s \in [1 .. n -> S] /\ SX!IsInjective(s)
  BY <1>2, <1>3 DEF SX!SetToSeq
<1>5. s \in Seq(S) /\ Len(s) = n
  BY <1>1, <1>4, SeqDef, LenProperties
<1> DEFINE image == {s[i] : i \in 1 .. n}
<1>6. ExistsBijection(1 .. n, image)
  <2>1. s \in Bijection(1 .. n, image)
    BY <1>4 DEF Bijection, Injection, Surjection, IsInjective, SX!IsInjective
  <2> QED BY <2>1 DEF ExistsBijection
<1>7. IsFiniteSet(1 .. n) /\ Cardinality(1 .. n) = n
  BY <1>1, FS_Interval
<1>8. Cardinality(image) = n
  BY <1>6, <1>7, FS_Bijection
<1>9. image \in SUBSET S
  BY <1>4
<1>10. image = S
  BY <1>8, <1>9, FS_Subset
<1> QED BY <1>4, <1>5, <1>10

(* The values the variables take. *)
Calls == [op : Ops, next : Nat \ {0}, body : Chains, vect : Seq(Answers)]

Shape == /\ up \subseteq Nodes /\ smooth \in BOOLEAN
         /\ chain \in [Nodes -> Chains]
         /\ list \in [Nodes -> Seq(Nodes)]
         /\ call \in [Nodes -> Calls]
         /\ sent \in [Nodes -> Seq(Posts)]

(* A loop has come no further than one past the end of its list. *)
InBounds == \A n \in Nodes : call[n].next <= Len(list[n]) + 1

(* Every list has every member but the node itself. *)
MembersListed == \A n \in Nodes, m \in Members : n # m => SX!Contains(list[n], m)

MembersSend == \A m \in Members : call[m].op \in {"none", "send"}

(* The nodes the loop of addSelfToNetwork has passed know the node. *)
AddedSoFar ==
  smooth => \A j \in Joiners : call[j].op = "add" =>
    \A i \in 1 .. Len(list[j]) : i < call[j].next => SX!Contains(list[list[j][i]], j)

Known == InBounds /\ MembersListed /\ MembersSend /\ AddedSoFar /\ JoinerIsKnown

(* A loop that has not come to its end is at a node of its list. *)
LEMMA TargetIsNode ==
  ASSUME Shape, NEW n \in Nodes, More(n)
  PROVE  Target(n) \in Nodes /\ call[n].next \in 1 .. Len(list[n]) /\ Len(list[n]) \in Nat
<1>1. list[n] \in Seq(Nodes) /\ call[n] \in Calls
  BY DEF Shape
<1> HIDE DEF Shape
<1>2. Len(list[n]) \in Nat /\ call[n].next \in 1 .. Len(list[n])
  BY <1>1 DEF More, Calls
<1> QED BY <1>1, <1>2 DEF Target

(* The chain of the first block alone is a chain, and so is a chain with one *)
(* more block where there is room.                                          *)
LEMMA ChainsAre ==
  /\ <<>> \in Chains
  /\ \A blocks \in Chains : /\ blocks \in Seq(Nodes) /\ Len(blocks) \in 0 .. MaxBlocks
                           /\ \A n \in Nodes : Len(blocks) < MaxBlocks => Append(blocks, n) \in Chains
<1>1. <<>> \in Seq(Nodes) /\ Len(<<>>) = 0
  BY EmptySeq
<1>2. ASSUME NEW blocks \in Chains
      PROVE  /\ blocks \in Seq(Nodes) /\ Len(blocks) \in 0 .. MaxBlocks
             /\ \A n \in Nodes : Len(blocks) < MaxBlocks => Append(blocks, n) \in Chains
  <2>1. blocks \in Seq(Nodes) /\ Len(blocks) \in Nat /\ Len(blocks) <= MaxBlocks
    BY LenProperties DEF Chains
  <2>2. \A n \in Nodes : Append(blocks, n) \in Seq(Nodes) /\ Len(Append(blocks, n)) = Len(blocks) + 1
    BY <2>1, AppendProperties
  <2> QED BY <2>1, <2>2, BlocksAssumption DEF Chains
<1> QED BY <1>1, <1>2, BlocksAssumption DEF Chains

(* What a function is entered and left with is a call. *)
LEMMA ReturnIsCall ==
  /\ Return \in Calls
  /\ \A op \in Ops, body \in Chains : Enter(op, body) \in Calls
  /\ \A body \in Chains, vect \in Seq(Answers) : [Enter("add", body) EXCEPT !.vect = vect] \in Calls
BY ChainsAre DEF Return, Enter, Calls, Ops

(* What a node answers is an answer. *)
LEMMA AnswerIs ==
  ASSUME Shape, NEW n \in Nodes, NEW answer \in Answer(n)
  PROVE  answer \in Answers
<1>1. chain[n] \in Chains /\ <<>> \in Chains
  BY ChainsAre DEF Shape
<1>2. \A blocks \in Chains, reads \in BOOLEAN : [node |-> n, reads |-> reads, chain |-> blocks] \in Answers
  BY DEF Answers
<1>3. \/ answer = [node |-> n, reads |-> TRUE, chain |-> chain[n]]
      \/ answer = [node |-> n, reads |-> FALSE, chain |-> <<>>]
  BY DEF Answer
<1> QED BY <1>1, <1>2, <1>3

(* Some answer is the first of the longest. *)
LEMMA BiggestIsLongest ==
  ASSUME NEW vect \in Seq(Answers), vect # <<>>
  PROVE  /\ Biggest(vect) \in DOMAIN vect /\ vect[Biggest(vect)].chain \in Chains
         /\ \A j \in DOMAIN vect : Len(vect[j].chain) <= Len(vect[Biggest(vect)].chain)
<1> DEFINE length(i) == Len(vect[i].chain)
           short == {MaxBlocks - length(i) : i \in DOMAIN vect}
<1>1. /\ DOMAIN vect = 1 .. Len(vect) /\ Len(vect) \in Nat /\ DOMAIN vect # {}
      /\ \A i \in DOMAIN vect : vect[i].chain \in Chains
  <2>1. DOMAIN vect = 1 .. Len(vect) /\ Len(vect) \in Nat /\ vect \in [1 .. Len(vect) -> Answers]
    BY LenProperties
  <2>2. Len(vect) # 0
    BY EmptySeq
  <2> QED BY <2>1, <2>2 DEF Answers
<1>2. \A i \in DOMAIN vect : length(i) \in 0 .. MaxBlocks
  BY <1>1, ChainsAre
<1> HIDE DEF length
<1>3. short \in SUBSET Nat /\ short # {}
  BY <1>1, <1>2, BlocksAssumption
<1>4. PICK least \in short : \A x \in short : least <= x
  BY <1>3, Least
<1>5. PICK k \in DOMAIN vect : least = MaxBlocks - length(k)
  BY <1>4
<1>6. \A j \in DOMAIN vect : length(j) <= length(k)
  <2>1. ASSUME NEW j \in DOMAIN vect PROVE length(j) <= length(k)
    <3>1. least <= MaxBlocks - length(j)
      BY <1>4
    <3> QED BY <1>2, <1>5, <3>1, BlocksAssumption
  <2> QED BY <2>1
<1> DEFINE longest == {i \in DOMAIN vect : length(i) = length(k)}
<1>7. longest \in SUBSET Nat /\ longest # {}
  BY <1>1
<1>8. PICK i \in longest : \A j \in longest : i <= j
  BY <1>7, Least
<1>9. /\ i \in DOMAIN vect
      /\ \A j \in DOMAIN vect : length(j) <= length(i)
      /\ \A j \in 1 .. i - 1 : length(j) < length(i)
  BY <1>1, <1>2, <1>6, <1>8
<1> USE DEF length
<1>10. /\ i \in DOMAIN vect
       /\ \A j \in DOMAIN vect : Len(vect[j].chain) <= Len(vect[i].chain)
       /\ \A j \in 1 .. i - 1 : Len(vect[j].chain) < Len(vect[i].chain)
  BY <1>9
<1>11. Biggest(vect) \in DOMAIN vect
       /\ \A j \in DOMAIN vect : Len(vect[j].chain) <= Len(vect[Biggest(vect)].chain)
  BY <1>10 DEF Biggest
<1> QED BY <1>1, <1>11

(* Every step keeps the variables within their values. *)
LEMMA NextShape == Shape /\ [Next]_vars => Shape'
<1> SUFFICES ASSUME Shape, [Next]_vars PROVE Shape'
  OBVIOUS
<1>1. ASSUME NEW n \in Nodes, Get(n) PROVE Shape'
  <2>1. PICK answer \in Answer(Target(n)) :
          call' = [call EXCEPT ![n].next = @ + 1, ![n].vect = Append(@, answer)]
    BY <1>1 DEF Get
  <2>2. answer \in Answers
    BY <1>1, TargetIsNode, AnswerIs DEF Get
  <2>3. call[n] \in Calls
    BY DEF Shape
  <2>4. Append(call[n].vect, answer) \in Seq(Answers)
    BY <2>2, <2>3, AppendProperties DEF Calls
  <2>5. call' \in [Nodes -> Calls]
    BY <2>1, <2>3, <2>4 DEF Shape, Calls
  <2>6. smooth' \in BOOLEAN
    BY <1>1 DEF Get
  <2> QED BY <1>1, <2>5, <2>6 DEF Get, Shape
<1>2. ASSUME NEW n \in Nodes PROVE Advance(n) \in [Nodes -> Calls]
  <2>1. call[n] \in Calls
    BY DEF Shape
  <2>2. [call[n] EXCEPT !.next = @ + 1] \in Calls
    BY <2>1 DEF Calls
  <2> QED BY <2>2 DEF Advance, Shape
<1>3. ASSUME NEW n \in Nodes, Fails(n) PROVE Shape'
  BY <1>2, <1>3 DEF Fails, Shape
<1>4. ASSUME NEW n \in Nodes, Choose(n) PROVE Shape'
  <2>1. call[n].vect \in Seq(Answers)
    BY DEF Shape, Calls
  <2>2. CASE call' = [call EXCEPT ![n] = [Return EXCEPT !.op = "dead"]] /\ UNCHANGED chain
    <3>1. [Return EXCEPT !.op = "dead"] \in Calls
      BY ChainsAre DEF Return, Calls, Ops
    <3> QED BY <1>4, <2>2, <3>1 DEF Choose, Shape
  <2>3. ASSUME NEW biggest \in Chains,
               call' = [call EXCEPT ![n] = [Enter("add", biggest) EXCEPT !.vect = call[n].vect]],
               chain' = [chain EXCEPT ![n] = biggest]
        PROVE  Shape'
    <3>1. [Enter("add", biggest) EXCEPT !.vect = call[n].vect] \in Calls
      BY <2>1, ReturnIsCall
    <3>2. call' \in [Nodes -> Calls] /\ chain' \in [Nodes -> Chains]
      BY <2>3, <3>1 DEF Shape
    <3> QED BY <1>4, <3>2 DEF Choose, Shape
  <2> QED BY <1>4, <2>1, <2>2, <2>3, BiggestIsLongest DEF Choose
<1>5. ASSUME NEW n \in Nodes, Add(n) PROVE Shape'
  <2>1. list' \in [Nodes -> Seq(Nodes)]
    BY <1>5, TargetIsNode, AppendProperties DEF Add, AddNode, Shape
  <2> QED BY <1>2, <1>5, <2>1 DEF Add, Shape
<1>6. ASSUME NEW n \in Nodes, NewChain(n) PROVE Shape'
  <2>1. Append(chain[n], n) \in Chains
    BY <1>6, ChainsAre DEF NewChain, Shape
  <2>2. Enter("send", Append(chain[n], n)) \in Calls
    BY <2>1, ReturnIsCall DEF Ops
  <2> QED BY <1>6, <2>1, <2>2 DEF NewChain, Shape
<1>7. ASSUME NEW n \in Nodes, Send(n) PROVE Shape'
  <2>1. Target(n) \in Nodes /\ call[n].body \in Chains
    BY <1>7, TargetIsNode DEF Send, Shape, Calls
  <2>2. chain' \in [Nodes -> Chains]
    BY <1>7, <2>1 DEF Send, PostedChain, Shape
  <2>3. [node |-> Target(n), chain |-> call[n].body] \in Posts
    BY <2>1 DEF Posts
  <2>4. sent' \in [Nodes -> Seq(Posts)]
    BY <1>7, <2>3, AppendProperties DEF Send, Shape
  <2> QED BY <1>2, <1>7, <2>2, <2>4 DEF Send, Shape
<1>8. ASSUME NEW n \in Nodes, Done(n) PROVE Shape'
  <2>1. <<>> \in Seq(Posts)
    BY EmptySeq
  <2> QED BY <1>8, <2>1, ReturnIsCall DEF Done, Shape
<1>9. ASSUME NEW n \in Nodes, Down(n) PROVE Shape'
  BY <1>9 DEF Down, Shape
<1>10. CASE UNCHANGED vars
  BY <1>10 DEF vars, Shape
<1> QED BY <1>1, <1>3, <1>4, <1>5, <1>6, <1>7, <1>8, <1>9, <1>10 DEF Next

(* So do the initial states. *)
LEMMA InitShape == Init => Shape
<1> SUFFICES ASSUME Init PROVE Shape
  OBVIOUS
<1>1. IsFiniteSet(Members) /\ \A n \in Members : IsFiniteSet(Members \ {n})
  BY NodesAssumption, FS_Subset DEF Nodes
<1>2. /\ SX!SetToSeq(Members) \in Seq(Nodes)
      /\ \A n \in Members : SX!SetToSeq(Members \ {n}) \in Seq(Nodes)
  <2>1. \A S \in SUBSET Nodes : IsFiniteSet(S) => SX!SetToSeq(S) \in Seq(Nodes)
    <3>1. ASSUME NEW S \in SUBSET Nodes, IsFiniteSet(S) PROVE SX!SetToSeq(S) \in Seq(Nodes)
      <4>1. SX!SetToSeq(S) \in Seq(S)
        BY <3>1, Listed
      <4> QED BY <4>1, SeqDef
    <3> QED BY <3>1
  <2> QED BY <1>1, <2>1 DEF Nodes
<1>3. call \in [Nodes -> Calls]
  BY ReturnIsCall, ChainsAre DEF Init, Ops
<1>4. list \in [Nodes -> Seq(Nodes)]
  BY <1>2 DEF Init
<1>5. chain \in [Nodes -> Chains] /\ sent \in [Nodes -> Seq(Posts)]
  BY ChainsAre, EmptySeq DEF Init
<1> QED BY <1>3, <1>4, <1>5 DEF Init, Shape
-----------------------------------------------------------------------------
(* The lists of nodes *)

(* A list only grows, and only at its end. *)
LEMMA ListsGrow ==
  ASSUME Shape, [Next]_vars
  PROVE  \A n \in Nodes : /\ Len(list[n]) \in Nat /\ Len(list'[n]) \in Nat
                          /\ Len(list[n]) <= Len(list'[n])
                          /\ \A i \in 1 .. Len(list[n]) : list'[n][i] = list[n][i]
<1>1. \A n \in Nodes : list[n] \in Seq(Nodes) /\ Len(list[n]) \in Nat
  BY DEF Shape
<1>2. CASE UNCHANGED list
  BY <1>1, <1>2
<1>3. ASSUME NEW k \in Nodes, Add(k)
      PROVE  \A n \in Nodes : /\ Len(list'[n]) \in Nat
                              /\ Len(list[n]) <= Len(list'[n])
                              /\ \A i \in 1 .. Len(list[n]) : list'[n][i] = list[n][i]
  <2> DEFINE t == Target(k)
  <2>1. t \in Nodes
    BY <1>3, TargetIsNode DEF Add
  <2>2. list' = [list EXCEPT ![t] = Append(@, k)]
    BY <1>3 DEF Add, AddNode
  <2> HIDE DEF t
  <2>3. list'[t] = Append(list[t], k) /\ \A n \in Nodes : n # t => list'[n] = list[n]
    BY <2>1, <2>2 DEF Shape
  <2>4. /\ Len(list'[t]) \in Nat /\ Len(list[t]) <= Len(list'[t])
        /\ \A i \in 1 .. Len(list[t]) : list'[t][i] = list[t][i]
    BY <1>1, <2>1, <2>3, AppendProperties
  <2> QED BY <1>1, <2>1, <2>3, <2>4
<1>4. ASSUME NEW k \in Nodes, Get(k) \/ Fails(k) \/ Choose(k) \/ NewChain(k) \/ Send(k) \/ Done(k) \/ Down(k)
      PROVE UNCHANGED list
  BY <1>4 DEF Get, Fails, Choose, NewChain, Send, Done, Down
<1> QED BY <1>1, <1>2, <1>3, <1>4 DEF Next, vars

(* A node that is in a list stays there. *)
LEMMA StaysListed ==
  ASSUME Shape, [Next]_vars, NEW n \in Nodes, NEW m, SX!Contains(list[n], m)
  PROVE  SX!Contains(list'[n], m)
<1>1. PICK i \in 1 .. Len(list[n]) : list[n][i] = m
  BY DEF SX!Contains
<1>2. i \in 1 .. Len(list'[n]) /\ list'[n][i] = m
  BY <1>1, ListsGrow
<1> QED BY <1>2 DEF SX!Contains

(* A node initializes with a list of the members. *)
LEMMA InitKnown == Init => Known
<1> SUFFICES ASSUME Init PROVE Known
  OBVIOUS
<1>1. Shape
  BY InitShape
<1>2. InBounds
  BY <1>1 DEF InBounds, Init, Return, Enter, Shape
<1>3. MembersListed
  <2>1. ASSUME NEW n \in Nodes, NEW m \in Members, n # m PROVE SX!Contains(list[n], m)
    <3>1. CASE n \in Members
      <4>1. IsFiniteSet(Members \ {n}) /\ list[n] = SX!SetToSeq(Members \ {n})
        BY <3>1, NodesAssumption, FS_Subset DEF Nodes, Init
      <4>2. \A x \in Members \ {n} : \E i \in 1 .. Len(SX!SetToSeq(Members \ {n})) :
              SX!SetToSeq(Members \ {n})[i] = x
        BY <4>1, Listed
      <4>3. \E i \in 1 .. Len(list[n]) : list[n][i] = m
        BY <2>1, <4>1, <4>2
      <4> QED BY <4>3 DEF SX!Contains
    <3>2. CASE n \notin Members
      <4>1. IsFiniteSet(Members) /\ list[n] = SX!SetToSeq(Members)
        BY <3>2, NodesAssumption, FS_Subset DEF Nodes, Init
      <4>2. \E i \in 1 .. Len(list[n]) : list[n][i] = m
        BY <4>1, Listed
      <4> QED BY <4>2 DEF SX!Contains
    <3> QED BY <3>1, <3>2
  <2> QED BY <2>1 DEF MembersListed
<1>4. MembersSend /\ AddedSoFar /\ JoinerIsKnown
  <2>1. \A m \in Members : call[m].op = "none"
    BY DEF Init, Nodes, Return
  <2>2. \A j \in Joiners : call[j].op = "get"
    BY NodesAssumption DEF Init, Nodes, Enter
  <2> QED BY <2>1, <2>2 DEF MembersSend, AddedSoFar, JoinerIsKnown
<1> QED BY <1>2, <1>3, <1>4 DEF Known

(* Only its own requests move a node's call and what it has posted. *)
LEMMA OwnSteps ==
  ASSUME Shape, [Next]_vars, NEW n \in Nodes
  PROVE  \/ UNCHANGED <<call[n], sent[n]>>
         \/ Get(n) \/ Fails(n) \/ Choose(n) \/ Add(n) \/ NewChain(n) \/ Send(n) \/ Done(n)
<1>1. ASSUME NEW k \in Nodes, k # n,
             Get(k) \/ Fails(k) \/ Choose(k) \/ Add(k) \/ NewChain(k) \/ Send(k) \/ Done(k)
      PROVE  UNCHANGED <<call[n], sent[n]>>
  BY <1>1 DEF Get, Fails, Choose, Add, NewChain, Send, Done, Advance, Shape
<1>2. ASSUME NEW k \in Nodes, Down(k) PROVE UNCHANGED <<call[n], sent[n]>>
  BY <1>2 DEF Down
<1>3. UNCHANGED vars => UNCHANGED <<call[n], sent[n]>>
  BY DEF vars
<1> QED BY <1>1, <1>2, <1>3 DEF Next

(* What a turn of the loop of addSelfToNetwork or sendNewChain, and one that *)
(* fails, makes of the call.                                                *)
LEMMA Advances ==
  ASSUME Shape, NEW n \in Nodes, Fails(n) \/ Add(n) \/ Send(n)
  PROVE  /\ More(n) /\ call'[n].next = call[n].next + 1 /\ call'[n].op = call[n].op
         /\ call'[n].body = call[n].body /\ call'[n].vect = call[n].vect
<1>1. call' = Advance(n) /\ More(n) /\ call[n] \in Calls
  BY DEF Fails, Add, Send, Shape
<1>2. call'[n] = [call[n] EXCEPT !.next = @ + 1]
  BY <1>1 DEF Advance, Shape
<1> QED BY <1>1, <1>2 DEF Calls

(* What an answer makes of the call. *)
LEMMA Answered ==
  ASSUME Shape, NEW n \in Nodes, Get(n)
  PROVE  /\ More(n) /\ call[n].op = "get" /\ call'[n].op = "get" /\ call'[n].next = call[n].next + 1
         /\ Len(call'[n].vect) = Len(call[n].vect) + 1
<1>1. PICK answer \in Answer(Target(n)) :
        call' = [call EXCEPT ![n].next = @ + 1, ![n].vect = Append(@, answer)]
  BY DEF Get
<1>2. call[n] \in Calls /\ answer \in Answers /\ More(n) /\ call[n].op = "get"
  BY TargetIsNode, AnswerIs DEF Get, Shape
<1>3. PICK vect : vect = Append(call[n].vect, answer)
  OBVIOUS
<1>4. call'[n] = [call[n] EXCEPT !.next = @ + 1, !.vect = vect]
  BY <1>1, <1>3 DEF Shape
<1>5. Len(vect) = Len(call[n].vect) + 1
  BY <1>2, <1>3, AppendProperties DEF Calls
<1> QED BY <1>2, <1>4, <1>5 DEF Calls

(* What the choice makes of it: the chain is that of an answer, and none of *)
(* them has a longer one.                                                   *)
LEMMA Chosen ==
  ASSUME Shape, NEW n \in Nodes, Choose(n)
  PROVE  /\ call[n].op = "get" /\ call'[n].next = 1
         /\ \/ call'[n].op = "dead" /\ call'[n].vect = <<>>
            \/ /\ call'[n].op = "add" /\ call'[n].vect = call[n].vect
               /\ \E i \in DOMAIN call[n].vect : call[n].vect[i].chain = call'[n].body
               /\ \A i \in DOMAIN call[n].vect : Len(call[n].vect[i].chain) <= Len(call'[n].body)
<1> DEFINE vect == call[n].vect
           biggest == vect[Biggest(vect)].chain
           dead == [Return EXCEPT !.op = "dead"]
           add == [Enter("add", biggest) EXCEPT !.vect = vect]
<1>1. vect \in Seq(Answers) /\ call[n].op = "get"
  BY DEF Shape, Calls, Choose
<1>2. /\ dead.op = "dead" /\ dead.next = 1 /\ dead.vect = <<>>
      /\ add.op = "add" /\ add.next = 1 /\ add.vect = vect /\ add.body = biggest
  BY DEF Return, Enter
<1>3. call' = [call EXCEPT ![n] = dead] \/ (vect # <<>> /\ call' = [call EXCEPT ![n] = add])
  BY DEF Choose
<1>4. vect # <<>> => /\ Biggest(vect) \in DOMAIN vect
                    /\ \A i \in DOMAIN vect : Len(vect[i].chain) <= Len(biggest)
  BY <1>1, BiggestIsLongest
<1> HIDE DEF dead, add
<1>5. call'[n] = dead \/ (vect # <<>> /\ call'[n] = add)
  BY <1>3 DEF Shape
<1> QED BY <1>1, <1>2, <1>4, <1>5

(* What the start and the end of a call of sendNewChain make of it. *)
LEMMA Entered ==
  ASSUME Shape, NEW n \in Nodes, NewChain(n)
  PROVE  /\ call[n].op = "none" /\ call'[n].op = "send" /\ call'[n].next = 1 /\ call'[n].vect = <<>>
BY DEF NewChain, Enter, Shape

LEMMA Left ==
  ASSUME Shape, NEW n \in Nodes, Done(n)
  PROVE  /\ call[n].op \in {"add", "send"} /\ ~ More(n) /\ sent'[n] = <<>>
         /\ call'[n].op = "none" /\ call'[n].next = 1 /\ call'[n].vect = <<>>
BY DEF Done, Return, Shape

(* In which ways a call moves. *)
LEMMA CallsMove ==
  ASSUME Shape, NEW n \in Nodes, [Next]_vars
  PROVE  \/ UNCHANGED call[n]
         \/ /\ More(n) /\ call'[n].next = call[n].next + 1
            /\ call'[n].op = call[n].op /\ call[n].op \in {"get", "add", "send"}
         \/ call[n].op = "get" /\ call'[n].op \in {"dead", "add"} /\ call'[n].next = 1
         \/ call[n].op = "none" /\ call'[n].op = "send" /\ call'[n].next = 1
         \/ /\ call[n].op \in {"add", "send"} /\ ~ More(n)
            /\ call'[n].op = "none" /\ call'[n].next = 1
<1>1. Fails(n) \/ Add(n) \/ Send(n) => call[n].op \in {"get", "add", "send"}
  BY DEF Fails, Add, Send
<1> QED BY <1>1, OwnSteps, Advances, Answered, Chosen, Entered, Left

(* Once a request has failed that is remembered. *)
LEMMA SmoothSince ==
  ASSUME Shape, [Next]_vars, smooth'
  PROVE  smooth
BY DEF Shape, Next, Get, Fails, Choose, Add, NewChain, Send, Done, Down, vars

(* A node whose loop of addSelfToNetwork advances has been put into the list *)
(* of the node it has passed.                                                *)
LEMMA AddsSelf ==
  ASSUME Shape, [Next]_vars, smooth', NEW n \in Nodes,
         call[n].op = "add", call'[n].next = call[n].next + 1
  PROVE  SX!Contains(list'[Target(n)], n)
<1>1. Add(n)
  <2>1. call[n].next \in Nat \ {0}
    BY DEF Shape, Calls
  <2>2. ~ (Get(n) \/ Fails(n) \/ Choose(n) \/ NewChain(n) \/ Send(n))
    BY DEF Get, Fails, Choose, NewChain, Send
  <2> QED BY <2>1, <2>2, OwnSteps, Left
<1>2. Target(n) \in Nodes /\ list[Target(n)] \in Seq(Nodes)
  BY <1>1, TargetIsNode DEF Add, Shape
<1> DEFINE s == list[Target(n)]
<1>3. list'[Target(n)] = Append(s, n)
  BY <1>1, <1>2 DEF Add, AddNode, Shape
<1> HIDE DEF s
<1>4. s \in Seq(Nodes)
  BY <1>2 DEF s
<1>5. Len(Append(s, n)) \in Nat \ {0} /\ Append(s, n)[Len(Append(s, n))] = n
  BY <1>4, AppendProperties
<1> QED BY <1>3, <1>5 DEF SX!Contains

(* Every step keeps what is known of the lists. *)
LEMMA NextKnown ==
  ASSUME Shape, Known, [Next]_vars
  PROVE  Known'
<1> USE DEF Known
<1>1. Shape' /\ \A n \in Nodes : call[n] \in Calls /\ call'[n] \in Calls
  BY NextShape DEF Shape
<1>2. InBounds'
  <2>1. ASSUME NEW n \in Nodes PROVE call'[n].next <= Len(list'[n]) + 1
    <3>1. /\ Len(list[n]) \in Nat /\ Len(list'[n]) \in Nat /\ Len(list[n]) <= Len(list'[n])
          /\ call[n].next \in Nat /\ call[n].next <= Len(list[n]) + 1
      BY <1>1, ListsGrow DEF InBounds, Calls
    <3>2. \/ UNCHANGED call[n]
          \/ More(n) /\ call'[n].next = call[n].next + 1
          \/ call'[n].next = 1
      BY CallsMove
    <3> QED BY <3>1, <3>2 DEF More
  <2> QED BY <2>1 DEF InBounds
<1>3. MembersListed'
  BY StaysListed DEF MembersListed
<1>4. MembersSend'
  <2>1. ASSUME NEW m \in Members PROVE call'[m].op \in {"none", "send"}
    <3>1. m \in Nodes /\ call[m].op \in {"none", "send"}
      BY DEF Nodes, MembersSend
    <3> QED BY <3>1, CallsMove
  <2> QED BY <2>1 DEF MembersSend
<1>5. AddedSoFar'
  <2>1. ASSUME smooth', NEW j \in Joiners, call'[j].op = "add",
               NEW i \in 1 .. Len(list'[j]), i < call'[j].next
        PROVE  SX!Contains(list'[list'[j][i]], j)
    <3>1. smooth /\ j \in Nodes
      BY <2>1, SmoothSince DEF Nodes
    <3>2. /\ call[j].next \in Nat /\ call'[j].next \in Nat /\ call[j].next <= Len(list[j]) + 1
          /\ Len(list[j]) \in Nat /\ list[j] \in Seq(Nodes)
      BY <1>1, <3>1 DEF InBounds, Calls, Shape
    <3>3. ASSUME i < call[j].next, call[j].op = "add"
          PROVE  SX!Contains(list'[list'[j][i]], j)
      <4>1. i \in 1 .. Len(list[j]) /\ list'[j][i] = list[j][i] /\ list[j][i] \in Nodes
        BY <3>1, <3>2, <3>3, ListsGrow
      <4>2. SX!Contains(list[list[j][i]], j)
        BY <3>1, <3>3, <4>1 DEF AddedSoFar
      <4> QED BY <4>1, <4>2, StaysListed
    <3>4. CASE UNCHANGED call[j]
      BY <2>1, <3>3, <3>4
    <3>5. CASE /\ More(j) /\ call'[j].next = call[j].next + 1 /\ call'[j].op = call[j].op
      <4>1. CASE i < call[j].next
        BY <2>1, <3>3, <3>5, <4>1
      <4>2. CASE i = call[j].next
        <5>1. list'[j][i] = Target(j)
          BY <3>1, <3>2, <3>5, <4>2, ListsGrow DEF More, Target
        <5> QED BY <2>1, <3>1, <3>5, <5>1, AddsSelf
      <4> QED BY <2>1, <3>2, <3>5, <4>1, <4>2
    <3>6. CASE call'[j].next = 1
      BY <2>1, <3>6
    <3> QED BY <3>1, <3>4, <3>5, <3>6, CallsMove
  <2> QED BY <2>1 DEF AddedSoFar
<1>6. JoinerIsKnown'
  <2>1. ASSUME smooth', NEW j \in Joiners, call'[j].op \in {"none", "send"}, NEW m \in Members
        PROVE  SX!Contains(list'[m], j)
    <3>1. smooth /\ j \in Nodes /\ m \in Nodes /\ m # j
      BY <2>1, SmoothSince, NodesAssumption DEF Nodes
    <3>2. CASE call[j].op \in {"none", "send"}
      BY <3>1, <3>2, StaysListed DEF JoinerIsKnown
    <3>3. CASE call[j].op = "add" /\ ~ More(j)
      <4>1. PICK i \in 1 .. Len(list[j]) : list[j][i] = m
        BY <3>1 DEF MembersListed, SX!Contains
      <4>2. i < call[j].next
        <5>1. Len(list[j]) \in Nat /\ call[j].next \in Nat
          BY <1>1, <3>1, ListsGrow DEF Calls
        <5> QED BY <3>3, <5>1 DEF More
      <4>3. SX!Contains(list[m], j)
        BY <3>1, <3>3, <4>1, <4>2 DEF AddedSoFar
      <4> QED BY <3>1, <4>3, StaysListed
    <3> QED BY <2>1, <3>1, <3>2, <3>3, CallsMove
  <2> QED BY <2>1 DEF JoinerIsKnown
<1> QED BY <1>2, <1>3, <1>4, <1>5, <1>6
-----------------------------------------------------------------------------
(* The lists have no node twice and never the node itself. *)

Apart == \A n \in Nodes : list[n] \in Seq(Nodes \ {n}) /\ SX!IsInjective(list[n])

(* Nobody adds itself at a node that joins. *)
JoinersKeep == \A j \in Joiners : list[j] \in Seq(Members)

(* A node that has joined is only in lists its own loop has come past. *)
ListedByLoop ==
  \A j \in Joiners, n \in Nodes : SX!Contains(list[n], j) =>
    \/ call[j].op \in {"none", "send"}
    \/ call[j].op = "add" /\ \E i \in 1 .. Len(list[j]) : i < call[j].next /\ list[j][i] = n

Once == Apart /\ JoinersKeep /\ ListedByLoop

LEMMA InitApart == Init => Apart
<1> SUFFICES ASSUME Init, NEW n \in Nodes PROVE list[n] \in Seq(Nodes \ {n}) /\ SX!IsInjective(list[n])
  BY DEF Apart
<1>1. PICK S \in SUBSET (Nodes \ {n}) : list[n] = SX!SetToSeq(S)
  <2>1. n \in Members => list[n] = SX!SetToSeq(Members \ {n}) /\ Members \ {n} \in SUBSET (Nodes \ {n})
    BY DEF Init, Nodes
  <2>2. n \notin Members => list[n] = SX!SetToSeq(Members) /\ Members \in SUBSET (Nodes \ {n})
    BY DEF Init, Nodes
  <2> QED BY <2>1, <2>2
<1>2. IsFiniteSet(S)
  BY NodesAssumption, FS_Subset
<1>3. SX!SetToSeq(S) \in Seq(S) /\ SX!IsInjective(SX!SetToSeq(S))
  BY <1>2, Listed
<1>4. SX!SetToSeq(S) \in Seq(Nodes \ {n})
  BY <1>3, SeqDef
<1> QED BY <1>1, <1>3, <1>4

LEMMA InitOnce == Init => Once
<1> SUFFICES ASSUME Init PROVE Once
  OBVIOUS
<1>1. ASSUME NEW n \in Nodes PROVE list[n] \in Seq(Members)
  <2>1. PICK S \in SUBSET Members : list[n] = SX!SetToSeq(S)
    <3>1. n \in Members => list[n] = SX!SetToSeq(Members \ {n})
      BY DEF Init
    <3>2. n \notin Members => list[n] = SX!SetToSeq(Members)
      BY DEF Init
    <3> QED BY <3>1, <3>2
  <2>2. IsFiniteSet(S)
    BY NodesAssumption, FS_Subset DEF Nodes
  <2>3. SX!SetToSeq(S) \in Seq(S)
    BY <2>2, Listed
  <2> QED BY <2>1, <2>3, SeqDef
<1>2. JoinersKeep
  BY <1>1 DEF JoinersKeep, Nodes
<1>3. ListedByLoop
  <2>1. ASSUME NEW j \in Joiners, NEW n \in Nodes PROVE ~ SX!Contains(list[n], j)
    <3>1. list[n] \in Seq(Members) /\ j \notin Members
      BY <1>1, <2>1, NodesAssumption
    <3> QED BY <3>1 DEF SX!Contains
  <2> QED BY <2>1 DEF ListedByLoop
<1> QED BY <1>2, <1>3, InitApart DEF Once

(* A list gets what it does not have at its end. *)
LEMMA AppendApart ==
  ASSUME NEW S, NEW s \in Seq(S), NEW x \in S, SX!IsInjective(s), ~ SX!Contains(s, x)
  PROVE  Append(s, x) \in Seq(S) /\ SX!IsInjective(Append(s, x))
<1>1. /\ Append(s, x) \in Seq(S) /\ Len(s) \in Nat /\ Len(Append(s, x)) = Len(s) + 1
      /\ \A i \in 1 .. Len(s) : Append(s, x)[i] = s[i]
      /\ Append(s, x)[Len(s) + 1] = x
  BY AppendProperties
<1>2. DOMAIN s = 1 .. Len(s) /\ DOMAIN Append(s, x) = 1 .. Len(s) + 1
  BY <1>1, LenProperties
<1>3. \A i \in 1 .. Len(s) : s[i] # x
  BY DEF SX!Contains
<1>4. \A i, j \in 1 .. Len(s) : s[i] = s[j] => i = j
  BY <1>2 DEF SX!IsInjective
<1>5. ASSUME NEW i \in 1 .. Len(s) + 1, NEW j \in 1 .. Len(s) + 1, Append(s, x)[i] = Append(s, x)[j]
      PROVE  i = j
  <2>1. CASE i \in 1 .. Len(s) /\ j \in 1 .. Len(s)
    BY <1>1, <1>4, <1>5, <2>1
  <2>2. CASE i = Len(s) + 1 /\ j \in 1 .. Len(s)
    BY <1>1, <1>3, <1>5, <2>2
  <2>3. CASE i \in 1 .. Len(s) /\ j = Len(s) + 1
    BY <1>1, <1>3, <1>5, <2>3
  <2> QED BY <1>1, <2>1, <2>2, <2>3
<1> QED BY <1>1, <1>2, <1>5 DEF SX!IsInjective

(* A node adds itself at a member that has not got it. *)
LEMMA AddsAnew ==
  ASSUME Shape, Known, Once, NEW k \in Nodes, Add(k)
  PROVE  k \in Joiners /\ Target(k) \in Members \ {k} /\ ~ SX!Contains(list[Target(k)], k)
<1>1. k \in Joiners /\ call[k].op = "add"
  BY DEF Known, MembersSend, Add, Nodes
<1>2. /\ call[k].next \in 1 .. Len(list[k]) /\ Len(list[k]) \in Nat
      /\ list[k] \in Seq(Members) /\ Target(k) \in Nodes
  BY <1>1, TargetIsNode DEF Add, Once, JoinersKeep
<1>3. Target(k) \in Members \ {k}
  BY <1>1, <1>2, NodesAssumption DEF Target
<1>4. ASSUME SX!Contains(list[Target(k)], k) PROVE FALSE
  <2>1. PICK i \in 1 .. Len(list[k]) : i < call[k].next /\ list[k][i] = Target(k)
    BY <1>1, <1>2, <1>4 DEF Once, ListedByLoop
  <2>2. SX!IsInjective(list[k]) /\ DOMAIN list[k] = 1 .. Len(list[k])
    BY <1>2, LenProperties DEF Once, Apart
  <2>3. i = call[k].next
    BY <1>2, <2>1, <2>2 DEF SX!IsInjective, Target
  <2> QED BY <1>2, <2>1, <2>3
<1> QED BY <1>1, <1>3, <1>4

(* A list changes only where a node adds itself. *)
LEMMA ListsChange ==
  ASSUME [Next]_vars
  PROVE  UNCHANGED list \/ \E k \in Nodes : Add(k)
BY DEF Next, Get, Fails, Choose, NewChain, Send, Done, Down, vars

LEMMA NextApart ==
  ASSUME Shape, Known, Once, [Next]_vars
  PROVE  Apart'
<1>1. Apart
  BY DEF Once
<1>2. CASE UNCHANGED list
  BY <1>1, <1>2 DEF Apart
<1>3. ASSUME NEW k \in Nodes, Add(k) PROVE Apart'
  <2>1. PICK t \in Nodes : t = Target(k) /\ t # k /\ ~ SX!Contains(list[t], k)
    BY <1>3, AddsAnew DEF Nodes
  <2>2. list'[t] = Append(list[t], k) /\ \A n \in Nodes : n # t => list'[n] = list[n]
    BY <1>3, <2>1 DEF Add, AddNode, Shape
  <2>3. list[t] \in Seq(Nodes \ {t}) /\ SX!IsInjective(list[t]) /\ k \in Nodes \ {t}
    BY <1>1, <2>1 DEF Apart
  <2>4. list'[t] \in Seq(Nodes \ {t}) /\ SX!IsInjective(list'[t])
    BY <2>1, <2>2, <2>3, AppendApart
  <2> QED BY <1>1, <2>2, <2>4 DEF Apart
<1> QED BY <1>2, <1>3, ListsChange

LEMMA NextJoinersKeep ==
  ASSUME Shape, Known, Once, [Next]_vars
  PROVE  JoinersKeep'
<1>1. ASSUME NEW k \in Nodes, Add(k), NEW j \in Joiners PROVE list'[j] = list[j]
  <2>1. Target(k) \in Members /\ j \in Nodes /\ j \notin Members
    BY <1>1, AddsAnew, NodesAssumption DEF Nodes
  <2>2. Target(k) # j
    BY <2>1
  <2> QED BY <1>1, <2>1, <2>2 DEF Add, AddNode, Shape
<1> QED BY <1>1, ListsChange DEF Once, JoinersKeep

(* A place in a list keeps its node, and a node its place in a call. *)
LEMMA NextListedByLoop ==
  ASSUME Shape, Known, Once, [Next]_vars
  PROVE  ListedByLoop'
<1> SUFFICES ASSUME NEW j \in Joiners, NEW n \in Nodes, SX!Contains(list'[n], j)
             PROVE  \/ call'[j].op \in {"none", "send"}
                    \/ /\ call'[j].op = "add"
                       /\ \E i \in 1 .. Len(list'[j]) : i < call'[j].next /\ list'[j][i] = n
  BY DEF ListedByLoop
<1>1. j \in Nodes /\ call[j] \in Calls /\ call[j].next \in Nat /\ Len(list[j]) \in Nat
  BY DEF Nodes, Shape, Calls
(* A list that had the node before. *)
<1>2. CASE SX!Contains(list[n], j)
  <2>1. CASE call[j].op \in {"none", "send"}
    <3>1. call'[j].op \in {"none", "send"}
      BY <1>1, <2>1, CallsMove
    <3> QED BY <3>1
  <2>2. ASSUME call[j].op = "add", NEW i \in 1 .. Len(list[j]), i < call[j].next, list[j][i] = n
        PROVE  \/ call'[j].op = "none"
               \/ /\ call'[j].op = "add"
                  /\ \E k \in 1 .. Len(list'[j]) : k < call'[j].next /\ list'[j][k] = n
    <3>1. i \in 1 .. Len(list'[j]) /\ list'[j][i] = n
      BY <1>1, <2>2, ListsGrow
    <3>2. call'[j].op = "none" \/ (call'[j].op = "add" /\ i < call'[j].next)
      <4>1. \/ UNCHANGED call[j]
            \/ call'[j].next = call[j].next + 1 /\ call'[j].op = call[j].op
            \/ call'[j].op = "none"
        BY <1>1, <2>2, CallsMove
      <4> QED BY <1>1, <2>2, <4>1
    <3> QED BY <3>1, <3>2
  <2> QED BY <1>2, <2>1, <2>2 DEF Once, ListedByLoop
(* A list it has just come into: it is the node's own loop that is there. *)
<1>3. CASE ~ SX!Contains(list[n], j)
  <2>1. PICK k \in Nodes : Add(k)
    BY <1>3, ListsChange
  <2>2. k \in Joiners /\ Target(k) \in Nodes
    BY <2>1, AddsAnew DEF Nodes
  <2>3. n = Target(k) /\ j = k
    <3>1. list'[n] # list[n]
      BY <1>3
    <3>2. n = Target(k) /\ list'[n] = Append(list[n], k)
      BY <2>1, <2>2, <3>1 DEF Add, AddNode, Shape
    <3>3. list[n] \in Seq(Nodes) /\ Append(list[n], k) \in Seq(Nodes)
      BY AppendProperties DEF Shape
    <3>4. PICK i \in 1 .. Len(Append(list[n], k)) : Append(list[n], k)[i] = j
      BY <3>2 DEF SX!Contains
    <3>5. i \notin 1 .. Len(list[n])
      BY <1>3, <3>3, <3>4, AppendProperties DEF SX!Contains
    <3>6. i = Len(list[n]) + 1 /\ Append(list[n], k)[Len(list[n]) + 1] = k
      BY <3>3, <3>4, <3>5, AppendProperties
    <3> QED BY <3>2, <3>4, <3>6
  <2>4. /\ call[j].next \in 1 .. Len(list[j]) /\ list[j][call[j].next] = n
        /\ call'[j].op = "add" /\ call'[j].next = call[j].next + 1
    BY <1>1, <2>1, <2>3, Advances, TargetIsNode DEF Add, Target
  <2>5. call[j].next \in 1 .. Len(list'[j]) /\ list'[j][call[j].next] = n
    BY <1>1, <2>4, ListsGrow
  <2> QED BY <2>4, <2>5
<1> QED BY <1>2, <1>3

(* Every turn of getChainFromNodes has added at most one answer. *)
VectFits == \A n \in Nodes :
  /\ Len(call[n].vect) <= Len(list[n])
  /\ call[n].op = "get" => Len(call[n].vect) < call[n].next

LEMMA NextVectFits ==
  ASSUME Shape, InBounds, VectFits, [Next]_vars
  PROVE  VectFits'
<1> SUFFICES ASSUME NEW n \in Nodes
             PROVE  /\ Len(call'[n].vect) <= Len(list'[n])
                    /\ call'[n].op = "get" => Len(call'[n].vect) < call'[n].next
  BY DEF VectFits
<1>1. /\ Len(list[n]) \in Nat /\ Len(list'[n]) \in Nat /\ Len(list[n]) <= Len(list'[n])
      /\ Len(call[n].vect) \in Nat /\ call[n].next \in Nat
      /\ Len(call[n].vect) <= Len(list[n])
      /\ call[n].op = "get" => Len(call[n].vect) < call[n].next
  <2>1. call[n].vect \in Seq(Answers) /\ call[n].next \in Nat
    BY DEF Shape, Calls
  <2>2. Len(call[n].vect) \in Nat
    BY <2>1, LenProperties
  <2> QED BY <2>1, <2>2, ListsGrow DEF VectFits
<1>2. CASE UNCHANGED call[n]
  <2>1. Len(call'[n].vect) = Len(call[n].vect) /\ call'[n].op = call[n].op /\ call'[n].next = call[n].next
    BY <1>2
  <2> QED BY <1>1, <2>1
<1>3. CASE Get(n)
  <2>1. PICK v \in Nat, next \in Nat, old \in Nat, new \in Nat :
          /\ v = Len(call[n].vect) /\ next = call[n].next
          /\ old = Len(list[n]) /\ new = Len(list'[n])
    BY <1>1
  <2>2. /\ Len(call'[n].vect) = v + 1 /\ call'[n].next = next + 1
        /\ v < next /\ next <= old /\ old <= new
    BY <1>1, <1>3, <2>1, Answered DEF More
  <2>3. v + 1 <= new /\ v + 1 < next + 1
    BY <2>2
  <2> QED BY <2>1, <2>2, <2>3
<1>4. CASE Fails(n) \/ Add(n) \/ Send(n)
  <2>1. call'[n].vect = call[n].vect /\ call'[n].op = call[n].op /\ call'[n].next = call[n].next + 1
    BY <1>4, Advances
  <2> QED BY <1>1, <2>1
<1>5. CASE Choose(n) \/ NewChain(n) \/ Done(n)
  <2>1. call'[n].vect \in {<<>>, call[n].vect} /\ call'[n].op # "get"
    BY <1>5, Chosen, Entered, Left
  <2> QED BY <1>1, <2>1, EmptySeq
<1> QED BY <1>2, <1>3, <1>4, <1>5, OwnSteps
-----------------------------------------------------------------------------
(* The chains *)

(* A node that is adding itself has kept the longest of its answers. *)
LEMMA NextJoined ==
  ASSUME Shape, JoinedAtLongest, [Next]_vars
  PROVE  JoinedAtLongest'
<1> SUFFICES ASSUME NEW n \in Nodes, call'[n].op = "add"
             PROVE  /\ \E i \in DOMAIN call'[n].vect : call'[n].vect[i].chain = call'[n].body
                    /\ \A i \in DOMAIN call'[n].vect :
                         Len(call'[n].vect[i].chain) <= Len(call'[n].body)
  BY DEF JoinedAtLongest
<1>1. ASSUME call[n].op = "add", call'[n].vect = call[n].vect, call'[n].body = call[n].body
      PROVE  /\ \E i \in DOMAIN call'[n].vect : call'[n].vect[i].chain = call'[n].body
             /\ \A i \in DOMAIN call'[n].vect :
                  Len(call'[n].vect[i].chain) <= Len(call'[n].body)
  BY <1>1 DEF JoinedAtLongest
<1>2. CASE UNCHANGED call[n]
  BY <1>1, <1>2
<1>3. CASE Fails(n) \/ Add(n) \/ Send(n)
  BY <1>1, <1>3, Advances
<1>4. CASE Choose(n)
  BY <1>4, Chosen
<1>5. ~ (Get(n) \/ NewChain(n) \/ Done(n))
  BY Answered, Entered, Left
<1> QED BY <1>2, <1>3, <1>4, <1>5, OwnSteps

(* What the loop of sendNewChain has posted: its chain, to one node of the *)
(* list after the other.                                                   *)
PostsAre ==
  smooth => \A n \in Nodes : call[n].op = "send" =>
    /\ Len(sent[n]) = call[n].next - 1
    /\ \A i \in 1 .. Len(sent[n]) : sent[n][i] = [node |-> list[n][i], chain |-> call[n].body]

(* Outside of the loop there is nothing posted. *)
PostsEnd == \A n \in Nodes : call[n].op # "send" => sent[n] = <<>>

LEMMA NextPostsEnd ==
  ASSUME Shape, PostsEnd, [Next]_vars
  PROVE  PostsEnd'
<1> SUFFICES ASSUME NEW n \in Nodes, call'[n].op # "send" PROVE sent'[n] = <<>>
  BY DEF PostsEnd
<1>1. CASE UNCHANGED <<call[n], sent[n]>>
  BY <1>1 DEF PostsEnd
<1>2. CASE Get(n) \/ Choose(n)
  BY <1>2 DEF PostsEnd, Get, Choose
<1>3. CASE Fails(n) \/ Add(n)
  <2>1. call[n].op # "send" /\ sent' = sent
    BY <1>3, Advances DEF Fails, Add
  <2> QED BY <2>1 DEF PostsEnd
<1>4. ~ (NewChain(n) \/ Send(n))
  <2>1. Send(n) => call[n].op = "send"
    BY DEF Send
  <2> QED BY <2>1, Entered, Advances
<1> QED BY <1>1, <1>2, <1>3, <1>4, Left, OwnSteps

LEMMA NextPostsAre ==
  ASSUME Shape, InBounds, PostsAre, PostsEnd, [Next]_vars
  PROVE  PostsAre'
<1> SUFFICES ASSUME smooth', NEW n \in Nodes, call'[n].op = "send"
             PROVE  /\ Len(sent'[n]) = call'[n].next - 1
                    /\ \A i \in 1 .. Len(sent'[n]) :
                         sent'[n][i] = [node |-> list'[n][i], chain |-> call'[n].body]
  BY DEF PostsAre
<1>1. /\ smooth /\ Len(list[n]) \in Nat /\ call[n].next \in Nat \ {0}
      /\ call[n].next <= Len(list[n]) + 1 /\ sent[n] \in Seq(Posts) /\ Len(sent[n]) \in Nat
  BY SmoothSince DEF InBounds, Shape, Calls
<1>2. CASE UNCHANGED <<call[n], sent[n]>>
  <2>1. /\ call[n].op = "send" /\ Len(sent[n]) = call[n].next - 1
        /\ \A i \in 1 .. Len(sent[n]) : sent[n][i] = [node |-> list[n][i], chain |-> call[n].body]
    BY <1>1, <1>2 DEF PostsAre
  <2>2. \A i \in 1 .. Len(sent[n]) : i \in 1 .. Len(list[n]) /\ list'[n][i] = list[n][i]
    BY <1>1, <2>1, ListsGrow
  <2> QED BY <1>2, <2>1, <2>2
<1>3. CASE NewChain(n)
  <2>1. sent[n] = <<>> /\ sent' = sent /\ call'[n].next = 1
    BY <1>3, Entered DEF PostsEnd, NewChain
  <2> QED BY <2>1, EmptySeq
<1>4. CASE Send(n)
  <2> DEFINE post == [node |-> Target(n), chain |-> call[n].body]
  <2>1. /\ call[n].op = "send" /\ sent'[n] = Append(sent[n], post) /\ list' = list
        /\ Target(n) \in Nodes /\ call[n].body \in Chains
    BY <1>4, TargetIsNode DEF Send, Shape, Calls
  <2>2. post \in Posts
    BY <2>1 DEF Posts
  <2>3. /\ Len(sent[n]) = call[n].next - 1
        /\ \A i \in 1 .. Len(sent[n]) : sent[n][i] = [node |-> list[n][i], chain |-> call[n].body]
    BY <1>1, <2>1 DEF PostsAre
  <2>4. call'[n].next = call[n].next + 1 /\ call'[n].body = call[n].body
    BY <1>4, Advances
  <2>5. post = [node |-> list[n][call[n].next], chain |-> call[n].body]
    BY DEF Target
  <2> HIDE DEF post
  <2>6. /\ Len(Append(sent[n], post)) = Len(sent[n]) + 1
        /\ \A i \in 1 .. Len(sent[n]) : Append(sent[n], post)[i] = sent[n][i]
        /\ Append(sent[n], post)[Len(sent[n]) + 1] = post
    BY <1>1, <2>2, AppendProperties
  <2>7. ASSUME NEW i \in 1 .. Len(sent'[n])
        PROVE  sent'[n][i] = [node |-> list'[n][i], chain |-> call'[n].body]
    <3>1. CASE i \in 1 .. Len(sent[n])
      BY <2>1, <2>3, <2>4, <2>6, <3>1
    <3>2. CASE i = call[n].next
      BY <1>1, <2>1, <2>3, <2>4, <2>5, <2>6, <3>2
    <3> QED BY <1>1, <2>1, <2>3, <2>6, <2>7, <3>1, <3>2
  <2> QED BY <1>1, <2>1, <2>3, <2>4, <2>6, <2>7
<1>5. ~ (Get(n) \/ Fails(n) \/ Choose(n) \/ Add(n) \/ Done(n))
  <2>1. ~ Fails(n)
    BY DEF Fails
  <2>2. Add(n) => call[n].op = "add"
    BY DEF Add
  <2> QED BY <2>1, <2>2, Answered, Chosen, Advances, Left
<1> QED BY <1>2, <1>3, <1>4, <1>5, OwnSteps
-----------------------------------------------------------------------------
(* The theorems *)

Inv == /\ Shape /\ Known /\ Once /\ VectFits
       /\ JoinedAtLongest /\ PostsAre /\ PostsEnd

(* The invariant holds at the start, and every step keeps it. *)
LEMMA InitInv == Init => Inv
<1> SUFFICES ASSUME Init PROVE Inv
  OBVIOUS
<1>1. Shape /\ Known /\ Once
  BY InitShape, InitKnown, InitOnce
<1>2. \A n \in Nodes : call[n].op \in {"none", "get"} /\ call[n].vect = <<>> /\ sent[n] = <<>>
  BY DEF Init, Return, Enter
<1>3. JoinedAtLongest /\ PostsAre /\ PostsEnd
  BY <1>2 DEF JoinedAtLongest, PostsAre, PostsEnd
<1>4. VectFits
  <2>1. \A n \in Nodes : Len(list[n]) \in Nat /\ call[n].next \in Nat \ {0} /\ Len(call[n].vect) = 0
    BY <1>1, <1>2 DEF Shape, Calls
  <2> QED BY <2>1 DEF VectFits
<1> QED BY <1>1, <1>3, <1>4 DEF Inv

LEMMA NextInv == Inv /\ [Next]_vars => Inv'
BY NextShape, NextKnown, NextApart, NextJoinersKeep, NextListedByLoop, NextVectFits,
   NextJoined, NextPostsAre, NextPostsEnd
   DEF Inv, Known, Once

LEMMA InvHolds == Spec => []Inv
BY InitInv, NextInv, PTL DEF Spec

(* A node that joins starts with the chain of an answer, and no answer it has*)
(* had has a longer one (requests.hpp:37-58).                                *)
THEOREM StartsLongest == Spec => []JoinedAtLongest
BY InvHolds, PTL DEF Inv

(* A node that has been through addSelfToNetwork is in the list of every node *)
(* it was given, as long as no request fails (requests.hpp:80-97).            *)
THEOREM JoinersKnown == Spec => []JoinerIsKnown
BY InvHolds, PTL DEF Inv, Known

(* The values the variables take; above all, no list has a node twice or the *)
(* node whose list it is, though the handler of /addnode looks for neither:  *)
(* each node that joins goes once through the members (requests.hpp:80-97).  *)
THEOREM TypeCorrect == Spec => []TypeOK
<1>1. Inv => TypeOK
  <2> SUFFICES ASSUME Inv PROVE TypeOK
    OBVIOUS
  <2>1. ASSUME NEW n \in Nodes
        PROVE  /\ list[n] \in Seq(Nodes \ {n}) /\ SX!IsInjective(list[n])
               /\ call[n].op \in Ops /\ call[n].body \in Chains
               /\ call[n].next \in 1 .. Len(list[n]) + 1
               /\ call[n].vect \in Seq(Answers) /\ Len(call[n].vect) <= Len(list[n])
               /\ sent[n] \in Seq(Posts)
    <3>1. /\ call[n] \in Calls /\ Len(list[n]) \in Nat /\ sent[n] \in Seq(Posts)
          /\ call[n].next <= Len(list[n]) + 1 /\ Len(call[n].vect) <= Len(list[n])
      BY DEF Inv, Shape, Known, InBounds, VectFits
    <3> QED BY <3>1 DEF Inv, Once, Apart, Calls
  <2> QED BY <2>1 DEF Inv, Shape, TypeOK
<1> QED BY <1>1, InvHolds, PTL

(* Whomever the loop of sendNewChain has passed has been posted the chain,   *)
(* once, nodes that came into the list meanwhile included, as long as no     *)
(* request fails (requests.hpp:63-77).                                       *)
THEOREM SentHolds == Spec => []SentSoFar
<1>1. Inv => SentSoFar
  <2> SUFFICES ASSUME Inv, smooth, NEW n \in Nodes, call[n].op = "send",
                      NEW i \in DOMAIN list[n], i < call[n].next
               PROVE  LET posts == {k \in DOMAIN sent[n] : sent[n][k].node = list[n][i]}
                      IN \E k \in posts : posts = {k} /\ sent[n][k].chain = call[n].body
    BY DEF SentSoFar
  <2>1. /\ list[n] \in Seq(Nodes) /\ sent[n] \in Seq(Posts) /\ call[n].next \in Nat \ {0}
        /\ call[n].next <= Len(list[n]) + 1 /\ SX!IsInjective(list[n])
    BY DEF Inv, Shape, Calls, Known, InBounds, Once, Apart
  <2>2. /\ DOMAIN list[n] = 1 .. Len(list[n]) /\ Len(list[n]) \in Nat
        /\ DOMAIN sent[n] = 1 .. Len(sent[n])
    BY <2>1, LenProperties
  <2>3. /\ Len(sent[n]) = call[n].next - 1
        /\ \A k \in 1 .. Len(sent[n]) : sent[n][k] = [node |-> list[n][k], chain |-> call[n].body]
    BY DEF Inv, PostsAre
  <2>4. \A k \in DOMAIN sent[n] : /\ k \in DOMAIN list[n]
                                 /\ sent[n][k].node = list[n][k] /\ sent[n][k].chain = call[n].body
    <3>1. Len(sent[n]) <= Len(list[n])
      BY <2>1, <2>2, <2>3
    <3>2. ASSUME NEW k \in 1 .. Len(sent[n])
          PROVE  /\ k \in 1 .. Len(list[n])
                 /\ sent[n][k].node = list[n][k] /\ sent[n][k].chain = call[n].body
      <4>1. k \in 1 .. Len(list[n])
        BY <2>1, <2>2, <2>3, <3>1
      <4>2. sent[n][k] = [node |-> list[n][k], chain |-> call[n].body]
        BY <2>3
      <4> QED BY <4>1, <4>2
    <3> QED BY <2>2, <3>2
  <2>5. i \in DOMAIN sent[n]
    BY <2>1, <2>2, <2>3
  <2>6. \A k \in DOMAIN sent[n] : sent[n][k].node = list[n][i] <=> k = i
    BY <2>1, <2>4, <2>5 DEF SX!IsInjective
  <2> QED BY <2>4, <2>5, <2>6
<1> QED BY <1>1, InvHolds, PTL
=============================================================================
