---------------------------- MODULE LedgerProofs ----------------------------
(***************************************************************************)
(* Proofs about Ledger, for every set of names, amounts and times, every   *)
(* width of an int, every target and chains and lists of every length.     *)
(***************************************************************************)
EXTENDS Ledger, SequenceFacts, SequenceTheorems, TLAPS

(* What Append does to a sequence, its elements one by one. *)
LEMMA AppendElements ==
  ASSUME NEW S, NEW s \in Seq(S), NEW e
  PROVE  /\ Append(s, e) \in Seq(S \cup {e})
         /\ Len(s) \in Nat /\ DOMAIN s = 1 .. Len(s)
         /\ Len(Append(s, e)) = Len(s) + 1
         /\ DOMAIN Append(s, e) = 1 .. Len(s) + 1
         /\ \A i \in 1 .. Len(s) : Append(s, e)[i] = s[i]
         /\ Append(s, e)[Len(s) + 1] = e
  OBVIOUS

(* A sequence is a sequence of its elements. *)
LEMMA SeqOfElements ==
  ASSUME NEW S, NEW s \in Seq(S)
  PROVE  s \in Seq({s[i] : i \in DOMAIN s})
<1>1. Len(s) \in Nat /\ s \in [1 .. Len(s) -> {s[i] : i \in DOMAIN s}]
  OBVIOUS
<1>2. QED
  BY <1>1

(* What the type invariant says of the chain, in the form the steps use. *)
LEMMA ChainIsSeq ==
  ASSUME TypeOK
  PROVE  /\ chain \in Seq({chain[i] : i \in DOMAIN chain})
         /\ Len(chain) \in Nat \ {0} /\ DOMAIN chain = 1 .. Len(chain)
  BY DEF TypeOK

LEMMA NextNonceInRange == ASSUME NEW n \in Nonces PROVE NextNonce(n) \in Nonces
  BY RangeAssumption DEF NextNonce, Nonces, MinInt, MaxInt

LEMMA HashedIsNatural ==
  ASSUME TypeOK PROVE Hashed(chain, rng) \in Nat
<1> DEFINE H == {i \in 2 .. Len(chain) : IsChainValid(SubSeq(chain, 1, i - 1), rng)}
<1>1. IsFiniteSet(2 .. Len(chain))
  BY ChainIsSeq, FS_Interval
<1>2. IsFiniteSet(H)
  BY <1>1, FS_Subset
<1>3. Cardinality(H) \in Nat
  BY <1>2, FS_CardinalityType
<1>4. QED
  BY <1>3 DEF Hashed

LEMMA DrawnInRange ==
  ASSUME NEW state \in 0 .. RngStates - 1, NEW calls \in Nat
  PROVE  Drawn(state, calls) \in 0 .. RngStates - 1
  BY RngAssumption DEF Drawn

(* The steps of the search that keep a block, seen from the outside. *)
LEMMA FoundStep ==
  ASSUME TypeOK, Found
  PROVE  /\ search.on
         /\ chain' = Append(chain, Candidate) /\ Meets(Candidate.hash)
         /\ pending' = <<Reward(search.miner)>>
         /\ submitted' = Append(submitted, Reward(search.miner))
         /\ cut' = Append(cut, Len(submitted))
         /\ search' = Idle /\ rng' = Drawn(rng, 1) /\ verdict' = verdict
  BY DEF Found, FoundWith

LEMMA CandidateIsBlock ==
  ASSUME TypeOK, search.on
  PROVE  /\ IsBlock(Candidate)
         /\ Candidate.index = Len(chain) /\ Candidate.transactions = pending
         /\ Candidate.previous_hash = chain[Len(chain)].hash
         /\ Candidate.hash = Digest(rng, Candidate.timestamp, Candidate.transactions,
                                    Candidate.previous_hash, Candidate.nonce)
         /\ Candidate.miner = search.miner
  BY ChainIsSeq DEF TypeOK, IsBlock, Candidate, LastHash

(* The chain after Found, block by block. *)
LEMMA FoundChain ==
  ASSUME TypeOK, Found
  PROVE  /\ chain' \in Seq({chain[i] : i \in DOMAIN chain} \cup {Candidate})
         /\ Len(chain') = Len(chain) + 1
         /\ DOMAIN chain' = 1 .. Len(chain) + 1
         /\ \A i \in 1 .. Len(chain) : chain'[i] = chain[i]
         /\ chain'[Len(chain) + 1] = Candidate
<1> DEFINE old == {chain[i] : i \in DOMAIN chain}
<1>1. chain' = Append(chain, Candidate)
  BY FoundStep
<1>2. chain \in Seq(old)
  BY ChainIsSeq
<1> HIDE DEF old
<1>3. /\ chain' \in Seq(old \cup {Candidate})
      /\ Len(chain') = Len(chain) + 1
      /\ DOMAIN chain' = 1 .. Len(chain) + 1
      /\ \A i \in 1 .. Len(chain) : chain'[i] = chain[i]
      /\ chain'[Len(chain) + 1] = Candidate
  BY <1>1, <1>2, AppendElements
<1>4. QED
  BY <1>3 DEF old

LEMMA RewardIsTransaction ==
  ASSUME NEW m \in Names PROVE Reward(m) \in Transactions
  BY DEF Reward, Transactions

(* Every variable keeps its type: the nonce stays an int, blocks hold what  *)
(* was pending (Pila 2.0.cpp:11-25, 92-131).                                *)
THEOREM TypeCorrect == Spec => []TypeOK
<1>1. Init => TypeOK
  <2> SUFFICES ASSUME Init PROVE TypeOK
    OBVIOUS
  <2>1. PICK t \in Times :
          chain = << [index |-> 0, timestamp |-> t, transactions |-> <<>>,
                      previous_hash |-> NoHash, hash |-> NoHash,
                      miner |-> <<>>, nonce |-> 0] >>
    BY DEF Init
  <2>2. 0 \in Nonces
    BY RangeAssumption DEF Nonces, MinInt, MaxInt
  <2>3. \A i \in DOMAIN chain : IsBlock(chain[i])
    <3> DEFINE b == [index |-> 0, timestamp |-> t, transactions |-> <<>>,
                     previous_hash |-> NoHash, hash |-> NoHash,
                     miner |-> <<>>, nonce |-> 0]
    <3>1. IsBlock(b)
      BY <2>2 DEF IsBlock
    <3>2. ASSUME NEW i \in DOMAIN chain PROVE chain[i] = b
      BY <2>1
    <3> HIDE DEF b
    <3>3. QED
      BY <3>1, <3>2
  <2>4. chain \in Seq({chain[i] : i \in DOMAIN chain}) /\ chain # <<>>
    <3>1. PICK b : chain = <<b>>
      BY <2>1
    <3>2. chain \in Seq({b})
      BY <3>1
    <3>3. QED
      BY <3>1, <3>2, SeqOfElements
  <2>5. rng \in 0 .. RngStates - 1
    BY RngAssumption DEF Init
  <2>6. search \in [on : BOOLEAN, miner : Names \cup {System},
                    timestamp : Times \cup {0}, nonce : Nonces] /\ ~ search.on
    BY <2>2 DEF Init, Idle
  <2>7. QED
    BY <2>3, <2>4, <2>5, <2>6 DEF Init, TypeOK
<1>2. TypeOK /\ [Next]_vars => TypeOK'
  <2> SUFFICES ASSUME TypeOK, [Next]_vars PROVE TypeOK'
    OBVIOUS
  <2>1. ASSUME NEW s \in Names, NEW r \in Names, NEW a \in Amounts,
               AddTransaction(s, r, a)
        PROVE  TypeOK'
    <3> DEFINE t == [sender |-> s, receiver |-> r, amount |-> a]
    <3>1. t \in Transactions
      BY DEF Transactions
    <3>2. pending' \in Seq(Transactions) /\ submitted' \in Seq(Transactions)
      BY <2>1, <3>1 DEF AddTransaction, TypeOK
    <3>3. QED
      BY <2>1, <3>2 DEF AddTransaction, TypeOK
  <2>2. ASSUME NEW m \in Names, NEW t \in Times, Mine(m, t) PROVE TypeOK'
    <3>1. 0 \in Nonces
      BY RangeAssumption DEF Nonces, MinInt, MaxInt
    <3>2. QED
      BY <2>2, <3>1 DEF Mine, TypeOK
  <2>3. ASSUME TryNextNonce PROVE TypeOK'
    <3>1. NextNonce(search.nonce) \in Nonces
      BY NextNonceInRange DEF TypeOK
    <3>2. rng' \in 0 .. RngStates - 1
      BY <2>3, DrawnInRange DEF TryNextNonce, TypeOK
    <3>3. QED
      BY <2>3, <3>1, <3>2 DEF TryNextNonce, TypeOK
  <2>4. ASSUME Found PROVE TypeOK'
    <3> DEFINE reward == Reward(search.miner)
               old == {chain[i] : i \in DOMAIN chain}
    <3>1. /\ search.on /\ chain' = Append(chain, Candidate) /\ pending' = <<reward>>
          /\ submitted' = Append(submitted, reward)
          /\ cut' = Append(cut, Len(submitted))
          /\ search' = Idle /\ rng' = Drawn(rng, 1) /\ verdict' = verdict
      BY <2>4, FoundStep
    <3>2. IsBlock(Candidate)
      BY <3>1, CandidateIsBlock
    <3>3. reward \in Transactions
      BY <3>1, RewardIsTransaction DEF TypeOK
    <3>4. /\ chain' \in Seq(old \cup {Candidate})
          /\ DOMAIN chain' = 1 .. Len(chain) + 1
          /\ \A i \in 1 .. Len(chain) : chain'[i] = chain[i]
          /\ chain'[Len(chain) + 1] = Candidate
      BY <2>4, FoundChain
    <3>5. chain' \in Seq({chain'[i] : i \in DOMAIN chain'})
      <4> HIDE DEF old
      <4>1. QED
        BY <3>4, SeqOfElements
    <3>6. chain' # <<>>
      BY <3>4, ChainIsSeq
    <3>7. ASSUME NEW i \in DOMAIN chain' PROVE IsBlock(chain'[i])
      <4>1. CASE i = Len(chain) + 1
        BY <3>2, <3>4, <4>1
      <4>2. CASE i # Len(chain) + 1
        <5>1. i \in DOMAIN chain /\ chain'[i] = chain[i]
          BY <3>4, <4>2, ChainIsSeq
        <5>2. IsBlock(chain[i])
          BY <5>1 DEF TypeOK
        <5>3. QED
          BY <5>1, <5>2
      <4>3. QED
        BY <4>1, <4>2
    <3>8. pending' \in Seq(Transactions) /\ submitted' \in Seq(Transactions)
      <4> HIDE DEF reward
      <4>1. submitted \in Seq(Transactions)
        BY DEF TypeOK
      <4>2. QED
        BY <3>1, <3>3, <4>1
    <3>9. cut' \in Seq(Nat)
      <4>1. cut \in Seq(Nat) /\ Len(submitted) \in Nat
        BY DEF TypeOK
      <4>2. QED
        BY <3>1, <4>1
    <3>10. rng' \in 0 .. RngStates - 1
      BY <3>1, DrawnInRange DEF TypeOK
    <3>11. 0 \in Nonces
      BY RangeAssumption DEF Nonces, MinInt, MaxInt
    <3>12. search' \in [on : BOOLEAN, miner : Names \cup {System},
                        timestamp : Times \cup {0}, nonce : Nonces] /\ ~ search'.on
      BY <3>1, <3>11 DEF Idle
    <3>13. verdict' \in {"none", "valid", "invalid"}
      BY <3>1 DEF TypeOK
    <3>14. QED
      BY <3>5, <3>6, <3>7, <3>8, <3>9, <3>10, <3>12, <3>13 DEF TypeOK, IsBlock
  <2>5. ASSUME Validate PROVE TypeOK'
    <3>1. rng' \in 0 .. RngStates - 1
      BY <2>5, HashedIsNatural, DrawnInRange DEF Validate, TypeOK
    <3>2. QED
      BY <2>5, <3>1 DEF Validate, TypeOK
  <2>6. CASE UNCHANGED vars
    BY <2>6 DEF vars, TypeOK
  <2>7. QED
    BY <2>1, <2>2, <2>3, <2>4, <2>5, <2>6 DEF Next
<1>3. QED
  BY <1>1, <1>2, PTL DEF Spec
-----------------------------------------------------------------------------
(* Only Found touches the chain. *)
LEMMA ChainKept ==
  ASSUME [Next]_vars, ~ Found PROVE chain' = chain
  BY DEF Next, AddTransaction, Mine, TryNextNonce, Validate, vars

(* Whatever is entered between the searches and however long they last, the *)
(* chain is linked through every block, and every block after the genesis   *)
(* meets the target (Pila 2.0.cpp:92-131).                                  *)
THEOREM ChainIsLinked == Spec => []ChainLinked
<1>1. Init => ChainLinked
  <2> SUFFICES ASSUME Init PROVE ChainLinked
    OBVIOUS
  <2>1. Len(chain) = 1
    BY DEF Init
  <2>2. QED
    BY <2>1 DEF ChainLinked
<1>2. TypeOK /\ ChainLinked /\ [Next]_vars => ChainLinked'
  <2> SUFFICES ASSUME TypeOK, ChainLinked, [Next]_vars PROVE ChainLinked'
    OBVIOUS
  <2>1. CASE ~ Found
    BY <2>1, ChainKept DEF ChainLinked
  <2>2. CASE Found
    <3> DEFINE Linked(ch, i) ==
          /\ ch[i].index = i - 1
          /\ ch[i].previous_hash = ch[i - 1].hash
          /\ \E state \in 0 .. RngStates - 1 :
               ch[i].hash = Digest(state, ch[i].timestamp, ch[i].transactions,
                                   ch[i].previous_hash, ch[i].nonce)
          /\ Meets(ch[i].hash)
    <3>1. /\ Len(chain') = Len(chain) + 1
          /\ \A i \in 1 .. Len(chain) : chain'[i] = chain[i]
          /\ chain'[Len(chain) + 1] = Candidate
      BY <2>2, FoundChain
    <3>2. Len(chain) \in Nat \ {0}
      BY ChainIsSeq
    <3>3. ASSUME NEW i \in 2 .. Len(chain') PROVE Linked(chain', i)
      <4>1. CASE i \in 2 .. Len(chain)
        <5>1. chain'[i] = chain[i] /\ chain'[i - 1] = chain[i - 1]
          BY <3>1, <3>2, <4>1
        <5>2. Linked(chain, i)
          BY <4>1 DEF ChainLinked
        <5>3. QED
          BY <5>1, <5>2
      <4>2. CASE i = Len(chain) + 1
        <5>1. search.on /\ Meets(Candidate.hash)
          BY <2>2, FoundStep
        <5>2. chain'[i] = Candidate /\ chain'[i - 1] = chain[Len(chain)]
          BY <3>1, <3>2, <4>2
        <5>3. rng \in 0 .. RngStates - 1
          BY DEF TypeOK
        <5>4. QED
          BY <4>2, <5>1, <5>2, <5>3, <3>2, CandidateIsBlock
      <4>3. QED
        BY <3>1, <3>2, <4>1, <4>2
    <3>4. QED
      BY <3>3 DEF ChainLinked
  <2>3. QED
    BY <2>1, <2>2
<1>3. QED
  BY <1>1, <1>2, TypeCorrect, PTL DEF Spec
-----------------------------------------------------------------------------
(* What a block that was mined says of itself. *)
LEMMA MinedBlock ==
  ASSUME ChainLinked, NEW i \in 2 .. Len(chain)
  PROVE  /\ chain[i].hash = Digest(ShuffleOf(chain[i].hash), chain[i].timestamp,
                                   chain[i].transactions, chain[i - 1].hash, chain[i].nonce)
         /\ Meets(chain[i].hash)
<1>1. PICK s : chain[i].hash = Digest(s, chain[i].timestamp, chain[i].transactions,
                                      chain[i - 1].hash, chain[i].nonce)
  BY DEF ChainLinked
<1>2. ShuffleOf(chain[i].hash) = s
  BY <1>1 DEF ShuffleOf, Digest
<1> QED BY <1>1, <1>2 DEF ChainLinked

(* Wherever random_shuffle draws from, is_chain_valid accepts a chain that    *)
(* mine_pending_transactions has built from the states of the generator that  *)
(* go through the shuffles of its blocks, and from no other                   *)
(* (Pila 2.0.cpp:69, 108-119, 138-151).                                       *)
THEOREM AcceptedFromItsShuffles == Spec => []AcceptedAsMined
<1>1. ChainLinked => AcceptedAsMined
  <2> SUFFICES ASSUME ChainLinked, NEW state
               PROVE  \A i \in 2 .. Len(chain) :
                        BlockOk(chain, state, i) <=> ShuffleOf(chain[i].hash) = Drawn(state, i - 2)
    BY DEF AcceptedAsMined, IsChainValid
  <2>1. TAKE i \in 2 .. Len(chain)
  <2>2. PICK now : now = Digest(Drawn(state, i - 2), chain[i].timestamp, chain[i].transactions,
                                chain[i - 1].hash, chain[i].nonce)
    OBVIOUS
  <2>3. BlockOk(chain, state, i) <=> now = chain[i].hash /\ Meets(now)
    BY <2>2 DEF BlockOk
  <2>4. now = chain[i].hash <=> Drawn(state, i - 2) = ShuffleOf(chain[i].hash)
    <3>1. ShuffleOf(now) = Drawn(state, i - 2)
      BY <2>2 DEF ShuffleOf, Digest
    <3> QED BY <2>2, <3>1, MinedBlock
  <2> QED BY <2>3, <2>4, MinedBlock
<1> QED BY <1>1, ChainIsLinked, PTL
-----------------------------------------------------------------------------
(* The sequences as the steps leave them. *)
LEMMA ListsAreSeqs ==
  ASSUME TypeOK
  PROVE  /\ Len(pending) \in Nat /\ DOMAIN pending = 1 .. Len(pending)
         /\ Len(submitted) \in Nat /\ DOMAIN submitted = 1 .. Len(submitted)
         /\ Len(cut) \in Nat /\ DOMAIN cut = 1 .. Len(cut)
         /\ \A i \in 1 .. Len(cut) : cut[i] \in Nat
         /\ \A i \in 1 .. Len(chain) : /\ chain[i].transactions \in Seq(Transactions)
                                      /\ Len(chain[i].transactions) \in Nat
<1>1. /\ pending \in Seq(Transactions) /\ submitted \in Seq(Transactions)
      /\ cut \in Seq(Nat)
  BY DEF TypeOK
<1>2. ASSUME NEW i \in 1 .. Len(chain)
      PROVE  chain[i].transactions \in Seq(Transactions)
  BY ChainIsSeq DEF TypeOK, IsBlock
<1>3. QED
  BY <1>1, <1>2

(* A list keeps its place when more is submitted. *)
LEMMA PlacedKept ==
  ASSUME NEW S, NEW all \in Seq(S), NEW e, NEW txs \in Seq(S), NEW from \in Nat,
         from + Len(txs) <= Len(all), Placed(txs, from, all)
  PROVE  Placed(txs, from, Append(all, e))
<1>1. SUFFICES ASSUME NEW k \in 1 .. Len(txs)
               PROVE  txs[k] = Append(all, e)[from + k]
  BY DEF Placed
<1>2. Len(all) \in Nat /\ Len(txs) \in Nat /\ from + k \in 1 .. Len(all)
  OBVIOUS
<1>3. QED
  BY <1>2, AppendElements DEF Placed

(* Every transaction is in one place of the chain or still waits, in the    *)
(* order of the calls of add_transaction (Pila 2.0.cpp:83-90, 121-124).     *)
THEOREM NothingIsLost == Spec => []NothingLost
<1>1. Init => NothingLost
  <2> SUFFICES ASSUME Init PROVE NothingLost
    OBVIOUS
  <2>1. /\ Len(chain) = 1 /\ DOMAIN chain = {1} /\ chain[1].transactions = <<>>
        /\ pending = <<>> /\ submitted = <<>> /\ cut = <<0>>
    BY DEF Init
  <2>2. Before(cut, 1) = 0
    BY DEF Before
  <2>3. QED
    <3>1. /\ Len(cut) = 1 /\ cut[1] = 0 /\ Len(chain[1].transactions) = 0
          /\ Len(pending) = 0 /\ Len(submitted) = 0
      BY <2>1
    <3>2. QED
      BY <2>1, <2>2, <3>1 DEF NothingLost, Placed
<1>2. TypeOK /\ NothingLost /\ [Next]_vars /\ TypeOK' => NothingLost'
  <2> SUFFICES ASSUME TypeOK, NothingLost, [Next]_vars, TypeOK' PROVE NothingLost'
    OBVIOUS
  <2> DEFINE last == cut[Len(cut)]
  <2>1. /\ Len(cut) = Len(chain)
        /\ \A i \in 1 .. Len(chain) :
             /\ Before(cut, i) + Len(chain[i].transactions) = cut[i]
             /\ cut[i] <= Len(submitted)
             /\ Placed(chain[i].transactions, Before(cut, i), submitted)
        /\ last + Len(pending) = Len(submitted)
        /\ Placed(pending, last, submitted)
    BY DEF NothingLost
  <2>2. /\ last \in Nat /\ Len(submitted) \in Nat /\ Len(pending) \in Nat
        /\ \A i \in 1 .. Len(chain) : Before(cut, i) \in Nat
    <3>1. ASSUME NEW i \in 1 .. Len(chain) PROVE Before(cut, i) \in Nat
      <4>1. i # 1 => i - 1 \in 1 .. Len(cut)
        BY <2>1, ChainIsSeq
      <4>2. QED
        BY <4>1, ListsAreSeqs DEF Before
    <3>2. QED
      BY <2>1, <3>1, ListsAreSeqs, ChainIsSeq
  <2>3. pending \in Seq(Transactions) /\ submitted \in Seq(Transactions)
    BY DEF TypeOK
  <2>4. ASSUME NEW e
        PROVE  /\ \A i \in 1 .. Len(chain) :
                    Placed(chain[i].transactions, Before(cut, i), Append(submitted, e))
               /\ Placed(pending, last, Append(submitted, e))
               /\ Len(Append(submitted, e)) = Len(submitted) + 1
               /\ Append(submitted, e)[Len(submitted) + 1] = e
    <3>1. ASSUME NEW i \in 1 .. Len(chain)
          PROVE  Placed(chain[i].transactions, Before(cut, i), Append(submitted, e))
      <4>1. /\ chain[i].transactions \in Seq(Transactions) /\ Before(cut, i) \in Nat
            /\ Before(cut, i) + Len(chain[i].transactions) <= Len(submitted)
        BY <2>1, <2>2, ListsAreSeqs
      <4>2. QED
        BY <2>1, <2>3, <4>1, PlacedKept
    <3>2. Placed(pending, last, Append(submitted, e))
      BY <2>1, <2>2, <2>3, PlacedKept
    <3>3. QED
      BY <2>3, <3>1, <3>2, AppendElements
  <2>5. ASSUME NEW s \in Names, NEW r \in Names, NEW a \in Amounts,
               AddTransaction(s, r, a)
        PROVE  NothingLost'
    <3> DEFINE t == [sender |-> s, receiver |-> r, amount |-> a]
    <3>1. /\ pending' = Append(pending, t) /\ submitted' = Append(submitted, t)
          /\ chain' = chain /\ cut' = cut
      BY <2>5 DEF AddTransaction
    <3> HIDE DEF t
    <3>2. Len(pending') = Len(pending) + 1 /\ Len(submitted') = Len(submitted) + 1
      BY <2>3, <3>1, AppendElements
    <3>3. Placed(pending', last, submitted')
      <4>1. SUFFICES ASSUME NEW k \in 1 .. Len(pending')
                     PROVE  pending'[k] = submitted'[last + k]
        BY DEF Placed
      <4>2. CASE k \in 1 .. Len(pending)
        <5>1. pending'[k] = pending[k]
          BY <2>3, <3>1, <4>2, AppendElements
        <5>2. pending[k] = submitted'[last + k]
          BY <2>4, <3>1, <4>2 DEF Placed
        <5>3. QED
          BY <5>1, <5>2
      <4>3. CASE k = Len(pending) + 1
        BY <2>1, <2>2, <2>3, <3>1, <4>3, AppendElements
      <4>4. QED
        BY <2>2, <3>2, <4>2, <4>3
    <3>4. /\ last + Len(pending') = Len(submitted')
          /\ \A i \in 1 .. Len(chain) : cut[i] <= Len(submitted')
      BY <2>1, <2>2, <3>2, ListsAreSeqs
    <3>5. \A i \in 1 .. Len(chain) : Before(cut', i) = Before(cut, i)
      BY <3>1 DEF Before
    <3>6. QED
      BY <2>1, <2>4, <3>1, <3>3, <3>4, <3>5 DEF NothingLost
  <2>6. ASSUME Found PROVE NothingLost'
    <3> DEFINE reward == Reward(search.miner)
    <3>1. /\ pending' = <<reward>> /\ submitted' = Append(submitted, reward)
          /\ cut' = Append(cut, Len(submitted)) /\ search.on
      BY <2>6, FoundStep
    <3> HIDE DEF reward
    <3>2. /\ Len(chain') = Len(chain) + 1
          /\ \A i \in 1 .. Len(chain) : chain'[i] = chain[i]
          /\ chain'[Len(chain) + 1].transactions = pending
      BY <2>6, <3>1, FoundChain, CandidateIsBlock
    <3>3. cut \in Seq(Nat)
      BY DEF TypeOK
    <3>4. /\ Len(cut') = Len(cut) + 1
          /\ \A i \in 1 .. Len(cut) : cut'[i] = cut[i]
          /\ cut'[Len(cut) + 1] = Len(submitted)
      BY <3>1, <3>3, AppendElements
    <3>5. Len(submitted') = Len(submitted) + 1
      BY <2>3, <3>1, AppendElements
    <3>6. /\ \A i \in 1 .. Len(chain) : Before(cut', i) = Before(cut, i)
          /\ Before(cut', Len(chain) + 1) = last
      <4>1. ASSUME NEW i \in 1 .. Len(chain) PROVE Before(cut', i) = Before(cut, i)
        <5>1. i # 1 => i - 1 \in 1 .. Len(cut)
          BY <2>1, ChainIsSeq
        <5>2. QED
          BY <3>4, <5>1 DEF Before
      <4>2. Before(cut', Len(chain) + 1) = last
        <5>1. Len(chain) \in Nat \ {0} /\ (Len(chain) + 1) - 1 = Len(chain)
          BY ChainIsSeq
        <5>2. Len(cut) \in 1 .. Len(cut)
          BY <2>1, <5>1
        <5>3. QED
          BY <2>1, <3>4, <5>1, <5>2 DEF Before
      <4>3. QED
        BY <4>1, <4>2
    <3>7. ASSUME NEW i \in 1 .. Len(chain')
          PROVE  /\ Before(cut', i) + Len(chain'[i].transactions) = cut'[i]
                 /\ cut'[i] <= Len(submitted')
                 /\ Placed(chain'[i].transactions, Before(cut', i), submitted')
      <4>1. CASE i \in 1 .. Len(chain)
        <5>1. /\ chain'[i] = chain[i] /\ cut'[i] = cut[i] /\ Before(cut', i) = Before(cut, i)
              /\ cut[i] \in Nat
          BY <2>1, <3>2, <3>4, <3>6, <4>1, ListsAreSeqs
        <5>2. /\ Before(cut, i) + Len(chain[i].transactions) = cut[i]
              /\ cut[i] <= Len(submitted)
              /\ Placed(chain[i].transactions, Before(cut, i), submitted')
          BY <2>1, <2>4, <3>1, <4>1
        <5>3. QED
          BY <2>2, <3>5, <5>1, <5>2
      <4>2. CASE i = Len(chain) + 1
        <5>1. /\ chain'[i].transactions = pending /\ cut'[i] = Len(submitted)
              /\ Before(cut', i) = last
          BY <2>1, <3>2, <3>4, <3>6, <4>2
        <5>2. Placed(pending, last, submitted')
          BY <2>4, <3>1
        <5>3. QED
          BY <2>1, <2>2, <3>5, <5>1, <5>2
      <4>3. QED
        BY <3>2, <4>1, <4>2, ChainIsSeq
    <3>8. Len(cut') = Len(chain') /\ cut'[Len(cut')] = Len(submitted)
      BY <2>1, <3>2, <3>4
    <3>9. Len(pending') = 1 /\ pending'[1] = reward
      BY <3>1
    <3>10. /\ cut'[Len(cut')] + Len(pending') = Len(submitted')
           /\ Placed(pending', cut'[Len(cut')], submitted')
      BY <2>2, <2>4, <3>1, <3>5, <3>8, <3>9 DEF Placed
    <3>11. QED
      BY <3>7, <3>8, <3>10 DEF NothingLost
  <2>7. CASE UNCHANGED <<chain, pending, submitted, cut>>
    BY <2>7 DEF NothingLost, Before
  <2>8. QED
    BY <2>5, <2>6, <2>7 DEF Next, Mine, TryNextNonce, Validate, vars
<1>3. QED
  BY <1>1, <1>2, TypeCorrect, PTL DEF Spec
-----------------------------------------------------------------------------
(* What follows a block, for the chain and the list that are given.         *)
Following(ch, list, i) == IF i < Len(ch) THEN ch[i + 1].transactions ELSE list

(* A miner's reward is the first transaction after its block and stays it,  *)
(* however many transactions come behind it (Pila 2.0.cpp:121-124).         *)
THEOREM RewardIsNext == Spec => []RewardFollows
<1>1. Init => RewardFollows
  <2> SUFFICES ASSUME Init PROVE RewardFollows
    OBVIOUS
  <2>1. Len(chain) = 1
    BY DEF Init
  <2>2. QED
    BY <2>1 DEF RewardFollows
<1>2. TypeOK /\ RewardFollows /\ [Next]_vars => RewardFollows'
  <2> SUFFICES ASSUME TypeOK, RewardFollows, [Next]_vars PROVE RewardFollows'
    OBVIOUS
  <2>1. ASSUME NEW i \in 2 .. Len(chain)
        PROVE  /\ Following(chain, pending, i) # <<>>
               /\ Following(chain, pending, i)[1] = Reward(chain[i].miner)
    BY DEF RewardFollows, After, Following
  <2>2. SUFFICES ASSUME NEW i \in 2 .. Len(chain')
                 PROVE  /\ Following(chain', pending', i) # <<>>
                        /\ Following(chain', pending', i)[1] = Reward(chain'[i].miner)
    BY DEF RewardFollows, After, Following
  <2>3. Len(chain) \in Nat \ {0}
    BY ChainIsSeq
  <2>4. ASSUME NEW s \in Names, NEW r \in Names, NEW a \in Amounts,
               AddTransaction(s, r, a)
        PROVE  /\ Following(chain', pending', i) # <<>>
               /\ Following(chain', pending', i)[1] = Reward(chain'[i].miner)
    <3> DEFINE t == [sender |-> s, receiver |-> r, amount |-> a]
    <3>1. chain' = chain /\ pending' = Append(pending, t)
      BY <2>4 DEF AddTransaction
    <3>2. pending \in Seq(Transactions)
      BY DEF TypeOK
    <3> HIDE DEF t
    <3>3. /\ pending' # <<>>
          /\ pending # <<>> => pending'[1] = pending[1]
      BY <3>1, <3>2
    <3>4. QED
      BY <2>1, <3>1, <3>3 DEF Following
  <2>5. ASSUME Found
        PROVE  /\ Following(chain', pending', i) # <<>>
               /\ Following(chain', pending', i)[1] = Reward(chain'[i].miner)
    <3>1. search.on /\ pending' = <<Reward(search.miner)>>
      BY <2>5, FoundStep
    <3>2. /\ Len(chain') = Len(chain) + 1
          /\ \A n \in 1 .. Len(chain) : chain'[n] = chain[n]
          /\ chain'[Len(chain) + 1] = Candidate
      BY <2>5, FoundChain
    <3>3. Candidate.transactions = pending /\ Candidate.miner = search.miner
      BY <3>1, CandidateIsBlock
    <3>4. CASE i \in 2 .. Len(chain)
      <4>1. chain'[i] = chain[i]
        BY <2>3, <3>2, <3>4
      <4>2. Following(chain', pending', i) = Following(chain, pending, i)
        BY <2>3, <3>2, <3>3, <3>4 DEF Following
      <4>3. QED
        BY <2>1, <3>4, <4>1, <4>2
    <3>5. CASE i = Len(chain) + 1
      <4>1. Following(chain', pending', i) = <<Reward(search.miner)>>
        BY <3>1, <3>2, <3>5, <2>3 DEF Following
      <4>2. chain'[i].miner = search.miner
        BY <3>2, <3>3, <3>5
      <4>3. QED
        BY <4>1, <4>2
    <3>6. QED
      BY <2>2, <2>3, <3>2, <3>4, <3>5
  <2>6. CASE UNCHANGED <<chain, pending>>
    BY <2>1, <2>2, <2>6
  <2>7. QED
    BY <2>4, <2>5, <2>6 DEF Next, Mine, TryNextNonce, Validate, vars
<1>3. QED
  BY <1>1, <1>2, TypeCorrect, PTL DEF Spec
-----------------------------------------------------------------------------
(***************************************************************************)
(* What the hashed text tells of the transactions.                         *)
(***************************************************************************)

(* The sequence x is p, the element m and a.  The typing of the parts stays   *)
(* behind this operator, and is opened only where it is used.                *)
Parted(S, x, p, m, a) ==
  /\ x \in Seq(S) /\ Len(x) = Len(p) + 1 + Len(a)
  /\ Len(p) \in Nat /\ Len(a) \in Nat
  /\ \A i \in 1 .. Len(p) : x[i] = p[i]
  /\ x[Len(p) + 1] = m
  /\ \A i \in 1 .. Len(a) : x[Len(p) + 1 + i] = a[i]

Join(p, m, a) == p \o <<m>> \o a

LEMMA ConcatParted ==
  \A S, p, m, a : p \in Seq(S) /\ m \in S /\ a \in Seq(S)
                    => Parted(S, Join(p, m, a), p, m, a)
<1> SUFFICES ASSUME NEW S, NEW m \in S, NEW p \in Seq(S), NEW a \in Seq(S)
             PROVE  Parted(S, Join(p, m, a), p, m, a)
  OBVIOUS
<1>1. PICK q : q = p \o <<m>>
  OBVIOUS
<1>2. /\ q \in Seq(S) /\ Len(q) = Len(p) + 1 /\ Len(p) \in Nat
      /\ \A i \in 1 .. Len(p) : q[i] = p[i]
      /\ q[Len(p) + 1] = m
  BY <1>1
<1>3. PICK x : x = p \o <<m>> \o a
  OBVIOUS
<1>4. /\ x \in Seq(S) /\ Len(x) = Len(q) + Len(a) /\ Len(a) \in Nat
      /\ \A i \in 1 .. Len(q) : x[i] = q[i]
      /\ \A i \in 1 .. Len(a) : x[Len(q) + i] = a[i]
  BY <1>1, <1>2, <1>3
<1>5. Parted(S, x, p, m, a)
  BY <1>2, <1>4 DEF Parted
<1> QED BY <1>1, <1>3, <1>5 DEF Join

(* Sequences of one length with the same elements are one. *)
LEMMA SameElements ==
  ASSUME NEW S, NEW a \in Seq(S), NEW b \in Seq(S), Len(a) = Len(b),
         \A i \in 1 .. Len(a) : a[i] = b[i]
  PROVE  a = b
  OBVIOUS

Lacks(a, m) == \A i \in 1 .. Len(a) : a[i] # m

LEMMA PartedLacks ==
  \A S, x, p, m, a, k : Parted(S, x, p, m, a) /\ Lacks(p, k) /\ Lacks(a, k) /\ m # k
                          => Lacks(x, k)
<1> SUFFICES ASSUME NEW S, NEW x, NEW p, NEW m, NEW a, NEW k,
                    Parted(S, x, p, m, a), Lacks(p, k), Lacks(a, k), m # k,
                    NEW i \in 1 .. Len(x)
             PROVE  x[i] # k
  BY DEF Lacks
<1>0. Len(x) = Len(p) + 1 + Len(a) /\ Len(p) \in Nat /\ Len(a) \in Nat
  BY DEF Parted
<1>1. CASE i \in 1 .. Len(p)
  BY <1>1 DEF Parted, Lacks
<1>2. CASE i = Len(p) + 1
  BY <1>2 DEF Parted
<1>3. CASE i > Len(p) + 1
  <2>1. PICK j : j = i - (Len(p) + 1)
    OBVIOUS
  <2>2. j \in 1 .. Len(a) /\ i = Len(p) + 1 + j
    BY <1>0, <1>3, <2>1
  <2>3. x[i] = a[j]
    BY <2>2 DEF Parted
  <2> QED BY <2>2, <2>3 DEF Lacks
<1> QED BY <1>0, <1>1, <1>2, <1>3

(* A sequence is cut at the last place of an element in one way only. *)
LEMMA CutNotLater ==
  ASSUME NEW S, NEW x, NEW p, NEW m, NEW a, NEW q, NEW b,
         Parted(S, x, p, m, a), Parted(S, x, q, m, b), Lacks(a, m)
  PROVE  ~ Len(p) < Len(q)
<1> SUFFICES ASSUME Len(p) < Len(q) PROVE FALSE
  OBVIOUS
<1>1. PICK k : k = Len(q) - Len(p)
  OBVIOUS
<1>2. k \in 1 .. Len(a) /\ Len(p) + 1 + k = Len(q) + 1
  BY <1>1 DEF Parted
<1>3. x[Len(p) + 1 + k] = a[k] /\ x[Len(q) + 1] = m
  BY <1>2 DEF Parted
<1> QED BY <1>2, <1>3 DEF Lacks

LEMMA CutAtLast ==
  \A S, m, p, a, q, b :
    /\ m \in S /\ p \in Seq(S) /\ a \in Seq(S) /\ q \in Seq(S) /\ b \in Seq(S)
    /\ Lacks(a, m) /\ Lacks(b, m)
    /\ Join(p, m, a) = Join(q, m, b)
    => p = q /\ a = b
<1> SUFFICES ASSUME NEW S, NEW m, NEW p, NEW a, NEW q, NEW b,
                    m \in S /\ p \in Seq(S) /\ a \in Seq(S) /\ q \in Seq(S) /\ b \in Seq(S),
                    Lacks(a, m) /\ Lacks(b, m),
                    Join(p, m, a) = Join(q, m, b)
             PROVE  p = q /\ a = b
  OBVIOUS
<1>1. PICK x : x = Join(p, m, a)
  OBVIOUS
<1>2. Parted(S, x, p, m, a)
  BY <1>1, ConcatParted
<1>3. Parted(S, x, q, m, b)
  BY <1>1, ConcatParted
<1>4. ~ Len(p) < Len(q) /\ ~ Len(q) < Len(p)
  BY <1>2, <1>3, CutNotLater
<1>5. Len(p) = Len(q) /\ Len(a) = Len(b)
  BY <1>2, <1>3, <1>4 DEF Parted
<1>6. \A i \in 1 .. Len(p) : p[i] = q[i]
  BY <1>2, <1>3, <1>5 DEF Parted
<1>7. \A i \in 1 .. Len(a) : a[i] = b[i]
  BY <1>2, <1>3, <1>5 DEF Parted
<1> QED BY <1>5, <1>6, <1>7, SameElements

(* What a transaction adds to the text behind its first word: the parts, from *)
(* the last one on.                                                          *)
Closing(t) == <<AmountText(t.amount), EndMark>>
AfterSender(t) == Join(t.receiver, AmountMark, Closing(t))
Cell(t) == Join(t.sender, ReceiverMark, AfterSender(t))

Word == STRING \cup Marks \cup {"Sistema"}

Plain(a) == a \in Seq(Word) /\ \A k \in Marks : Lacks(a, k)

LEMMA MarksAre ==
  /\ Marks \subseteq Word
  /\ SenderMark \in Marks /\ ReceiverMark \in Marks /\ AmountMark \in Marks /\ EndMark \in Marks
  /\ SenderMark # ReceiverMark /\ SenderMark # AmountMark /\ SenderMark # EndMark
  /\ ReceiverMark # AmountMark /\ ReceiverMark # EndMark /\ AmountMark # EndMark
<1>1. /\ SenderMark # ReceiverMark /\ SenderMark # AmountMark /\ SenderMark # EndMark
      /\ ReceiverMark # AmountMark /\ ReceiverMark # EndMark /\ AmountMark # EndMark
  BY SMT DEF SenderMark, ReceiverMark, AmountMark, EndMark
<1> QED BY <1>1 DEF Marks, Word

(* A name, the reward's "Sistema" among them, and an amount are plain. *)
LEMMA SystemPlain == Plain(System)
<1>1. \A k \in Marks : "Sistema" # k
  <2>1. "Sistema" # SenderMark
    BY Zenon DEF SenderMark
  <2>2. "Sistema" # ReceiverMark
    BY Zenon DEF ReceiverMark
  <2>3. "Sistema" # AmountMark
    BY Zenon DEF AmountMark
  <2>4. "Sistema" # EndMark
    BY Zenon DEF EndMark
  <2> QED BY <2>1, <2>2, <2>3, <2>4, Zenon DEF Marks
<1>2. PICK w : w = "Sistema"
  OBVIOUS
<1>3. w \in Word /\ \A k \in Marks : w # k
  BY <1>1, <1>2 DEF Word
<1>4. System = <<w>>
  BY <1>2 DEF System
<1>5. <<w>> \in Seq(Word) /\ Len(<<w>>) = 1 /\ <<w>>[1] = w
  BY <1>3
<1> QED BY <1>3, <1>4, <1>5 DEF Plain, Lacks

LEMMA FieldsPlain ==
  ASSUME NamesDelimited, AmountsPrinted, NEW t \in Transactions
  PROVE  /\ Plain(t.sender) /\ Plain(t.receiver)
         /\ AmountText(t.amount) \in Word \ Marks
<1>1. \A n \in Names : Plain(n)
  <2> SUFFICES ASSUME NEW n \in Names PROVE Plain(n)
    OBVIOUS
  <2>1. n \in Seq(STRING) /\ \A i \in DOMAIN n : n[i] \notin Marks
    BY NamesAssumption DEF NamesDelimited
  <2>2. n \in Seq(Word)
    BY <2>1 DEF Word
  <2> QED BY <2>1, <2>2 DEF Plain, Lacks
<1>2. t.sender \in Names \cup {System} /\ t.receiver \in Names
  BY DEF Transactions
<1>3. AmountText(t.amount) \in Word \ Marks
  BY Zenon DEF AmountsPrinted, Word
<1> QED BY <1>1, <1>2, <1>3, SystemPlain

LEMMA TwoElements ==
  \A S, u, v : u \in S /\ v \in S => /\ <<u, v>> \in Seq(S) /\ Len(<<u, v>>) = 2
                                     /\ <<u, v>>[1] = u /\ <<u, v>>[2] = v
  OBVIOUS

LEMMA PartsLack ==
  ASSUME NamesDelimited, AmountsPrinted, NEW t \in Transactions
  PROVE  /\ Closing(t) \in Seq(Word) /\ Lacks(Closing(t), AmountMark)
         /\ AfterSender(t) \in Seq(Word) /\ Lacks(AfterSender(t), ReceiverMark)
         /\ Cell(t) \in Seq(Word) /\ Lacks(Cell(t), SenderMark)
<1> DEFINE c == Closing(t)
           d == AfterSender(t)
           e == Cell(t)
<1>1. /\ Plain(t.sender) /\ Plain(t.receiver)
      /\ AmountText(t.amount) \in Word \ Marks
  BY FieldsPlain
<1>2. \A k \in Marks : Lacks(t.sender, k) /\ Lacks(t.receiver, k)
  BY <1>1 DEF Plain
<1>3. SenderMark \in Marks /\ ReceiverMark \in Marks /\ AmountMark \in Marks
  BY MarksAre
<1>4. /\ c \in Seq(Word) /\ Len(c) = 2
      /\ c[1] = AmountText(t.amount) /\ c[2] = EndMark
  BY <1>1, MarksAre, TwoElements DEF Closing
<1> HIDE DEF c
<1>5. Lacks(c, SenderMark) /\ Lacks(c, ReceiverMark) /\ Lacks(c, AmountMark)
  BY <1>1, <1>3, <1>4, MarksAre DEF Lacks
<1>6. Parted(Word, d, t.receiver, AmountMark, c)
  BY <1>1, <1>4, MarksAre, ConcatParted DEF AfterSender, Plain, c
<1> HIDE DEF d
<1>7. d \in Seq(Word) /\ Lacks(d, SenderMark) /\ Lacks(d, ReceiverMark)
  <2>1. d \in Seq(Word)
    BY <1>6 DEF Parted
  <2> QED BY <1>2, <1>3, <1>5, <1>6, <2>1, MarksAre, PartedLacks
<1>8. Parted(Word, e, t.sender, ReceiverMark, d)
  BY <1>1, <1>7, MarksAre, ConcatParted DEF Cell, Plain, d
<1> HIDE DEF e
<1>9. e \in Seq(Word) /\ Lacks(e, SenderMark)
  <2>1. e \in Seq(Word)
    BY <1>8 DEF Parted
  <2> QED BY <1>2, <1>3, <1>7, <1>8, <2>1, MarksAre, PartedLacks
<1> QED BY <1>4, <1>5, <1>7, <1>9 DEF c, d, e

(* The cell of a transaction tells the transaction. *)
LEMMA CellTells ==
  ASSUME NamesDelimited, AmountsPrinted, NEW t \in Transactions, NEW u \in Transactions,
         Cell(t) = Cell(u)
  PROVE  t = u
<1>1. /\ Closing(t) \in Seq(Word) /\ Lacks(Closing(t), AmountMark)
      /\ AfterSender(t) \in Seq(Word) /\ Lacks(AfterSender(t), ReceiverMark)
  BY PartsLack
<1>2. /\ Closing(u) \in Seq(Word) /\ Lacks(Closing(u), AmountMark)
      /\ AfterSender(u) \in Seq(Word) /\ Lacks(AfterSender(u), ReceiverMark)
  BY PartsLack
<1>3. /\ t.sender \in Seq(Word) /\ t.receiver \in Seq(Word)
      /\ u.sender \in Seq(Word) /\ u.receiver \in Seq(Word)
      /\ ReceiverMark \in Word /\ AmountMark \in Word
  BY FieldsPlain, MarksAre DEF Plain
<1>4. t.sender = u.sender /\ AfterSender(t) = AfterSender(u)
  <2>1. Join(t.sender, ReceiverMark, AfterSender(t)) = Join(u.sender, ReceiverMark, AfterSender(u))
    BY DEF Cell
  <2> QED BY <1>1, <1>2, <1>3, <2>1, CutAtLast
<1>5. t.receiver = u.receiver /\ Closing(t) = Closing(u)
  <2>1. Join(t.receiver, AmountMark, Closing(t)) = Join(u.receiver, AmountMark, Closing(u))
    BY <1>4 DEF AfterSender
  <2> QED BY <1>1, <1>2, <1>3, <2>1, CutAtLast
<1>6. AmountText(t.amount) = AmountText(u.amount)
  BY <1>5 DEF Closing
<1>7. t.amount = u.amount
  BY <1>6, Zenon DEF AmountsPrinted
<1> QED BY <1>4, <1>5, <1>7 DEF Transactions
-----------------------------------------------------------------------------
(* The text of a list, one transaction more.                                  *)
Entry(t) == <<SenderMark>> \o TransactionText(t) \o <<EndMark>>
Entries(txs) == [i \in DOMAIN txs |-> Entry(txs[i])]

LEMMA TextOfEntries == \A txs : TransactionsText(txs) = SE!FlattenSeq(Entries(txs))
  BY DEF TransactionsText, Entries, Entry, SX!FlattenSeq, SE!FlattenSeq

LEMMA Associative == \A a, b, c \in Seq(Word) : (a \o b) \o c = a \o (b \o c)
  BY ConcatAssociative

(* Three words are two and one, or one and two. *)
LEMMA ThreeWords ==
  ASSUME NEW a \in Word, NEW b \in Word, NEW c \in Word
  PROVE  <<a, b>> \o <<c>> = <<a>> \o <<b, c>>
<1>1. PICK x, y : x = <<a, b>> \o <<c>> /\ y = <<a>> \o <<b, c>>
  OBVIOUS
<1>2. x \in Seq(Word) /\ Len(x) = 3
  BY <1>1
<1>3. y \in Seq(Word) /\ Len(y) = 3
  BY <1>1
<1>4. x[1] = a /\ x[2] = b /\ x[3] = c
  BY <1>1
<1>5. y[1] = a /\ y[2] = b /\ y[3] = c
  BY <1>1
<1>6. \A i \in 1 .. Len(x) : x[i] = y[i]
  BY <1>2, <1>4, <1>5
<1>7. x = y
  BY <1>2, <1>3, <1>6, SeqEqual
<1> QED BY <1>1, <1>7

LEMMA ConcatTyped ==
  \A S, a, b : a \in Seq(S) /\ b \in Seq(S) => a \o b \in Seq(S)
  OBVIOUS

LEMMA EntryIs ==
  ASSUME NamesDelimited, AmountsPrinted, NEW t \in Transactions
  PROVE  Entry(t) = <<SenderMark>> \o Cell(t) /\ Entry(t) \in Seq(Word)
<1>1. PICK s, r, a : s = t.sender /\ r = t.receiver /\ a = AmountText(t.amount)
  OBVIOUS
<1>2. s \in Seq(Word) /\ r \in Seq(Word) /\ a \in Word
  BY <1>1, FieldsPlain DEF Plain
<1>3. PICK sm, rm, am, c, ac, e :
        /\ sm = <<SenderMark>> /\ rm = <<ReceiverMark>> /\ am = <<AmountMark>>
        /\ c = <<a, EndMark>> /\ ac = <<AmountMark, a>> /\ e = <<EndMark>>
  OBVIOUS
<1>4. PICK k1, k2, k3, k4 : /\ k1 = SenderMark /\ k2 = ReceiverMark
                            /\ k3 = AmountMark /\ k4 = EndMark
  OBVIOUS
<1>5. k1 \in Word /\ k2 \in Word /\ k3 \in Word /\ k4 \in Word
  BY <1>4, MarksAre
<1>6. /\ sm = <<k1>> /\ rm = <<k2>> /\ am = <<k3>> /\ c = <<a, k4>>
      /\ ac = <<k3, a>> /\ e = <<k4>>
  BY <1>3, <1>4
<1>7. /\ sm \in Seq(Word) /\ rm \in Seq(Word) /\ am \in Seq(Word) /\ c \in Seq(Word)
      /\ ac \in Seq(Word) /\ e \in Seq(Word)
  BY <1>2, <1>5, <1>6
<1>8. ac \o e = am \o c
  <2>1. <<k3, a>> \o <<k4>> = <<k3>> \o <<a, k4>>
    BY <1>2, <1>5, ThreeWords
  <2> QED BY <1>6, <2>1
<1>9. PICK u : u = s \o rm
  OBVIOUS
<1>10. PICK ur : ur = u \o r
  OBVIOUS
<1>11. PICK text : text = ur \o ac
  OBVIOUS
<1>12. PICK amc : amc = am \o c
  OBVIOUS
<1>13. PICK ramc : ramc = (r \o am) \o c
  OBVIOUS
<1>14. PICK cell : cell = u \o ramc
  OBVIOUS
<1>15. TransactionText(t) = text
  <2>1. TransactionText(t) = ((s \o rm) \o r) \o ac
    BY <1>1, <1>3, Zenon DEF TransactionText
  <2> QED BY <1>9, <1>10, <1>11, <2>1, Zenon
<1>16. Cell(t) = cell
  <2>1. Cell(t) = (s \o rm) \o ((r \o am) \o c)
    BY <1>1, <1>3, Zenon DEF Cell, AfterSender, Closing, Join
  <2> QED BY <1>9, <1>13, <1>14, <2>1, Zenon
<1>17. u \in Seq(Word) /\ ur \in Seq(Word) /\ text \in Seq(Word) /\ amc \in Seq(Word)
  <2>1. u \in Seq(Word)
    BY <1>2, <1>7, <1>9, ConcatTyped, Zenon
  <2>2. ur \in Seq(Word)
    BY <1>2, <1>10, <2>1, ConcatTyped, Zenon
  <2>3. text \in Seq(Word)
    BY <1>7, <1>11, <2>2, ConcatTyped, Zenon
  <2>4. amc \in Seq(Word)
    BY <1>7, <1>12, ConcatTyped, Zenon
  <2> QED BY <2>1, <2>2, <2>3, <2>4
<1>18. ramc = r \o amc
  <2>1. (r \o am) \o c = r \o (am \o c)
    <3>1. r \in Seq(Word) /\ am \in Seq(Word) /\ c \in Seq(Word)
      BY <1>2, <1>7
    <3> QED BY <3>1, Associative, Zenon
  <2> QED BY <1>12, <1>13, <2>1, Zenon
<1>19. text \o e = cell
  <2>1. (ur \o ac) \o e = ur \o (ac \o e)
    <3>1. ur \in Seq(Word) /\ ac \in Seq(Word) /\ e \in Seq(Word)
      BY <1>7, <1>17
    <3> QED BY <3>1, Associative, Zenon
  <2>2. text \o e = ur \o amc
    BY <1>8, <1>11, <1>12, <2>1, Zenon
  <2>3. (u \o r) \o amc = u \o (r \o amc)
    <3>1. u \in Seq(Word) /\ r \in Seq(Word) /\ amc \in Seq(Word)
      BY <1>2, <1>17
    <3> QED BY <3>1, Associative, Zenon
  <2>4. ur \o amc = cell
    BY <1>10, <1>14, <1>18, <2>3, Zenon
  <2> QED BY <2>2, <2>4, Zenon
<1>20. cell \in Seq(Word)
  BY <1>7, <1>17, <1>19, ConcatTyped, Zenon
<1>21. (sm \o text) \o e = sm \o cell
  <2>1. (sm \o text) \o e = sm \o (text \o e)
    <3>1. sm \in Seq(Word) /\ text \in Seq(Word) /\ e \in Seq(Word)
      BY <1>7, <1>17
    <3> QED BY <3>1, Associative, Zenon
  <2> QED BY <1>19, <2>1, Zenon
<1>22. Entry(t) = sm \o cell
  BY <1>3, <1>15, <1>21, Zenon DEF Entry
<1>23. sm \o cell \in Seq(Word)
  BY <1>7, <1>20, ConcatTyped, Zenon
<1> QED BY <1>3, <1>16, <1>22, <1>23, Zenon

LEMMA EntriesAppend ==
  ASSUME NamesDelimited, AmountsPrinted, NEW txs \in Seq(Transactions), NEW t \in Transactions
  PROVE  /\ Entries(txs) \in Seq(Seq(Word))
         /\ Entries(Append(txs, t)) = Append(Entries(txs), Entry(t))
<1>1. \A u \in Transactions : Entry(u) \in Seq(Word)
  BY EntryIs
<1>2. Entries(txs) \in Seq(Seq(Word))
  BY <1>1 DEF Entries
<1>3. Entries(Append(txs, t)) = Append(Entries(txs), Entry(t))
  BY <1>1 DEF Entries
<1> QED BY <1>2, <1>3

LEMMA TextAppend ==
  ASSUME NamesDelimited, AmountsPrinted, NEW txs \in Seq(Transactions), NEW t \in Transactions
  PROVE  /\ TransactionsText(txs) \in Seq(Word)
         /\ TransactionsText(Append(txs, t)) = Join(TransactionsText(txs), SenderMark, Cell(t))
<1>1. PICK es, e : es = Entries(txs) /\ e = Entry(t)
  OBVIOUS
<1>2. es \in Seq(Seq(Word)) /\ e \in Seq(Word) /\ Entries(Append(txs, t)) = Append(es, e)
  BY <1>1, EntriesAppend, EntryIs
<1>3. PICK text : text = SE!FlattenSeq(es)
  OBVIOUS
<1>4. text \in Seq(Word) /\ SE!FlattenSeq(Append(es, e)) = text \o e
  BY <1>2, <1>3, FlattenType, FlattenAppend
<1>5. TransactionsText(txs) = text /\ TransactionsText(Append(txs, t)) = text \o e
  BY <1>1, <1>2, <1>3, <1>4, TextOfEntries, Zenon
<1>6. PICK m, c : m = <<SenderMark>> /\ c = Cell(t)
  OBVIOUS
<1>7. m \in Seq(Word) /\ c \in Seq(Word) /\ e = m \o c
  <2>1. SenderMark \in Word /\ c \in Seq(Word)
    BY <1>6, MarksAre, PartsLack
  <2> QED BY <1>1, <1>6, <2>1, EntryIs
<1>8. text \o e = (text \o m) \o c
  <2>1. (text \o m) \o c = text \o (m \o c)
    BY <1>4, <1>7, Associative, Zenon
  <2> QED BY <1>7, <2>1, Zenon
<1> QED BY <1>4, <1>5, <1>6, <1>8, Zenon DEF Join

LEMMA EmptyText == TransactionsText(<<>>) = <<>>
<1>1. Entries(<<>>) = <<>>
  BY DEF Entries
<1> QED BY <1>1, TextOfEntries, FlattenEmpty, Zenon

(* A list with a transaction has a text that is not empty. *)
LEMMA TextNotEmpty ==
  ASSUME NamesDelimited, AmountsPrinted, NEW txs \in Seq(Transactions), txs # <<>>
  PROVE  TransactionsText(txs) # <<>>
<1>1. PICK s \in Seq(Transactions), t \in Transactions : txs = Append(s, t)
  BY SequenceEmptyOrAppend
<1>2. PICK x, p, c : x = TransactionsText(txs) /\ p = TransactionsText(s) /\ c = Cell(t)
  OBVIOUS
<1>3. x = Join(p, SenderMark, c) /\ p \in Seq(Word)
  BY <1>1, <1>2, TextAppend
<1>4. c \in Seq(Word) /\ SenderMark \in Word
  BY <1>2, PartsLack, MarksAre
<1>5. Parted(Word, x, p, SenderMark, c)
  BY <1>3, <1>4, ConcatParted, Zenon
<1>6. Len(x) > 0
  BY <1>5 DEF Parted
<1> QED BY <1>2, <1>6

(* The text tells the list, for lists of every length. *)
Told(n) == \A x, y \in Seq(Transactions) :
             Len(x) = n /\ TransactionsText(x) = TransactionsText(y) => x = y

LEMMA TextTells ==
  ASSUME NamesDelimited, AmountsPrinted
  PROVE  \A x, y \in Seq(Transactions) : TransactionsText(x) = TransactionsText(y) => x = y
<1> DEFINE T1 == {n \in Nat : Told(n)}
<1>1. 0 \in T1
  <2> SUFFICES ASSUME NEW x \in Seq(Transactions), NEW y \in Seq(Transactions), Len(x) = 0,
                      TransactionsText(x) = TransactionsText(y)
               PROVE  x = y
    BY DEF Told
  <2>1. x = <<>>
    OBVIOUS
  <2>2. TransactionsText(y) = <<>>
    BY <2>1, EmptyText
  <2>3. y = <<>>
    BY <2>2, TextNotEmpty
  <2> QED BY <2>1, <2>3
<1>2. ASSUME NEW n \in Nat, n \in T1 PROVE n + 1 \in T1
  <2> SUFFICES ASSUME NEW x \in Seq(Transactions), NEW y \in Seq(Transactions), Len(x) = n + 1,
                      TransactionsText(x) = TransactionsText(y)
               PROVE  x = y
    BY DEF Told
  <2>1. x # <<>>
    OBVIOUS
  <2>2. y # <<>>
    BY <2>1, TextNotEmpty, EmptyText
  <2>3. PICK v \in Seq(Transactions), t \in Transactions : x = Append(v, t)
    BY <2>1, SequenceEmptyOrAppend
  <2>4. PICK w \in Seq(Transactions), u \in Transactions : y = Append(w, u)
    BY <2>2, SequenceEmptyOrAppend
  <2>5. PICK p, q, c, d : /\ p = TransactionsText(v) /\ q = TransactionsText(w)
                          /\ c = Cell(t) /\ d = Cell(u)
    OBVIOUS
  <2>6. /\ p \in Seq(Word) /\ q \in Seq(Word)
        /\ TransactionsText(x) = Join(p, SenderMark, c)
        /\ TransactionsText(y) = Join(q, SenderMark, d)
    BY <2>3, <2>4, <2>5, TextAppend
  <2>7. /\ c \in Seq(Word) /\ d \in Seq(Word) /\ SenderMark \in Word
        /\ Lacks(c, SenderMark) /\ Lacks(d, SenderMark)
    BY <2>5, PartsLack, MarksAre
  <2>8. Join(p, SenderMark, c) = Join(q, SenderMark, d)
    BY <2>6
  <2>9. p = q /\ c = d
    BY <2>6, <2>7, <2>8, CutAtLast
  <2>10. t = u
    BY <2>5, <2>9, CellTells
  <2>11. Len(v) = n
    BY <2>3
  <2>12. v = w
    BY <1>2, <2>5, <2>9, <2>11 DEF Told
  <2> QED BY <2>3, <2>4, <2>10, <2>12
<1> HIDE DEF T1
<1>3. \A n \in Nat : n \in T1
  BY <1>1, <1>2, SetInduction
<1> QED BY <1>3 DEF T1, Told
-----------------------------------------------------------------------------
(***************************************************************************)
(* What a change of the chain does to the check.                           *)
(***************************************************************************)

LEMMA DigestTells ==
  \A s, t, x, h, n, s2, t2, x2, h2, n2 :
    Digest(s, t, x, h, n) = Digest(s2, t2, x2, h2, n2)
      => t = t2 /\ TransactionsText(x) = TransactionsText(x2) /\ h = h2 /\ n = n2
  BY DEF Digest

LEMMA DigestNotEmpty == \A s, t, x, h, n : Digest(s, t, x, h, n) # NoHash
  BY DEF Digest, NoHash

(* The hash of a block is the digest of its contents and of the hash before.  *)
LEMMA HashIs ==
  ASSUME ChainLinked, NEW i \in 2 .. Len(chain)
  PROVE  \E s : chain[i].hash = Digest(s, chain[i].timestamp, chain[i].transactions,
                                       chain[i - 1].hash, chain[i].nonce)
  BY DEF ChainLinked

(* No two blocks of a linked chain have the same hash: the hash of the block  *)
(* before is in it, down to the genesis block, which has none.               *)
Genesis == chain[1].hash = NoHash

Differs(n) == \A j \in 1 .. Len(chain) : n < j => chain[n].hash # chain[j].hash

LEMMA HashesDiffer ==
  ASSUME TypeOK, ChainLinked, Genesis
  PROVE  \A i, j \in 1 .. Len(chain) : i # j => chain[i].hash # chain[j].hash
<1> DEFINE D == {n \in Nat : n + 1 <= Len(chain) => Differs(n + 1)}
<1>0. Len(chain) \in Nat
  BY ChainIsSeq
<1>1. 0 \in D
  <2> SUFFICES ASSUME NEW j \in 1 .. Len(chain), 1 < j PROVE chain[1].hash # chain[j].hash
    BY DEF Differs
  <2>1. j \in 2 .. Len(chain)
    BY <1>0
  <2>2. chain[j].hash # NoHash
    BY <2>1, HashIs, DigestNotEmpty
  <2> QED BY <2>2 DEF Genesis
<1>2. ASSUME NEW n \in Nat, n \in D PROVE n + 1 \in D
  <2> SUFFICES ASSUME n + 1 + 1 <= Len(chain), NEW j \in 1 .. Len(chain), n + 1 + 1 < j,
                      chain[n + 1 + 1].hash = chain[j].hash
               PROVE  FALSE
    BY DEF Differs
  <2>1. PICK i : i = n + 1 + 1
    OBVIOUS
  <2>2. i \in 2 .. Len(chain) /\ j \in 2 .. Len(chain) /\ i - 1 = n + 1 /\ n + 1 <= Len(chain)
        /\ j - 1 \in 1 .. Len(chain) /\ n + 1 < j - 1
    BY <1>0, <2>1
  <2>3. chain[i - 1].hash = chain[j - 1].hash
    <3>1. PICK s : chain[i].hash = Digest(s, chain[i].timestamp, chain[i].transactions,
                                          chain[i - 1].hash, chain[i].nonce)
      BY <2>2, HashIs
    <3>2. PICK t : chain[j].hash = Digest(t, chain[j].timestamp, chain[j].transactions,
                                          chain[j - 1].hash, chain[j].nonce)
      BY <2>2, HashIs
    <3>3. Digest(s, chain[i].timestamp, chain[i].transactions, chain[i - 1].hash, chain[i].nonce)
            = Digest(t, chain[j].timestamp, chain[j].transactions, chain[j - 1].hash, chain[j].nonce)
      BY <2>1, <3>1, <3>2
    <3> QED BY <3>3, DigestTells
  <2> QED BY <1>2, <2>2, <2>3 DEF Differs
<1> HIDE DEF D
<1>3. \A n \in Nat : n \in D
  BY <1>1, <1>2, SetInduction
<1>4. ASSUME NEW i \in 1 .. Len(chain), NEW j \in 1 .. Len(chain), i < j
      PROVE  chain[i].hash # chain[j].hash
  <2>1. i - 1 \in Nat /\ i - 1 + 1 = i
    BY <1>0
  <2>2. i - 1 \in D /\ i <= Len(chain)
    BY <1>0, <1>3, <2>1
  <2>3. Differs(i)
    BY <2>1, <2>2 DEF D
  <2> QED BY <1>4, <2>3 DEF Differs
<1> QED BY <1>0, <1>4

(* What is_chain_valid finds out of block i of the chain ch. *)
LEMMA CheckTells ==
  ASSUME NEW ch, NEW state, NEW i \in 2 .. Len(ch), IsChainValid(ch, state)
  PROVE  \E s : Digest(s, ch[i].timestamp, ch[i].transactions, ch[i - 1].hash, ch[i].nonce)
                  = ch[i].hash
  BY DEF IsChainValid, BlockOk

(* Another list of transactions with the same text, the rest as it was.       *)
Retold(ch) ==
  \E i \in 2 .. Len(chain), l \in Seq(Transactions) :
    /\ ch = [chain EXCEPT ![i] = [chain[i] EXCEPT !.transactions = l]]
    /\ l # chain[i].transactions
    /\ TransactionsText(l) = TransactionsText(chain[i].transactions)

(* A block is exchanged for one that differs in a field. *)
LEMMA BlockChanged ==
  ASSUME TypeOK, ChainLinked, Genesis, NEW state, NEW i \in 2 .. Len(chain), NEW b, b # chain[i],
         \/ \E t \in Times : b = [chain[i] EXCEPT !.timestamp = t]
         \/ \E n \in Nonces : b = [chain[i] EXCEPT !.nonce = n]
         \/ \E l \in Seq(Transactions) : b = [chain[i] EXCEPT !.transactions = l]
         \/ \E k \in DOMAIN chain : b = [chain[i] EXCEPT !.hash = chain[k].hash],
         IsChainValid([chain EXCEPT ![i] = b], state)
  PROVE  Retold([chain EXCEPT ![i] = b])
<1>0. /\ Len(chain) \in Nat /\ DOMAIN chain = 1 .. Len(chain) /\ i \in 1 .. Len(chain)
      /\ i - 1 \in 1 .. Len(chain) /\ i - 1 # i
  BY ChainIsSeq
<1>1. PICK old : old = chain[i]
  OBVIOUS
<1>2. old \in [index : Nat, timestamp : Times, transactions : Seq(Transactions),
               previous_hash : {old.previous_hash}, hash : {old.hash},
               miner : Names \cup {<<>>}, nonce : Nonces]
  BY <1>0, <1>1 DEF TypeOK, IsBlock
<1>3. PICK s : old.hash = Digest(s, old.timestamp, old.transactions, chain[i - 1].hash, old.nonce)
  BY <1>1, HashIs
<1>4. PICK s2 : Digest(s2, b.timestamp, b.transactions, chain[i - 1].hash, b.nonce) = b.hash
  <2>1. PICK ch : ch = [chain EXCEPT ![i] = b]
    OBVIOUS
  <2>2. Len(ch) = Len(chain) /\ ch[i] = b /\ ch[i - 1] = chain[i - 1]
    BY <1>0, <2>1, ChainIsSeq
  <2>3. i \in 2 .. Len(ch) /\ IsChainValid(ch, state)
    BY <2>1, <2>2
  <2>4. PICK r : Digest(r, ch[i].timestamp, ch[i].transactions, ch[i - 1].hash, ch[i].nonce)
                    = ch[i].hash
    BY <2>3, CheckTells
  <2> QED BY <2>2, <2>4
<1>5. CASE \E t \in Times : b = [old EXCEPT !.timestamp = t]
  <2>1. b.hash = old.hash /\ b.timestamp # old.timestamp
    BY <1>1, <1>2, <1>5
  <2> QED BY <1>3, <1>4, <2>1, DigestTells
<1>6. CASE \E n \in Nonces : b = [old EXCEPT !.nonce = n]
  <2>1. b.hash = old.hash /\ b.nonce # old.nonce
    BY <1>1, <1>2, <1>6
  <2> QED BY <1>3, <1>4, <2>1, DigestTells
<1>7. ASSUME NEW l \in Seq(Transactions), b = [old EXCEPT !.transactions = l]
      PROVE  Retold([chain EXCEPT ![i] = b])
  <2>1. b.hash = old.hash /\ b.transactions = l /\ l # old.transactions
    BY <1>1, <1>2, <1>7
  <2>2. TransactionsText(l) = TransactionsText(old.transactions)
    BY <1>3, <1>4, <2>1, DigestTells
  <2> QED BY <1>1, <1>7, <2>1, <2>2 DEF Retold
<1>8. ASSUME NEW k \in DOMAIN chain, b = [old EXCEPT !.hash = chain[k].hash]
      PROVE  FALSE
  <2>1. b.hash = chain[k].hash /\ chain[k].hash # old.hash
    BY <1>1, <1>2, <1>8
  <2>2. k \in 1 .. Len(chain) /\ k # i
    BY <1>0, <1>1, <2>1
  <2>3. k # 1
    BY <1>4, <2>1, DigestNotEmpty DEF Genesis
  <2>4. k \in 2 .. Len(chain) /\ k - 1 \in 1 .. Len(chain) /\ k - 1 # i - 1
    BY <1>0, <2>2, <2>3
  <2>5. PICK s3 : chain[k].hash = Digest(s3, chain[k].timestamp, chain[k].transactions,
                                         chain[k - 1].hash, chain[k].nonce)
    BY <2>4, HashIs
  <2>6. chain[i - 1].hash = chain[k - 1].hash
    BY <1>4, <2>1, <2>5, DigestTells
  <2> QED BY <1>0, <2>4, <2>6, HashesDiffer
<1> QED BY <1>1, <1>5, <1>6, <1>7, <1>8

(* An inner block is missing. *)
LEMMA BlockMissing ==
  ASSUME TypeOK, ChainLinked, Genesis, NEW state, NEW i \in 2 .. Len(chain) - 1
  PROVE  ~ IsChainValid(SX!RemoveAt(chain, i), state)
<1> SUFFICES ASSUME IsChainValid(SX!RemoveAt(chain, i), state) PROVE FALSE
  OBVIOUS
<1>1. PICK S : chain \in Seq(S) /\ Len(chain) \in Nat
  BY ChainIsSeq
<1>2. PICK ch : ch = SX!RemoveAt(chain, i)
  OBVIOUS
<1>3. Len(ch) = Len(chain) - 1 /\ ch[i] = chain[i + 1] /\ ch[i - 1] = chain[i - 1]
  <2>1. PICK x, y : /\ x = SubSeq(chain, 1, i - 1) /\ y = SubSeq(chain, i + 1, Len(chain))
                    /\ ch = x \o y
    BY <1>2 DEF SX!RemoveAt
  <2>2. x \in Seq(S) /\ Len(x) = i - 1 /\ x[i - 1] = chain[i - 1]
    BY <1>1, <2>1
  <2>3. y \in Seq(S) /\ Len(y) = Len(chain) - i /\ y[1] = chain[i + 1]
    <3>1. PICK m \in Int, n \in Int : m = i + 1 /\ n = Len(chain) /\ m <= n
      BY <1>1
    <3>2. \A j \in m .. n : chain[j] \in S
      BY <1>1, <3>1
    <3>3. /\ y \in Seq(S) /\ Len(y) = n - m + 1
          /\ \A j \in 1 .. n - m + 1 : y[j] = chain[m + j - 1]
      BY <2>1, <3>1, <3>2, SubSeqProperties
    <3>4. 1 \in 1 .. n - m + 1 /\ m + 1 - 1 = m /\ n - m + 1 = n - i
      BY <3>1
    <3> QED BY <3>1, <3>3, <3>4
  <2> QED BY <1>1, <2>1, <2>2, <2>3
<1>4. i \in 2 .. Len(ch)
  BY <1>1, <1>3
<1>5. PICK s : Digest(s, chain[i + 1].timestamp, chain[i + 1].transactions,
                      chain[i - 1].hash, chain[i + 1].nonce) = chain[i + 1].hash
  BY <1>2, <1>3, <1>4, CheckTells
<1>6. i + 1 \in 2 .. Len(chain) /\ i + 1 - 1 = i
  BY <1>1
<1>7. PICK t : chain[i + 1].hash = Digest(t, chain[i + 1].timestamp, chain[i + 1].transactions,
                                          chain[i].hash, chain[i + 1].nonce)
  BY <1>6, HashIs
<1>8. chain[i - 1].hash = chain[i].hash
  BY <1>5, <1>7, DigestTells
<1> QED BY <1>1, <1>8, HashesDiffer

(* The alterations, one by one. *)
LEMMA AlterationSeen ==
  ASSUME TypeOK, ChainLinked, Genesis, NEW ch \in Altered(chain), NEW state, IsChainValid(ch, state)
  PROVE  Retold(ch)
<1>1. CASE \E i \in 2 .. Len(chain) - 1 : ch = SX!RemoveAt(chain, i)
  BY <1>1, BlockMissing
<1>2. ASSUME NEW i \in 2 .. Len(chain), NEW b, b # chain[i], ch = [chain EXCEPT ![i] = b],
             \/ \E t \in Times : b = [chain[i] EXCEPT !.timestamp = t]
             \/ \E n \in Nonces : b = [chain[i] EXCEPT !.nonce = n]
             \/ \E l \in {<<>>} \cup {<<t>> : t \in Transactions} : b = [chain[i] EXCEPT !.transactions = l]
             \/ \E k \in DOMAIN chain : b = [chain[i] EXCEPT !.hash = chain[k].hash]
      PROVE  Retold(ch)
  <2>1. <<>> \in Seq(Transactions) /\ \A t \in Transactions : <<t>> \in Seq(Transactions)
    OBVIOUS
  <2>2. \/ \E t \in Times : b = [chain[i] EXCEPT !.timestamp = t]
        \/ \E n \in Nonces : b = [chain[i] EXCEPT !.nonce = n]
        \/ \E l \in Seq(Transactions) : b = [chain[i] EXCEPT !.transactions = l]
        \/ \E k \in DOMAIN chain : b = [chain[i] EXCEPT !.hash = chain[k].hash]
    BY <1>2, <2>1, Zenon
  <2>3. IsChainValid([chain EXCEPT ![i] = b], state)
    BY <1>2
  <2>4. Retold([chain EXCEPT ![i] = b])
    BY <1>2, <2>2, <2>3, BlockChanged
  <2> QED BY <1>2, <2>4
<1>3. PICK exchanged, removed :
        /\ exchanged = UNION {Exchanged(chain, i) : i \in 2 .. Len(chain)}
        /\ removed = {SX!RemoveAt(chain, i) : i \in 2 .. Len(chain) - 1}
  OBVIOUS
<1>4. ch \in exchanged \/ ch \in removed
  <2>1. Altered(chain) = exchanged \cup removed
    BY <1>3, Zenon DEF Altered
  <2> QED BY <2>1
<1>5. CASE ch \in removed
  BY <1>1, <1>3, <1>5
<1>6. CASE ch \in exchanged
  <2>1. PICK i \in 2 .. Len(chain) : ch \in Exchanged(chain, i)
    BY <1>3, <1>6, Zenon
  <2>2. PICK b \in Variants(chain, chain[i]) \ {chain[i]} : ch = [chain EXCEPT ![i] = b]
    BY <2>1 DEF Exchanged
  <2> QED BY <1>2, <2>2 DEF Variants
<1> QED BY <1>4, <1>5, <1>6

(* The genesis block keeps its empty hash. *)
LEMMA GenesisStays == TypeOK /\ Genesis /\ [Next]_vars => Genesis'
<1> SUFFICES ASSUME TypeOK, Genesis, [Next]_vars PROVE Genesis'
  OBVIOUS
<1>1. CASE ~ Found
  BY <1>1, ChainKept DEF Genesis
<1>2. CASE Found
  <2>1. chain'[1] = chain[1]
    BY <1>2, FoundChain, ChainIsSeq
  <2> QED BY <2>1 DEF Genesis
<1> QED BY <1>1, <1>2

LEMMA InitGenesis == Init => Genesis
  BY DEF Init, Genesis

(* Whatever the names hold: is_chain_valid overlooks no change of a mined     *)
(* block and no missing block but a list of transactions with the same text  *)
(* (Pila 2.0.cpp:108-119, 133-155).                                          *)
OnlyTextHides ==
  \A ch \in Altered(chain), state \in 0 .. RngStates - 1 : IsChainValid(ch, state) => Retold(ch)

THEOREM OnlySameTextHides == Spec => []OnlyTextHides
<1>1. TypeOK /\ ChainLinked /\ Genesis => OnlyTextHides
  BY AlterationSeen DEF OnlyTextHides
<1> QED BY <1>1, InitGenesis, GenesisStays, TypeCorrect, ChainIsLinked, PTL DEF Spec

(* As long as no name holds a word that the text puts around the fields, it   *)
(* overlooks none at all (README.md:3, Pila 2.0.cpp:133-155).                *)
THEOREM AlterationsNoticed ==
  ASSUME NamesDelimited, AmountsPrinted
  PROVE  Spec => []AlterationNoticed
<1>1. TypeOK /\ OnlyTextHides => AlterationNoticed
  <2> SUFFICES ASSUME TypeOK, OnlyTextHides, NEW ch \in Altered(chain),
                      NEW state \in 0 .. RngStates - 1, IsChainValid(ch, state)
               PROVE  FALSE
    BY DEF AlterationNoticed
  <2>1. PICK i \in 2 .. Len(chain), l \in Seq(Transactions) :
          /\ l # chain[i].transactions
          /\ TransactionsText(l) = TransactionsText(chain[i].transactions)
    BY DEF OnlyTextHides, Retold
  <2>2. chain[i].transactions \in Seq(Transactions)
    BY ChainIsSeq, ListsAreSeqs
  <2> QED BY <2>1, <2>2, TextTells
<1> QED BY <1>1, OnlySameTextHides, TypeCorrect, PTL
=============================================================================
