------------------------------- MODULE Ledger -------------------------------
(***************************************************************************)
(* The class PILA (Pila 2.0.cpp): a chain of blocks, the transactions that *)
(* wait for the next block, the search for a nonce and the check of the    *)
(* chain.  The class has no lock and its methods do not wait for one       *)
(* another, so a call is over before the next one starts; the search is    *)
(* the one call that may last, and each turn of its loop is a step.        *)
(*                                                                         *)
(* SHA-256 is taken to be free of collisions: the digest of a text is the  *)
(* text itself with the shuffle it went through.  What is kept is how the  *)
(* text is put together, and that the names in it are not delimited.       *)
(***************************************************************************)
EXTENDS Integers, Sequences, FiniteSets

SX == INSTANCE SequencesExt
T == INSTANCE TLC

CONSTANTS
  Names,          \* addresses; a sequence of words each, as a text has them
  Amounts,        \* amounts of the transactions that are entered
  Times,          \* values of std::time
  HalfRange,      \* 2 ^ (w - 1), where w is the width of an int
  RewardHalves,   \* twice the "reward" of the constructor, a double
  Meets(_),       \* a digest begins with "difficulty" zeros
  SeededShuffle,  \* std::random_shuffle draws from std::rand, which srand seeds
  RngStates,      \* states of the generator it draws from otherwise
  MaxBlocks,      \* bound on the length of the chain
  MaxPending      \* bound on the transactions that wait

ASSUME NamesAssumption == Names \subseteq Seq(STRING)
ASSUME RangeAssumption == HalfRange \in Nat \ {0}
ASSUME RewardAssumption == RewardHalves \in Nat
ASSUME AmountsAssumption == Amounts \subseteq Int
ASSUME RngAssumption == RngStates \in Nat \ {0} /\ SeededShuffle \in BOOLEAN
ASSUME BoundsAssumption == MaxBlocks \in Nat /\ MaxPending \in Nat

VARIABLES
  chain,      \* PILA::chain
  pending,    \* PILA::pending_transactions
  search,     \* the locals of mine_pending_transactions while it runs
  rng,        \* the state of the generator behind random_shuffle
  verdict,    \* what the last is_chain_valid has returned
  submitted,  \* history: every transaction ever entered, in order
  cut         \* history: how many of them each block and its predecessors hold

vars == <<chain, pending, search, rng, verdict, submitted, cut>>
-----------------------------------------------------------------------------
MinInt == - HalfRange
MaxInt == HalfRange - 1

Nonces == MinInt .. MaxInt

System == <<"Sistema">>

Transactions == [sender : Names \cup {System}, receiver : Names,
                 amount : Amounts \cup {RewardHalves \div 2}]

(* add_transaction takes an int: the double is cut off. *)
Reward(miner) == [sender |-> System, receiver |-> miner,
                  amount |-> RewardHalves \div 2]

(* An int as a stream prints it. *)
AmountText(n) == T!ToString(n)

(* The words around the fields of a transaction in the text that is hashed. *)
SenderMark == "{sender: "
ReceiverMark == ", receiver: "
AmountMark == ", amount: "
EndMark == "}, "
Marks == {SenderMark, ReceiverMark, AmountMark, EndMark}

(* The words a transaction puts into the text. *)
TransactionText(t) ==
  t.sender \o <<ReceiverMark>> \o t.receiver \o <<AmountMark, AmountText(t.amount)>>

TransactionsText(txs) ==
  SX!FlattenSeq([i \in DOMAIN txs |->
                   <<SenderMark>> \o TransactionText(txs[i]) \o <<EndMark>>])

(* Mutation of Digest: the timestamp is not part of the text. *)
DigestUntimed(shuffle, timestamp, txs, previous, nonce) ==
  <<shuffle, 0, TransactionsText(txs), previous, nonce>>

(* sha256(chaotic_encryption(text)).  The numbers and the hexadecimal hash  *)
(* around the transactions cannot run into their neighbours.                *)
Digest(shuffle, timestamp, txs, previous, nonce) ==
  <<shuffle, timestamp, TransactionsText(txs), previous, nonce>>

NoHash == <<>>     \* the empty string of the genesis block

(* chaotic_encryption seeds std::rand with a constant: where random_shuffle *)
(* draws from it, every call shuffles a text of a given length alike.       *)
Drawn(state, calls) == IF SeededShuffle THEN state ELSE (state + calls) % RngStates

(* Mutation of LastHash: front() in place of back(). *)
FirstHash(ch) == ch[1].hash

LastHash(ch) == ch[Len(ch)].hash

(* Mutation of NextNonce: the search stops at the greatest int. *)
NextNonceStuck(n) == IF n = MaxInt THEN n ELSE n + 1

(* ++nonce.  Past the greatest int the behaviour is undefined; what builds  *)
(* produce, and what is modelled, is the least int.                         *)
NextNonce(n) == IF n = MaxInt THEN MinInt ELSE n + 1

Idle == [on |-> FALSE, miner |-> System, timestamp |-> 0, nonce |-> 0]
-----------------------------------------------------------------------------
(* The constructor: create_genesis_block. *)
Init == /\ \E t \in Times :
             chain = << [index |-> 0, timestamp |-> t, transactions |-> <<>>,
                         previous_hash |-> NoHash, hash |-> NoHash,
                         miner |-> <<>>, nonce |-> 0] >>
        /\ pending = <<>> /\ search = Idle /\ rng = 0 /\ verdict = "none"
        /\ submitted = <<>> /\ cut = <<0>>

AddTransaction(sender, receiver, amount) ==
  LET t == [sender |-> sender, receiver |-> receiver, amount |-> amount]
  IN /\ ~ search.on
     /\ Len(pending) < MaxPending
     /\ pending' = Append(pending, t)
     /\ submitted' = Append(submitted, t)
     /\ UNCHANGED <<chain, search, rng, verdict, cut>>

(* mine_pending_transactions reads the clock once, before its loop. *)
Mine(miner, t) ==
  /\ ~ search.on
  /\ Len(chain) < MaxBlocks
  /\ search' = [on |-> TRUE, miner |-> miner, timestamp |-> t, nonce |-> 0]
  /\ UNCHANGED <<chain, pending, rng, verdict, submitted, cut>>

(* The block of this turn of the loop. *)
Candidate ==
  LET hash == Digest(rng, search.timestamp, pending, LastHash(chain), search.nonce)
  IN [index |-> Len(chain), timestamp |-> search.timestamp, transactions |-> pending,
      previous_hash |-> LastHash(chain), hash |-> hash, miner |-> search.miner,
      nonce |-> search.nonce]

TryNextNonce ==
  /\ search.on /\ ~ Meets(Candidate.hash)
  /\ search' = [search EXCEPT !.nonce = NextNonce(@)]
  /\ rng' = Drawn(rng, 1)
  /\ UNCHANGED <<chain, pending, verdict, submitted, cut>>

FoundWith(block, left) ==
  /\ search.on /\ Meets(Candidate.hash)
  /\ chain' = Append(chain, block)
  /\ pending' = left
  /\ submitted' = Append(submitted, Reward(search.miner))
  /\ cut' = Append(cut, Len(submitted))
  /\ search' = Idle
  /\ rng' = Drawn(rng, 1)
  /\ UNCHANGED verdict

(* Mutations of Found: the transactions are moved out of the block before it *)
(* is kept; they are not cleared.                                            *)
FoundMoved == FoundWith([Candidate EXCEPT !.transactions = <<>>], <<Reward(search.miner)>>)
FoundKept == FoundWith(Candidate, Append(pending, Reward(search.miner)))

(* The digest meets the target: the block is kept, the transactions it     *)
(* holds are cleared, and only then is the reward entered.                  *)
Found == FoundWith(Candidate, <<Reward(search.miner)>>)

(* One turn of is_chain_valid's loop; it hashes with the previous block's  *)
(* hash and does not look at index, previous_hash and miner.               *)
BlockOk(ch, state, i) ==
  LET hash == Digest(Drawn(state, i - 2), ch[i].timestamp, ch[i].transactions,
                     ch[i - 1].hash, ch[i].nonce)
  IN hash = ch[i].hash /\ Meets(hash)

IsChainValid(ch, state) == \A i \in 2 .. Len(ch) : BlockOk(ch, state, i)

(* The blocks is_chain_valid hashes before it knows its answer. *)
Hashed(ch, state) ==
  Cardinality({i \in 2 .. Len(ch) : IsChainValid(SubSeq(ch, 1, i - 1), state)})

Validate ==
  /\ ~ search.on
  /\ verdict' = IF IsChainValid(chain, rng) THEN "valid" ELSE "invalid"
  /\ rng' = Drawn(rng, Hashed(chain, rng))
  /\ UNCHANGED <<chain, pending, search, submitted, cut>>

Next == \/ \E s, r \in Names, a \in Amounts : AddTransaction(s, r, a)
        \/ \E m \in Names, t \in Times : Mine(m, t)
        \/ TryNextNonce \/ Found
        \/ Validate

Spec == Init /\ [][Next]_vars

(* A call that runs goes on: the loop of the search turns. *)
FairSpec == Spec /\ WF_vars(TryNextNonce \/ Found)
-----------------------------------------------------------------------------
(* The fields of a block; its hashes are typed by ChainLinked. *)
IsBlock(b) ==
  b \in [index : Nat, timestamp : Times, transactions : Seq(Transactions),
         previous_hash : {b.previous_hash}, hash : {b.hash},
         miner : Names \cup {<<>>}, nonce : Nonces]

TypeOK ==
  /\ chain \in Seq({chain[i] : i \in DOMAIN chain}) /\ chain # <<>>
  /\ \A i \in DOMAIN chain : IsBlock(chain[i])
  /\ pending \in Seq(Transactions)
  /\ search \in [on : BOOLEAN, miner : Names \cup {System},
                  timestamp : Times \cup {0}, nonce : Nonces]
  /\ search.on => search.miner \in Names /\ search.timestamp \in Times
  /\ rng \in 0 .. RngStates - 1
  /\ verdict \in {"none", "valid", "invalid"}
  /\ submitted \in Seq(Transactions)
  /\ cut \in Seq(Nat)

(* Each block stands at its index, points to the hash of the one before it,  *)
(* and carries the digest of its own contents, which meets the target: the   *)
(* chain is linked through all its blocks (Pila 2.0.cpp:92-131).             *)
ChainLinked ==
  \A i \in 2 .. Len(chain) :
    /\ chain[i].index = i - 1
    /\ chain[i].previous_hash = chain[i - 1].hash
    /\ \E state \in 0 .. RngStates - 1 :
         chain[i].hash = Digest(state, chain[i].timestamp, chain[i].transactions,
                                chain[i].previous_hash, chain[i].nonce)
    /\ Meets(chain[i].hash)

(* The state of the generator a block was hashed with. *)
ShuffleOf(hash) == hash[1]

(* is_chain_valid agrees with mine_pending_transactions about everything but  *)
(* the shuffle: it accepts a chain this class has built from those states of  *)
(* the generator, and only those, that go through the shuffles its blocks     *)
(* were mined with (Pila 2.0.cpp:69, 108-119, 138-151).                       *)
AcceptedAsMined ==
  \A state \in 0 .. RngStates - 1 :
    IsChainValid(chain, state)
      <=> \A i \in 2 .. Len(chain) : ShuffleOf(chain[i].hash) = Drawn(state, i - 2)

(* A chain that only this class has built is valid.  It is where the shuffle  *)
(* draws from std::rand, and not where AcceptedAsMined allows a refusal       *)
(* (Pila 2.0.cpp:133-155).                                                    *)
OwnChainValid == verdict # "invalid"

(* Where the transactions of block i begin, given the cuts. *)
Before(cuts, i) == IF i = 1 THEN 0 ELSE cuts[i - 1]

(* The list txs is what was submitted after the first "from" transactions. *)
Placed(txs, from, all) == \A k \in 1 .. Len(txs) : txs[k] = all[from + k]

(* Every transaction that was entered is in exactly one block or waits, none *)
(* twice, and in the order it was entered in (Pila 2.0.cpp:83-90, 121-124).  *)
NothingLost ==
  /\ Len(cut) = Len(chain)
  /\ \A i \in 1 .. Len(chain) :
       /\ Before(cut, i) + Len(chain[i].transactions) = cut[i]
       /\ cut[i] <= Len(submitted)
       /\ Placed(chain[i].transactions, Before(cut, i), submitted)
  /\ cut[Len(cut)] + Len(pending) = Len(submitted)
  /\ Placed(pending, cut[Len(cut)], submitted)

(* The transactions that follow block i. *)
After(i) == IF i < Len(chain) THEN chain[i + 1].transactions ELSE pending

(* The reward for a block is the first transaction after it: it goes neither *)
(* into the block it pays for nor away with what that block has taken        *)
(* (Pila 2.0.cpp:121-124).                                                   *)
RewardFollows ==
  \A i \in 2 .. Len(chain) : /\ After(i) # <<>>
                             /\ After(i)[1] = Reward(chain[i].miner)

(* Blocks that differ from b in a field that is_chain_valid hashes or reads,  *)
(* with hashes of the chain ch.                                              *)
Variants(ch, b) ==
  {[b EXCEPT !.timestamp = t] : t \in Times}
    \cup {[b EXCEPT !.nonce = n] : n \in Nonces}
    \cup {[b EXCEPT !.transactions = l] : l \in {<<>>} \cup {<<t>> : t \in Transactions}}
    \cup {[b EXCEPT !.hash = ch[i].hash] : i \in DOMAIN ch}

(* Chains that differ from ch in one block that is_chain_valid hashes, or    *)
(* miss one that is not the last.                                            *)
Exchanged(ch, i) == {[ch EXCEPT ![i] = b] : b \in Variants(ch, ch[i]) \ {ch[i]}}

Altered(ch) == (UNION {Exchanged(ch, i) : i \in 2 .. Len(ch)})
                 \cup {SX!RemoveAt(ch, i) : i \in 2 .. Len(ch) - 1}

(* What the text takes for granted and the code does not see to: no name     *)
(* holds one of the words around the fields.                                 *)
NamesDelimited == \A n \in Names : \A i \in DOMAIN n : n[i] \notin Marks

(* Different ints are printed differently, and as none of these words.       *)
AmountsPrinted ==
  \A t, u \in Transactions :
    /\ AmountText(t.amount) \in STRING \ Marks
    /\ AmountText(t.amount) = AmountText(u.amount) => t.amount = u.amount

(* is_chain_valid notices when the time, the nonce, the transactions or the  *)
(* hash of a mined block change or an inner block goes, whatever the state   *)
(* of the generator when it looks (README.md:3, the hash is there for "a     *)
(* integridade dos dados", one for each transaction).                        *)
AlterationNoticed ==
  \A ch \in Altered(chain), state \in 0 .. RngStates - 1 : ~ IsChainValid(ch, state)

(* The search ends if some nonce of an int's range meets the target however  *)
(* the text is shuffled (Pila 2.0.cpp:97, 129).                              *)
MiningEnds ==
  (/\ search.on
   /\ \E n \in Nonces : \A state \in 0 .. RngStates - 1 :
        Meets(Digest(state, search.timestamp, pending, LastHash(chain), n)))
    ~> ~ search.on
=============================================================================
