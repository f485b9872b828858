------------------------------- MODULE Merkle -------------------------------
(***************************************************************************)
(* findHash and getMerkleRoot (common.hpp) over the hash of hash.hpp: the  *)
(* root of a list of transactions is built level by level, then a nonce is *)
(* looked for that gives the block a hash with the target in front.        *)
(*                                                                         *)
(* The hash is taken to be injective: a hash stands for what it was made   *)
(* of, and a node of the tree is the sequence of the leaves below it.  The *)
(* shuffle of hash.hpp is left out: where srand seeds it, inputs of one    *)
(* length undergo one permutation; where random_shuffle draws from         *)
(* elsewhere, a hash has its shuffle in it as well, and "meets" is the set *)
(* of the nonces that meet the target with the shuffle they are tried with.*)
(***************************************************************************)
EXTENDS Naturals, Sequences

SX == INSTANCE SequencesExt

CONSTANTS
  Leaves,        \* the transactions
  MaxLeaves,     \* bound on the length of the list
  Limit          \* nonces that are tried (100000)

ASSUME MaxLeavesAssumption == MaxLeaves \in Nat
ASSUME LimitAssumption == Limit \in Nat

VARIABLES
  merkle,        \* the list of transactions
  meets,         \* the nonces whose hash has the target "00" in front
  level,         \* new_merkle
  nonce,         \* the loop variable of findHash
  pc             \* where the two functions are, what they returned

vars == <<merkle, meets, level, nonce, pc>>

Nonces == 0 .. Limit - 1

(* The string sha256 is given first, for the one leaf and for each of two. *)
Node(leaf) == <<leaf>>

(* sha256(sha256(a) + sha256(b)): both halves have one width. *)
Combine(a, b) == a \o b

Init == /\ merkle \in SX!BoundedSeq(Leaves, MaxLeaves)
        /\ meets \in SUBSET Nonces
        /\ level = [i \in DOMAIN merkle |-> Node(merkle[i])]
        /\ nonce = 0
        /\ pc = "root"

(* Mutation of Padded: a level is not padded, its last node has no pair. *)
PaddedNot(nodes) == SubSeq(nodes, 1, Len(nodes) - (Len(nodes) % 2))

(* A level with an odd number of nodes gets the last leaf of the list, on  *)
(* every level: not the last node of the level.                            *)
Padded(nodes) ==
  IF Len(nodes) % 2 = 1 THEN Append(nodes, Node(SX!Last(merkle))) ELSE nodes

(* One turn of the while loop. *)
Level ==
  /\ pc = "root" /\ Len(level) > 1
  /\ LET nodes == Padded(level)
     IN level' = [i \in 1 .. Len(nodes) \div 2 |-> Combine(nodes[2 * i - 1], nodes[2 * i])]
  /\ UNCHANGED <<merkle, meets, nonce, pc>>

(* The root is "", the hash of the one leaf, or the one node that is left. *)
Root ==
  /\ pc = "root" /\ Len(level) <= 1
  /\ pc' = "search"
  /\ UNCHANGED <<merkle, meets, level, nonce>>

Found == /\ pc = "search" /\ nonce < Limit /\ nonce \in meets
         /\ pc' = "found"
         /\ UNCHANGED <<merkle, meets, level, nonce>>

Missed == /\ pc = "search" /\ nonce < Limit /\ nonce \notin meets
          /\ nonce' = nonce + 1
          /\ UNCHANGED <<merkle, meets, level, pc>>

Exhausted == /\ pc = "search" /\ nonce >= Limit
             /\ pc' = "fail"
             /\ UNCHANGED <<merkle, meets, level, nonce>>

Next == Level \/ Root \/ Found \/ Missed \/ Exhausted

Spec == Init /\ [][Next]_vars
FairSpec == Spec /\ WF_vars(Next)
-----------------------------------------------------------------------------
TypeOK == /\ merkle \in Seq(Leaves)
          /\ meets \subseteq Nonces
          /\ level \in Seq(Seq(Leaves))
          /\ nonce \in 0 .. Limit
          /\ pc \in {"root", "search", "found", "fail"}

(* Every level, and so the root, stands for the whole list in its order: the *)
(* leaves below it are the list and copies of its last leaf.  Two lists of   *)
(* one length that differ anywhere have different roots, however the padding *)
(* of the levels falls (common.hpp:32-47).                                   *)
RootHoldsTheList ==
  LET below == SX!FlattenSeq(level)
  IN /\ SX!IsPrefix(merkle, below)
     /\ \A i \in Len(merkle) + 1 .. Len(below) : below[i] = SX!Last(merkle)

(* The nonce returned is the first that meets the target, and "fail" says    *)
(* that none below the limit does (common.hpp:53-62).                        *)
FirstNonce ==
  /\ pc = "found" => nonce \in meets /\ \A n \in meets : nonce <= n
  /\ pc = "fail" => meets = {}

=============================================================================
