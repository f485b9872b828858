------------------------------ MODULE ChainSync ------------------------------
(***************************************************************************)
(* The client requests of a node (requests.hpp): getChainFromNodes and     *)
(* addSelfToNetwork when a node initializes, sendNewChain when it has a    *)
(* new chain.  Each goes through a list of nodes, one synchronous request  *)
(* after the other; a request that fails is reported and never repeated.   *)
(*                                                                         *)
(* The program that calls the three and the handlers of /latestchain,      *)
(* /addnode and /newchain are not part of the repository.  Of those this    *)
(* module says no more than the calls need: /latestchain answers with the  *)
(* chain of its node, /addnode puts the port at the end of the node's list,*)
(* and /newchain may take the chain it is given or leave it.               *)
(*                                                                         *)
(* A block is the node that found it and a chain the sequence of its blocks*)
(* after the first, which all chains share: chains of one length differ    *)
(* when different nodes found their blocks.                                *)
(***************************************************************************)
EXTENDS Naturals, Sequences, FiniteSets

SX == INSTANCE SequencesExt

CONSTANTS
  Members,       \* nodes that know each other from the start
  Joiners,       \* nodes that initialize while the others run
  MayFail,       \* requests may fail and nodes may go down
  MayGarble,     \* an answer may be no JSON object with a length
  MaxBlocks      \* bound on the blocks of a chain after the first

Nodes == Members \cup Joiners

ASSUME NodesAssumption == IsFiniteSet(Nodes) /\ Members \cap Joiners = {}
ASSUME FlagsAssumption == {MayFail, MayGarble} \subseteq BOOLEAN
ASSUME BlocksAssumption == MaxBlocks \in Nat

VARIABLES
  up,            \* nodes that answer requests
  chain,         \* each node's chain
  list,          \* the list of nodes each node has
  call,          \* the request function a node is in
  sent,          \* history: the posts to /newchain the loop of sendNewChain
                 \* that a node is in has had an answer to
  smooth         \* history: no request has failed, no answer was garbled and
                 \* no node has gone down

vars == <<up, chain, list, call, sent, smooth>>

Return == [op |-> "none", next |-> 1, body |-> <<>>, vect |-> <<>>]
Enter(op, body) == [op |-> op, next |-> 1, body |-> body, vect |-> <<>>]

Target(n) == list[n][call[n].next]

(* The loop condition reads the size of the list again on every turn. *)
More(n) == call[n].next <= Len(list[n])
Advance(n) == [call EXCEPT ![n].next = @ + 1]

Init == /\ up = Nodes /\ smooth = TRUE
        /\ chain = [n \in Nodes |-> <<>>] /\ sent = [n \in Nodes |-> <<>>]
        /\ list = [n \in Nodes |-> IF n \in Members
                                   THEN SX!SetToSeq(Members \ {n})
                                   ELSE SX!SetToSeq(Members)]
        /\ call = [n \in Nodes |-> IF n \in Members THEN Return ELSE Enter("get", <<>>)]
-----------------------------------------------------------------------------
(* getChainFromNodes *)

(* What a node may answer to GET /latestchain: its chain, or something that *)
(* is no JSON object with a length.                                         *)
Answer(n) ==
  {[node |-> n, reads |-> TRUE, chain |-> chain[n]]}
    \cup (IF MayGarble THEN {[node |-> n, reads |-> FALSE, chain |-> <<>>]} ELSE {})

Get(n) ==
  /\ call[n].op = "get" /\ More(n)
  /\ Target(n) \in up
  /\ \E answer \in Answer(Target(n)) :
       /\ call' = [call EXCEPT ![n].next = @ + 1, ![n].vect = Append(@, answer)]
       /\ smooth' = (smooth /\ answer.reads)
  /\ UNCHANGED <<up, chain, list, sent>>

(* A request of any of the three ends with a system_error, which is caught. *)
Fails(n) ==
  /\ call[n].op \in {"get", "add", "send"} /\ More(n)
  /\ Target(n) \notin up \/ MayFail
  /\ call' = Advance(n)
  /\ smooth' = FALSE
  /\ UNCHANGED <<up, chain, list, sent>>

(* The first of the longest answers. *)
Biggest(vect) ==
  CHOOSE i \in DOMAIN vect :
    /\ \A j \in DOMAIN vect : Len(vect[j].chain) <= Len(vect[i].chain)
    /\ \A j \in 1 .. i - 1 : Len(vect[j].chain) < Len(vect[i].chain)

(* Every answer is parsed and has its length read; the exception of one that *)
(* cannot be is not caught.  Without an answer vect[0] is read all the same, *)
(* which is undefined: the program ends.  The chain that is returned becomes *)
(* the node's, which goes on to add itself to the network.                   *)
Choose(n) ==
  /\ call[n].op = "get" /\ ~ More(n)
  /\ LET vect == call[n].vect
         biggest == vect[Biggest(vect)].chain
     IN IF vect = <<>> \/ \E i \in DOMAIN vect : ~ vect[i].reads
        THEN /\ call' = [call EXCEPT ![n] = [Return EXCEPT !.op = "dead"]]
             /\ UNCHANGED chain
        ELSE /\ call' = [call EXCEPT ![n] = [Enter("add", biggest) EXCEPT !.vect = vect]]
             /\ chain' = [chain EXCEPT ![n] = biggest]
  /\ UNCHANGED <<up, list, sent, smooth>>
-----------------------------------------------------------------------------
(* What POST /addnode does at a node (external): the node keeps track of the *)
(* port it is given (requests.hpp:80).                                       *)
AddNode(at, port) == list' = [list EXCEPT ![at] = Append(@, port)]

(* Mutation of Add: the parameter "port" is the one that is sent. *)
AddTarget(n) ==
  /\ call[n].op = "add" /\ More(n) /\ Target(n) \in up
  /\ AddNode(Target(n), Target(n))
  /\ call' = Advance(n)
  /\ UNCHANGED <<up, chain, sent, smooth>>

(* addSelfToNetwork sends its own port, which the loop hides behind another *)
(* variable of that name only after it has been put into the message.       *)
Add(n) ==
  /\ call[n].op = "add" /\ More(n) /\ Target(n) \in up
  /\ AddNode(Target(n), n)
  /\ call' = Advance(n)
  /\ UNCHANGED <<up, chain, sent, smooth>>

(* A node that is ready has found a block (external): it sends its chain,   *)
(* which has been put into the string before.                               *)
NewChain(n) ==
  /\ n \in up /\ call[n].op = "none" /\ Len(chain[n]) < MaxBlocks
  /\ chain' = [chain EXCEPT ![n] = Append(@, n)]
  /\ call' = [call EXCEPT ![n] = Enter("send", Append(chain[n], n))]
  /\ UNCHANGED <<up, list, sent, smooth>>

(* What POST /newchain does at a node (external): it takes the chain or not. *)
PostedChain(at, posted) == \E kept \in {chain[at], posted} : chain' = [chain EXCEPT ![at] = kept]

(* Mutation of Send: the index is advanced in the body of the loop, too. *)
SendSkips(n) ==
  /\ call[n].op = "send" /\ More(n) /\ Target(n) \in up
  /\ PostedChain(Target(n), call[n].body)
  /\ sent' = [sent EXCEPT ![n] = Append(@, [node |-> Target(n), chain |-> call[n].body])]
  /\ call' = [call EXCEPT ![n].next = @ + 2]
  /\ UNCHANGED <<up, list, smooth>>

(* sendNewChain posts the string it was called with. *)
Send(n) ==
  /\ call[n].op = "send" /\ More(n) /\ Target(n) \in up
  /\ PostedChain(Target(n), call[n].body)
  /\ sent' = [sent EXCEPT ![n] = Append(@, [node |-> Target(n), chain |-> call[n].body])]
  /\ call' = Advance(n)
  /\ UNCHANGED <<up, list, smooth>>

Done(n) ==
  /\ call[n].op \in {"add", "send"} /\ ~ More(n)
  /\ call' = [call EXCEPT ![n] = Return]
  /\ sent' = [sent EXCEPT ![n] = <<>>]
  /\ UNCHANGED <<up, chain, list, smooth>>

Down(n) == /\ MayFail /\ n \in up \cap Members /\ call[n].op = "none"
           /\ up' = up \ {n}
           /\ smooth' = FALSE
           /\ UNCHANGED <<chain, list, call, sent>>

Next == \E n \in Nodes : \/ Get(n) \/ Fails(n) \/ Choose(n) \/ Add(n)
                         \/ NewChain(n) \/ Send(n) \/ Done(n) \/ Down(n)

Spec == Init /\ [][Next]_vars
-----------------------------------------------------------------------------
Ops == {"none", "get", "add", "send", "dead"}

Chains == {blocks \in Seq(Nodes) : Len(blocks) <= MaxBlocks}
Answers == [node : Nodes, reads : BOOLEAN, chain : Chains]
Posts == [node : Nodes, chain : Chains]

(* The values the variables take.  No list has a node twice, or the node whose*)
(* list it is: each node that joins goes once through a list without repeats.*)
TypeOK == /\ up \subseteq Nodes /\ smooth \in BOOLEAN
          /\ chain \in [Nodes -> Chains]
          /\ \A n \in Nodes :
               /\ list[n] \in Seq(Nodes \ {n}) /\ SX!IsInjective(list[n])
               /\ call[n].op \in Ops /\ call[n].body \in Chains
               /\ call[n].next \in 1 .. Len(list[n]) + 1
               /\ call[n].vect \in Seq(Answers) /\ Len(call[n].vect) <= Len(list[n])
               /\ sent[n] \in Seq(Posts)

(* A node that joins starts with the chain of an answer, and no answer it has*)
(* had has a longer one (requests.hpp:26, "gets the latest chain from the    *)
(* network and finds the longest one").                                      *)
JoinedAtLongest ==
  \A n \in Nodes : call[n].op = "add" =>
    /\ \E i \in DOMAIN call[n].vect : call[n].vect[i].chain = call[n].body
    /\ \A i \in DOMAIN call[n].vect : Len(call[n].vect[i].chain) <= Len(call[n].body)

(* While a chain is sent out every node the loop has passed has been posted  *)
(* that chain, once: the nodes that came into the list during the loop, too, *)
(* and whatever chain the node itself has taken over meanwhile, as long as   *)
(* no request fails (requests.hpp:61, "sends out the new blockchain to       *)
(* network").                                                                *)
SentSoFar ==
  smooth => \A n \in Nodes : call[n].op = "send" =>
    \A i \in DOMAIN list[n] : i < call[n].next =>
      LET posts == {k \in DOMAIN sent[n] : sent[n][k].node = list[n][i]}
      IN \E k \in posts : posts = {k} /\ sent[n][k].chain = call[n].body

(* A node that has been through addSelfToNetwork is in the list of every node *)
(* it was given, as long as no request fails (requests.hpp:80, "used so nodes *)
(* could keep track of nodes in the network").                               *)
JoinerIsKnown ==
  smooth => \A j \in Joiners : call[j].op \in {"none", "send"} =>
    \A m \in Members : SX!Contains(list[m], j)

(* The call for the chain comes back with one (requests.hpp:28, "Returns:    *)
(* JSON object of the blockchain").                                          *)
GetReturns == \A n \in Nodes : call[n].op # "dead"
=============================================================================
