---------------------------- MODULE WalletProofs ----------------------------
(***************************************************************************)
(* Theorems about module Wallet, for any set of runs and payments, keys of *)
(* any length in PEM and any number of keys.                               *)
(***************************************************************************)
EXTENDS Wallet, SequenceTheorems, TLAPS

(***************************************************************************)
(* The file.                                                               *)
(***************************************************************************)

Words == {"Public Key: ", "Private Key: ", "pem"}

(* A text whose lines are all alike. *)
LEMMA PlainText ==
  ASSUME NEW n \in Nat \ {0}, NEW S, NEW line \in S
  PROVE  /\ [i \in 1 .. n |-> line] \in Seq(S)
         /\ [i \in 1 .. n |-> line] # <<>>
         /\ [i \in 1 .. n |-> line][1] = line
<1>1. [i \in 1 .. n |-> line] \in [1 .. n -> S]
  OBVIOUS
<1>2. [i \in 1 .. n |-> line] \in Seq(S)
  BY <1>1, SeqDef
<1>3. [i \in 1 .. n |-> line][1] = line
  OBVIOUS
<1> QED BY <1>2, <1>3

(* load_wallet never finds a key: what follows the line "Public Key: " is the *)
(* second line of a PEM text, whatever earlier and concurrent runs have left  *)
(* in the file (Wallet.cpp:87-91).                                            *)
LEMMA NothingIsLoaded == LoadedKey = Null
<1> DEFINE pem == [i \in 1 .. PemLines |-> "pem"]
           publicLabel == "Public Key: "
           privateLabel == "Private Key: "
           rest == KeyLines(privateLabel, private)
<1>1. publicLabel \in Words /\ privateLabel \in Words /\ "pem" \in Words
  BY DEF Words
<1>2. pem \in Seq(Words) /\ pem # <<>> /\ pem[1] = "pem"
  BY <1>1, PlainText, PemAssumption
<1>3. Lines = KeyLines(publicLabel, public) \o rest
  BY DEF Lines
<1>4. ASSUME NEW label, NEW key
      PROVE  KeyLines(label, key) = IF key = Null THEN <<>> ELSE <<label>> \o pem
  BY DEF KeyLines
<1> HIDE DEF pem, publicLabel, privateLabel
<1>5. /\ rest \in Seq(Words)
      /\ rest # <<>> => Len(rest) >= 1 /\ rest[1] = privateLabel
  <2>1. CASE private = Null
    <3>1. rest = <<>>
      BY <2>1, <1>4
    <3> QED BY <3>1
  <2>2. CASE private # Null
    <3>1. rest = <<privateLabel>> \o pem
      BY <2>2, <1>4
    <3> HIDE DEF rest
    <3> QED BY <3>1, <1>1, <1>2
  <2> QED BY <2>1, <2>2
<1>6. ASSUME public = Null
      PROVE  Line(1) # "Public Key: "
  <2>1. Lines = <<>> \o rest
    BY <1>6, <1>3, <1>4
  <2> HIDE DEF rest
  <2>2. Lines = rest
    BY <2>1, <1>5, ConcatEmptySeq
  <2>3. CASE rest = <<>>
    BY <2>2, <2>3 DEF Line
  <2>4. CASE rest # <<>>
    BY <2>2, <2>4, <1>5 DEF Line, privateLabel
  <2> QED BY <2>3, <2>4
<1>7. ASSUME public # Null
      PROVE  Line(2) # "Private Key: "
  <2>1. Lines = (<<publicLabel>> \o pem) \o rest
    BY <1>7, <1>3, <1>4
  <2> HIDE DEF rest
  <2>2. Lines \in Seq(Words) /\ Len(Lines) >= 2 /\ Lines[2] = "pem"
    BY <2>1, <1>1, <1>2, <1>5
  <2> QED BY <2>2 DEF Line
<1> QED BY <1>6, <1>7 DEF LoadedKey

(***************************************************************************)
(* The key at hand and the key on the disk.                                *)
(***************************************************************************)

(* From its construction to its end a run has a key it has generated: the    *)
(* branch of the constructor that takes a loaded one is never taken.         *)
HasKey == \A r \in Runs : pc[r] # "off" => keyPair[r] \in Keys

(* Runs that follow one another, and what of its key each has saved so far. *)
OneRun == \A r, q \in Runs : pc[r] # "off" /\ pc[q] # "off" => r = q
Saved ==
  \A r \in Runs : /\ pc[r] = "half" => public = keyPair[r]
                  /\ pc[r] = "ready" => public = keyPair[r] /\ private = keyPair[r]
IInv == TypeOK /\ HasKey /\ (sound => OneRun /\ Saved)

(* Nobody has a key at the start. *)
LEMMA InitInvariant == Init => IInv
<1> SUFFICES ASSUME Init PROVE IInv
  OBVIOUS
<1>1. TypeOK
  <2>1. exists \in BOOLEAN /\ sound \in BOOLEAN
    BY DEF Init
  <2>2. keyPair \in [Runs -> Keys \cup {Null, Blank}]
    BY DEF Init
  <2>3. codes \in [Payments -> Keys \cup {Null}]
    BY DEF Init
  <2>4. /\ public \in Keys \cup {Null} /\ private \in Keys \cup {Null}
        /\ pc \in [Runs -> {"off", "generated", "opened", "half", "ready"}]
    BY DEF Init
  <2>5. made \in 0 .. MaxKeys
    BY KeysAssumption DEF Init
  <2> QED BY <2>1, <2>2, <2>3, <2>4, <2>5 DEF TypeOK
<1>2. HasKey /\ OneRun /\ Saved
  BY DEF Init, HasKey, OneRun, Saved
<1> QED BY <1>1, <1>2 DEF IInv

(* A run that starts generates a key, for it finds none, and it is the only  *)
(* one that works with it.                                                   *)
LEMMA NextInvariant == IInv /\ [Next]_vars => IInv'
<1> SUFFICES ASSUME IInv, [Next]_vars PROVE IInv'
  OBVIOUS
<1> USE DEF IInv, TypeOK, HasKey, OneRun, Saved, diskVars
<1>1. ASSUME NEW r \in Runs, Start(r) PROVE IInv'
  <2>1. /\ made' = made + 1 /\ made < MaxKeys
        /\ keyPair' = [keyPair EXCEPT ![r] = made + 1]
        /\ pc[r] = "off" /\ pc' = [pc EXCEPT ![r] = "generated"]
        /\ sound' = (sound /\ \A q \in Runs : pc[q] = "off")
        /\ UNCHANGED <<exists, public, private, codes>>
    BY <1>1, NothingIsLoaded DEF Start
  <2>2. made + 1 \in Keys
    BY <2>1, KeysAssumption DEF Keys
  <2>3. TypeOK' /\ HasKey'
    BY <2>1, <2>2, KeysAssumption
  <2>4. sound' => (OneRun /\ Saved)'
    BY <2>1
  <2> QED BY <2>3, <2>4
<1>2. ASSUME NEW r \in Runs, Open(r) PROVE IInv'
  BY <1>2 DEF Open
<1>3. ASSUME NEW r \in Runs, OpenFails(r) PROVE IInv'
  BY <1>3 DEF OpenFails
<1>4. ASSUME NEW r \in Runs, WritePublic(r) PROVE IInv'
  BY <1>4 DEF WritePublic
<1>5. ASSUME NEW r \in Runs, WritePrivate(r) PROVE IInv'
  BY <1>5 DEF WritePrivate
<1>6. ASSUME NEW r \in Runs, NEW p \in Payments, Code(r, p) PROVE IInv'
  BY <1>6 DEF Code
<1>7. ASSUME NEW r \in Runs, End(r) PROVE IInv'
  BY <1>7 DEF End
<1>8. ASSUME NEW r \in Runs, WriteFails(r) PROVE IInv'
  BY <1>8 DEF WriteFails
<1>9. CASE UNCHANGED vars
  BY <1>9 DEF vars
<1> QED
  BY <1>1, <1>2, <1>3, <1>4, <1>5, <1>6, <1>7, <1>8, <1>9 DEF Next

(* The invariant holds in every reachable state. *)
LEMMA InvariantHolds == Spec => []IInv
<1> QED BY InitInvariant, NextInvariant, PTL DEF Spec

-----------------------------------------------------------------------------
(* The keys, the file and the codes stay in their types, a key that was not  *)
(* written in its place among them.                                          *)
THEOREM TypeCorrect == Spec => []TypeOK
<1>1. IInv => TypeOK
  BY DEF IInv
<1> QED BY <1>1, InvariantHolds, PTL

(* No run works with a blank key: load_wallet gives none, for whatever an     *)
(* earlier or a concurrent run has left in the file (Wallet.cpp:55-63, 82).   *)
THEOREM KeysAreReal == Spec => []NoBlankKey
<1>1. IInv => NoBlankKey
  BY DEF IInv, HasKey, NoBlankKey
<1> QED BY <1>1, InvariantHolds, PTL

(* Runs that follow one another, and whose file opens on a disk with room,   *)
(* have their key there before they sign, wherever the earlier ones ended    *)
(* (Wallet.cpp:71-80).                                                       *)
THEOREM KeyIsSaved == Spec => []KeyOnDisk
<1>1. IInv => KeyOnDisk
  BY DEF IInv, Saved, KeyOnDisk
<1> QED BY <1>1, InvariantHolds, PTL
=============================================================================
