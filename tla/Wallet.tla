------------------------------- MODULE Wallet -------------------------------
(***************************************************************************)
(* The class PILAWallet (Wallet.cpp): a key pair, the file wallet.txt that *)
(* is to keep it from one run of the program to the next, and the codes    *)
(* the program writes for signed transactions.                             *)
(*                                                                         *)
(* Several runs may be under way at a time, in one directory, and each may *)
(* end at any point.  The constructor's save is three steps as the disk    *)
(* sees them: opening truncates the file, and each std::endl flushes one   *)
(* of the two keys at the offset this run has reached.  All public keys    *)
(* have one length in PEM, so the file is two places, one for each key.    *)
(***************************************************************************)
EXTENDS Naturals, Sequences

CONSTANTS
  Runs,          \* runs of the program that may be under way together
  Payments,      \* the (sender, receiver, amount) of a transaction
  PemLines,      \* lines of a key in PEM after the first one
  MayFail,       \* wallet.txt may not open, or its disk be full
  MaxKeys        \* bound on the key pairs that are generated

ASSUME PemAssumption == PemLines \in Nat \ {0}
ASSUME KeysAssumption == MaxKeys \in Nat

VARIABLES
  exists,        \* there is a wallet.txt
  public,        \* the key whose public half stands in it, if one does
  private,       \* the key whose private half stands in it, if one does
  keyPair,       \* PILAWallet::keyPair of each run
  pc,            \* where each run is
  made,          \* key pairs generated so far
  codes,         \* the image files: the key the code of each payment is signed with
  sound          \* history: no two runs so far were under way together, and
                 \* wallet.txt could always be opened and written

diskVars == <<exists, public, private>>
vars == <<diskVars, keyPair, pc, made, codes, sound>>

Null == 0                  \* keyPair is a null pointer, a place is empty
Blank == MaxKeys + 1       \* RSA_new without a key in it
Keys == 1 .. MaxKeys
-----------------------------------------------------------------------------
(* A line of the file: the label it holds, if any. *)
KeyLines(label, key) ==
  IF key = Null THEN <<>> ELSE <<label>> \o [i \in 1 .. PemLines |-> "pem"]

(* A public key that has not been written leaves a hole without line ends.  *)
Lines == KeyLines("Public Key: ", public) \o KeyLines("Private Key: ", private)

(* std::getline leaves the string empty at the end of the file. *)
Line(i) == IF i \in DOMAIN Lines THEN Lines[i] ELSE ""

(* Mutation of LoadedKey: the second line is not looked at. *)
LoadedKeyUnchecked ==
  IF exists /\ Line(1) = "Public Key: " THEN Blank ELSE Null

(* load_wallet: the two labels on two lines that follow each other.  What a *)
(* line holds after its label is one line of PEM, which OpenSSL cannot read *)
(* as a key: the RSA_new stays blank.                                       *)
LoadedKey ==
  IF /\ exists
     /\ Line(1) = "Public Key: "
     /\ Line(2) = "Private Key: "
  THEN Blank ELSE Null

Init == /\ exists = FALSE /\ public = Null /\ private = Null
        /\ keyPair = [r \in Runs |-> Null]
        /\ pc = [r \in Runs |-> "off"]
        /\ made = 0
        /\ sound = TRUE
        /\ codes = [p \in Payments |-> Null]

(* The constructor: load_wallet, and without a key generate_key_pair. *)
Start(r) ==
  /\ pc[r] = "off"
  /\ IF LoadedKey # Null
     THEN /\ keyPair' = [keyPair EXCEPT ![r] = LoadedKey]
          /\ pc' = [pc EXCEPT ![r] = "ready"]
          /\ UNCHANGED made
     ELSE /\ made < MaxKeys
          /\ made' = made + 1
          /\ keyPair' = [keyPair EXCEPT ![r] = made + 1]
          /\ pc' = [pc EXCEPT ![r] = "generated"]
  /\ sound' = (sound /\ \A q \in Runs : pc[q] = "off")
  /\ UNCHANGED <<diskVars, codes>>

(* save_wallet: std::ofstream truncates the file ... *)
Open(r) == /\ pc[r] = "generated"
           /\ pc' = [pc EXCEPT ![r] = "opened"]
           /\ exists' = TRUE /\ public' = Null /\ private' = Null
           /\ UNCHANGED <<keyPair, made, codes, sound>>

(* It cannot be opened: the key is used all the same. *)
OpenFails(r) == /\ MayFail /\ pc[r] = "generated"
                /\ pc' = [pc EXCEPT ![r] = "ready"]
                /\ sound' = FALSE
                /\ UNCHANGED <<diskVars, keyPair, made, codes>>

(* ... the first std::endl brings the public key to the disk ... *)
WritePublic(r) == /\ pc[r] = "opened"
                  /\ pc' = [pc EXCEPT ![r] = "half"]
                  /\ public' = keyPair[r]
                  /\ UNCHANGED <<exists, private, keyPair, made, codes, sound>>

(* Mutation of WritePrivate: the file is closed without the second key. *)
WritePrivateNot(r) == /\ pc[r] = "half"
                      /\ pc' = [pc EXCEPT ![r] = "ready"]
                      /\ UNCHANGED <<diskVars, keyPair, made, codes, sound>>

(* ... and the second one the private key. *)
WritePrivate(r) == /\ pc[r] = "half"
                   /\ pc' = [pc EXCEPT ![r] = "ready"]
                   /\ private' = keyPair[r]
                   /\ UNCHANGED <<exists, public, keyPair, made, codes, sound>>

(* The disk is full at one of the two: the stream fails and writes no more,  *)
(* nobody asks it, and the run goes on.  A key that gets there in part       *)
(* counts as one that is not written.                                        *)
WriteFails(r) == /\ MayFail /\ pc[r] \in {"opened", "half"}
                 /\ pc' = [pc EXCEPT ![r] = "ready"]
                 /\ sound' = FALSE
                 /\ UNCHANGED <<diskVars, keyPair, made, codes>>

(* generate_transaction_qrcode: the file is named for the payment.  What of *)
(* the signature gets into the code, up to a NUL byte, is left out.         *)
Code(r, p) == /\ pc[r] = "ready" /\ keyPair[r] \in Keys
              /\ codes' = [codes EXCEPT ![p] = keyPair[r]]
              /\ UNCHANGED <<diskVars, keyPair, pc, made, sound>>

(* A run ends: by its destructor or anywhere before. *)
End(r) == /\ pc[r] # "off"
          /\ pc' = [pc EXCEPT ![r] = "off"]
          /\ keyPair' = [keyPair EXCEPT ![r] = Null]
          /\ UNCHANGED <<diskVars, made, codes, sound>>

Next == \E r \in Runs : \/ Start(r) \/ Open(r) \/ OpenFails(r)
                        \/ WritePublic(r) \/ WritePrivate(r) \/ WriteFails(r) \/ End(r)
                        \/ \E p \in Payments : Code(r, p)

Spec == Init /\ [][Next]_vars
-----------------------------------------------------------------------------
TypeOK == /\ exists \in BOOLEAN
          /\ public \in Keys \cup {Null} /\ private \in Keys \cup {Null}
          /\ keyPair \in [Runs -> Keys \cup {Null, Blank}]
          /\ pc \in [Runs -> {"off", "generated", "opened", "half", "ready"}]
          /\ made \in 0 .. MaxKeys /\ sound \in BOOLEAN
          /\ codes \in [Payments -> Keys \cup {Null}]

(* No run works with a blank key, whatever file an earlier run that ended in *)
(* the middle of its save, or another one that saves now, has left behind:  *)
(* RSA_sign with a blank key leaves sigLen unset (Wallet.cpp:82-103, 112-116).*)
NoBlankKey == \A r \in Runs : pc[r] = "ready" => keyPair[r] \in Keys

(* A run has its whole key pair on the disk before it signs, whatever the   *)
(* runs before it have left there at whatever point they ended, as long as  *)
(* runs follow one another and the file can be opened and written           *)
(* (Wallet.cpp:55-63, 71-80).                                               *)
KeyOnDisk ==
  sound => \A r \in Runs : pc[r] = "ready" => public = keyPair[r] /\ private = keyPair[r]

(* The signature in a code is one that the wallet at hand made or can check: *)
(* it proves who owns the coins after the program is started again           *)
(* (README.md:7, "serve como um comprovante de propriedade").                *)
CodesKeepTheirOwner ==
  \A r \in Runs, p \in Payments :
    pc[r] = "ready" /\ codes[p] # Null => codes[p] = keyPair[r]
=============================================================================
