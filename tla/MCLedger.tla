------------------------------ MODULE MCLedger ------------------------------
(* Instances of Ledger for TLC. *)
EXTENDS Ledger

MCNames == {<<"ana">>, <<"rui">>}

(* One digest in three meets the target however it is shuffled, another one  *)
(* after one shuffle in three; with time 3 none does.                        *)
MCMeets(digest) ==
  LET k == (digest[2] + digest[5] + Len(digest[3])) % 3
  IN digest[2] # 3 /\ (k = 0 \/ (k = 1 /\ digest[1] = 2))

ASSUME MCNamesAssumption == NamesDelimited /\ AmountsPrinted
=============================================================================
