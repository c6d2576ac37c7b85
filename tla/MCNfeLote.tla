----------------------------- MODULE MCNfeLote -----------------------------
(***************************************************************************)
(* Small instance of NfeLote.  Files 1 and 2 are two versions of note k1,   *)
(* the second with one item less; file 3 is note k2 of the same month.      *)
(***************************************************************************)
EXTENDS NfeLote, TLC

MCArquivos == 1..3
MCChave == (1 :> "k1") @@ (2 :> "k1") @@ (3 :> "k2")
MCItens == (1 :> {1, 2}) @@ (2 :> {1}) @@ (3 :> {1})
MCMes   == ("k1" :> "jan") @@ ("k2" :> "jan")
=============================================================================
