--------------------------- MODULE MCSignTogether ---------------------------
(* Instances of SignTogether for TLC. *)
EXTENDS SignTogether, TLC

CONSTANTS t1, t2

TxSymmetry == Permutations(Txs)
=============================================================================
