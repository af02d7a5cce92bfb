------------------------------ MODULE MCWebApp ------------------------------
(* WebApp with two wallets and two mints of different decimals.            *)
EXTENDS WebApp

CONSTANTS w1, w2, m1, m2

SixAndNine == [m \in Mints |-> IF m = m1 THEN 6 ELSE 9]
=============================================================================
