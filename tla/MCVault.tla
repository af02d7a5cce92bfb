------------------------------- MODULE MCVault -------------------------------
(* Vault with two jobs and two payments in.                                *)
EXTENDS Vault

CONSTANTS j1, j2, p1, p2
=============================================================================
