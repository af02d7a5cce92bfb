------------------------------ MODULE MCLedger ------------------------------
(* ConfidentialLedger on small instances.                                  *)
EXTENDS ConfidentialLedger, TLC

CONSTANTS alice, bob

AllConfigured == [a \in Accounts |-> "configured"]
FromNothing   == [a \in Accounts |-> IF a = alice THEN "plain" ELSE "missing"]
AlicePublic3  == [a \in Accounts |-> IF a = alice THEN 3 ELSE 0]
BobPublic6    == [a \in Accounts |-> IF a = bob THEN 6 ELSE 0]
BothHold      == [a \in Accounts |-> IF a = alice THEN 6 ELSE 3]
BobHolds6     == [a \in Accounts |-> IF a = bob THEN 6 ELSE 0]
BobUsesRust   == [a \in Accounts |-> IF a = bob THEN "rust" ELSE "typescript"]
Nothing       == [a \in Accounts |-> 0]

CallSymmetry == Permutations(Calls)
=============================================================================
