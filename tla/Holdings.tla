------------------------------ MODULE Holdings ------------------------------
(***************************************************************************)
(* What the ledger promises about money: every account holds an amount,    *)
(* and the only thing that changes it is a transfer, which moves its       *)
(* amount from one account to another in one step, once per call.          *)
(***************************************************************************)
EXTENDS Naturals

CONSTANTS Accounts, Calls

VARIABLES held, moved

Init == held \in [Accounts -> Nat] /\ moved = {}

Move(c) ==
    /\ c \notin moved /\ moved' = moved \cup {c}
    /\ \E a, b \in Accounts : \E x \in 1..held[a] :
          a # b /\ held' = [held EXCEPT ![a] = held[a] - x, ![b] = held[b] + x]

Next == \E c \in Calls : Move(c)

Spec == Init /\ [][Next]_<<held, moved>>
=============================================================================
