---------------------------- MODULE MCProofFlow ----------------------------
(* ProofFlow on the plans the SDK produces.                                *)
EXTENDS ProofFlow

CONSTANTS eq, val, rng

Tx(create, verify, act, close) ==
    [create |-> create, verify |-> verify, act |-> act, close |-> close]

\* withdraw: four transactions
WithdrawProofs == {eq, rng}
WithdrawPlan ==
    << Tx({eq}, {eq}, FALSE, {}), Tx({rng}, {}, FALSE, {}), Tx({}, {rng}, FALSE, {}),
       Tx({}, {}, TRUE, WithdrawProofs) >>

\* transfer: five transactions
TransferProofs == {eq, val, rng}
TransferSetup ==
    << Tx({eq}, {eq}, FALSE, {}), Tx({val}, {val}, FALSE, {}), Tx({rng}, {}, FALSE, {}),
       Tx({}, {rng}, FALSE, {}) >>
TransferPlan == Append(TransferSetup, Tx({}, {}, TRUE, TransferProofs))

\* transfer with transfer-hook accounts: no room for the closes beside it
HookPlan ==
    TransferSetup \o << Tx({}, {}, TRUE, {}), Tx({}, {}, FALSE, TransferProofs) >>
=============================================================================
