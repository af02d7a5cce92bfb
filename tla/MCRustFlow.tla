----------------------------- MODULE MCRustFlow -----------------------------
(* RustFlow on the plans of prepare_withdraw_inner, prepare_transfer_inner *)
(* and run_with_proofs.                                                    *)
EXTENDS RustFlow

CONSTANTS eq, val, rng

Tx(create, verify, act, close) ==
    [create |-> create, verify |-> verify, act |-> act, close |-> close]

WithdrawProofs == {eq, rng}
WithdrawPlan ==
    << Tx({eq}, {eq}, FALSE, {}), Tx({rng}, {}, FALSE, {}), Tx({}, {rng}, FALSE, {}),
       Tx({}, {}, TRUE, WithdrawProofs) >>

\* One that leaves no room for the closes.
LongWithdrawPlan == [WithdrawPlan EXCEPT ![4].close = {}]

TransferProofs == {eq, val, rng}
TransferSetup ==
    << Tx({eq}, {eq}, FALSE, {}), Tx({val}, {val}, FALSE, {}), Tx({rng}, {}, FALSE, {}),
       Tx({}, {rng}, FALSE, {}) >>

\* The accounts of a transfer hook leave no room for the closes beside it.
HookPlan == Append(TransferSetup, Tx({}, {}, TRUE, {}))

Setting(proofs, plan, hook, batchSize, expiryIsFinal, maxLostCloses) ==
    [proofs |-> proofs, plan |-> plan, hook |-> hook, batchSize |-> batchSize,
     expiryIsFinal |-> expiryIsFinal, maxLostCloses |-> maxLostCloses]

\* A transfer with a hook, and a withdraw that closes its proof accounts itself, also with
\* an RPC client that only thinks a transaction has expired, and then also one that does
\* not close them itself.
AllSettings ==
    { Setting(TransferProofs, HookPlan, TRUE, 2, TRUE, 0),
      Setting(WithdrawProofs, WithdrawPlan, FALSE, 8, TRUE, 0),
      Setting(WithdrawProofs, WithdrawPlan, FALSE, 8, FALSE, 1),
      Setting(WithdrawProofs, LongWithdrawPlan, FALSE, 8, FALSE, 0) }
=============================================================================
