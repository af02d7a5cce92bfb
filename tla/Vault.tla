-------------------------------- MODULE Vault --------------------------------
(***************************************************************************)
(* A vault whose token account belongs to a program.  The operator's       *)
(* client prepares what a Token-2022 instruction needs (prepare_configure, *)
(* prepare_transfer, pending_balance_update) from the account as it is;    *)
(* the program makes the call when the operator sends its instruction,     *)
(* later, perhaps more than once, and in any order with others; the client *)
(* closes the proof accounts afterwards.  How a preparation fails half way *)
(* and how proof accounts are closed one by one is the subject of RustFlow.*)
(***************************************************************************)
EXTENDS Integers

CONSTANTS
    Jobs,           \* what the operator sets out to do; each is prepared once
    Payments,       \* the transfers of others into the vault
    Amounts,        \* the amounts paid in and out
    InitialBalance, \* what a vault holds that is set up from the start
    HasHook,        \* the mint has a transfer hook
    MaxCounter,     \* maximumPendingBalanceCreditCounter
    MaxSent         \* bound: how often the instruction of a job is sent

ASSUME AmountAssumption == Amounts \subseteq Nat \ {0} /\ InitialBalance \in Nat
ASSUME LimitAssumption  == MaxCounter \in Nat /\ MaxSent \in Nat
ASSUME HookAssumption   == HasHook \in BOOLEAN
ASSUME NameAssumption   == Jobs \cap Payments = {}

VARIABLES
    vault,          \* the vault's account: "none" or "made"
    token,          \* its token account: "plain" or "configured"
    pending, counter, available, decryptable,   \* and what that holds
    paidIn,         \* the payments that were made
    pc,             \* Jobs -> "idle", "prepared" or "done"
    job,            \* Jobs -> the operation, and the amount of a payout
    args,           \* Jobs -> what was prepared
    proofs,         \* Jobs -> the proof accounts: "none", "open" or "closed"
    sent, landings, \* Jobs -> how often the instruction was sent, and landed
    \* history
    overtaken,      \* updates computed before another operation of the vault landed
    drifted         \* such an update landed, or one that a payment came before

tokenVars == <<pending, counter, available, decryptable>>
jobVars   == <<pc, job, args, proofs, sent>>
vars      == <<vault, token, tokenVars, paidIn, jobVars, landings, overtaken, drifted>>

\* A ciphertext: its value, and the transfers whose randomness it contains.
Ciphertext(val, from) == [val |-> val, from |-> from]
Nothing == Ciphertext(0, {})
Unprepared == [ct |-> Nothing, dec |-> 0, counter |-> 0, hook |-> FALSE]

Init ==
    /\ \E start \in {"new", "set up"} :
          /\ vault = (IF start = "new" THEN "none" ELSE "made")
          /\ token = (IF start = "new" THEN "plain" ELSE "configured")
          /\ available = (IF start = "new" THEN Nothing ELSE Ciphertext(InitialBalance, {}))
    /\ decryptable = available.val
    /\ pending = Nothing /\ counter = 0 /\ paidIn = {}
    /\ pc = [j \in Jobs |-> "idle"] /\ job = [j \in Jobs |-> [op |-> "none", amount |-> 0]]
    /\ args = [j \in Jobs |-> Unprepared] /\ proofs = [j \in Jobs |-> "none"]
    /\ sent = [j \in Jobs |-> 0] /\ landings = [j \in Jobs |-> 0]
    /\ overtaken = {} /\ drifted = FALSE

-----------------------------------------------------------------------------
(* The operator's client.                                                  *)

\* initialize; the account can be made only once.
Initialize ==
    /\ vault = "none" /\ vault' = "made"
    /\ UNCHANGED <<token, tokenVars, paidIn, jobVars, landings, overtaken, drifted>>

\* Job j is to do op with the prepared a, and its proof accounts are as p says.
Prepared(j, op, amount, a, p) ==
    /\ pc[j] = "idle" /\ pc' = [pc EXCEPT ![j] = "prepared"]
    /\ job' = [job EXCEPT ![j] = [op |-> op, amount |-> amount]]
    /\ args' = [args EXCEPT ![j] = a] /\ proofs' = [proofs EXCEPT ![j] = p]
    /\ overtaken' = overtaken \ {j}
    /\ UNCHANGED <<vault, token, tokenVars, paidIn, sent, landings, drifted>>

\* prepare_configure: it reads nothing.
PrepareConfigure(j) == Prepared(j, "configure", 0, Unprepared, "open")

\* Variant: the amount is not compared with the balance.
PreparesAnyAmount(j) ==
    \E x \in Amounts :
        /\ token = "configured" /\ decryptable = available.val
        /\ Prepared(j, "pay", x, [ct |-> available, dec |-> decryptable - x, counter |-> counter,
                                  hook |-> HasHook], "open")

\* prepare_transfer, then transfer_hook_accounts.  The proof program verifies the
\* equality proof only when the owner's copy of the balance is right.
PreparePay(j) ==
    \E x \in Amounts :
        /\ token = "configured" /\ x <= decryptable /\ decryptable = available.val
        /\ Prepared(j, "pay", x, [ct |-> available, dec |-> decryptable - x, counter |-> counter,
                                  hook |-> HasHook], "open")

\* Variant: what was available is forgotten.
UpdateOfPending == [ct |-> available, dec |-> pending.val, counter |-> counter, hook |-> FALSE]

\* pending_update
Update == [ct |-> available, dec |-> decryptable + pending.val, counter |-> counter, hook |-> FALSE]

\* pending_balance_update: no proofs.
ComputeUpdate(j) == token = "configured" /\ Prepared(j, "apply", 0, Update, "none")

\* The operator signs the program's instruction and sends it, also once more.
Send(j) ==
    /\ pc[j] = "prepared" /\ sent[j] < MaxSent
    /\ sent' = [sent EXCEPT ![j] = sent[j] + 1]
    /\ UNCHANGED <<vault, token, tokenVars, paidIn, pc, job, args, proofs, landings, overtaken, drifted>>

\* close_proof_accounts, whether the instruction landed or not; it may leave them open.
Close(j) ==
    /\ pc[j] = "prepared" /\ pc' = [pc EXCEPT ![j] = "done"]
    /\ \/ UNCHANGED proofs
       \/ proofs[j] = "open" /\ proofs' = [proofs EXCEPT ![j] = "closed"]
    /\ UNCHANGED <<vault, token, tokenVars, paidIn, job, args, sent, landings, overtaken, drifted>>

\* recover_proof_accounts of the same payer, at any time: it closes what it finds.
Recover(j) ==
    /\ proofs[j] = "open" /\ proofs' = [proofs EXCEPT ![j] = "closed"]
    /\ UNCHANGED <<vault, token, tokenVars, paidIn, pc, job, args, sent, landings, overtaken, drifted>>

-----------------------------------------------------------------------------
(* The program, and Token-2022.                                            *)

\* An instruction of job j that was sent lands, in a transaction of its own.
Lands(j, op) ==
    /\ job[j].op = op /\ landings[j] < sent[j]
    /\ vault = "made"
    /\ landings' = [landings EXCEPT ![j] = landings[j] + 1]
    /\ UNCHANGED <<vault, jobVars, paidIn>>

\* configure: a second one finds the extension there.
LandConfigure(j) ==
    /\ Lands(j, "configure") /\ token = "plain" /\ proofs[j] = "open"
    /\ token' = "configured"
    /\ UNCHANGED <<tokenVars, overtaken, drifted>>

\* What the operation of j means for the updates that were computed before.
Overtakes(j) == overtaken' = overtaken \cup {i \in Jobs : pc[i] # "idle"}

\* apply_pending: everything that is pending, and the balance that was computed.
LandApply(j) ==
    /\ Lands(j, "apply") /\ token = "configured"
    /\ available' = Ciphertext(available.val + pending.val, available.from \cup pending.from)
    /\ pending' = Nothing /\ counter' = 0 /\ decryptable' = args[j].dec
    /\ drifted' = (drifted \/ j \in overtaken \/ counter # args[j].counter)
    /\ Overtakes(j)
    /\ UNCHANGED token

\* Variant: the range proof without the equality proof, which ties it to the balance.
ProofsHeldOnce(j) == proofs[j] = "open" /\ args[j].ct.val <= available.val

\* The three proofs are there and are about what the account holds.
ProofsHold(j) == proofs[j] = "open" /\ args[j].ct = available

\* Variant: the program does not pass the remaining accounts on.
PassesNone(j) == FALSE

\* The hook's accounts, which the program appends to the transfer.
PassesHook(j) == args[j].hook

\* pay
LandPay(j) ==
    /\ Lands(j, "pay") /\ token = "configured" /\ ProofsHold(j)
    /\ HasHook => PassesHook(j)
    /\ available' = Ciphertext(available.val - job[j].amount, available.from \cup {<<j, landings[j]>>})
    /\ decryptable' = args[j].dec
    /\ Overtakes(j)
    /\ UNCHANGED <<token, pending, counter, drifted>>

\* Anyone pays into the vault with an ordinary confidential transfer.
PayIn(p) ==
    /\ token = "configured" /\ p \notin paidIn /\ counter < MaxCounter
    /\ paidIn' = paidIn \cup {p} /\ counter' = counter + 1
    /\ \E x \in Amounts : pending' = Ciphertext(pending.val + x, pending.from \cup {<<p, 0>>})
    /\ UNCHANGED <<vault, token, available, decryptable, jobVars, landings, overtaken, drifted>>

-----------------------------------------------------------------------------

Next ==
    \/ Initialize
    \/ \E j \in Jobs :
          \/ PrepareConfigure(j) \/ PreparePay(j) \/ ComputeUpdate(j)
          \/ Send(j) \/ Close(j) \/ Recover(j)
          \/ LandConfigure(j) \/ LandApply(j) \/ LandPay(j)
    \/ \E p \in Payments : PayIn(p)

Spec == Init /\ [][Next]_vars

\* The operator sends what was prepared, and what is sent gets to the chain.
FairSpec == Spec /\ \A j \in Jobs : WF_vars(Send(j)) /\ WF_vars(LandPay(j))

-----------------------------------------------------------------------------
(* Properties.                                                             *)

Ciphertexts == [val : Nat, from : SUBSET ((Jobs \cup Payments) \X Nat)]
Operations  == [op : {"none", "configure", "apply", "pay"}, amount : Amounts \cup {0}]
Arguments   == [ct : Ciphertexts, dec : Nat, counter : Nat, hook : BOOLEAN]

\* Types of the variables; no balance goes below zero.
TypeOK ==
    /\ vault \in {"none", "made"} /\ token \in {"plain", "configured"}
    /\ available \in Ciphertexts /\ pending \in Ciphertexts /\ decryptable \in Nat
    /\ counter \in 0..MaxCounter /\ paidIn \subseteq Payments
    /\ pc \in [Jobs -> {"idle", "prepared", "done"}]
    /\ job \in [Jobs -> Operations] /\ args \in [Jobs -> Arguments]
    /\ proofs \in [Jobs -> {"none", "open", "closed"}]
    /\ sent \in [Jobs -> 0..MaxSent] /\ landings \in [Jobs -> 0..MaxSent]
    /\ \A j \in Jobs : landings[j] <= sent[j]
    /\ overtaken \subseteq Jobs /\ drifted \in BOOLEAN

Payouts == {j \in Jobs : job[j].op = "pay"}

\* prepare_transfer, pay: of all payouts that were prepared from one state of the balance,
\* and of all the times each of them is sent, one lands at most, whatever is paid in or
\* applied meanwhile.  Their proof accounts need not be closed for that.
OnePayoutPerBalance ==
    \A i, j \in Payouts :
        /\ landings[j] <= 1
        /\ i # j /\ landings[i] > 0 /\ landings[j] > 0 => args[i].ct # args[j].ct

\* pending_balance_update, apply_pending: the vault's decryptable balance is the encrypted one
\* unless an update landed that a payment in or another operation of the vault had come
\* before.  A payout never makes them differ.
AgreesUnlessOvertaken == ~drifted => decryptable = available.val

\* A prepared payout can be made until its proof accounts are closed or the available balance
\* changes: neither payments in nor an update that had nothing to apply are in its way.
PayoutGoesThrough ==
    \A j \in Jobs :
        pc[j] = "prepared" /\ job[j].op = "pay" ~>
            landings[j] > 0 \/ proofs[j] = "closed" \/ pc[j] = "done" \/ args[j].ct # available
=============================================================================
