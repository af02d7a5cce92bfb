------------------------- MODULE ConfidentialLedger -------------------------
(***************************************************************************)
(* The confidential balances of one mint's token accounts, and the SDK     *)
(* calls that move them: configureAccount, deposit, applyPendingBalance,   *)
(* transfer and withdraw.  A call reads the accounts, decides on what it   *)
(* read, signs a transaction from it, and the transaction lands later      *)
(* against whatever the accounts hold by then.  Calls run concurrently, in *)
(* one process or in several; the several transactions of a transfer or    *)
(* withdraw are one step here and are the subject of the modules ProofFlow *)
(* and RustFlow.  The TypeScript SDK and the Rust crate differ in the order *)
(* of their checks, in what they retry and in the error they give.         *)
(***************************************************************************)
EXTENDS Integers, FiniteSets, Sequences

CONSTANTS
    ClientOf,       \* Accounts -> "typescript" or "rust": what the owner uses
    Accounts,       \* token accounts of the mint, one per owner
    Calls,          \* SDK calls; each runs once
    Ops,            \* the operations the calls may run
    Amounts,        \* the amounts they may ask for
    Retries,        \* SendOptions.retries
    LoBase,         \* 2^16: amounts are encrypted as amount % LoBase and amount \div LoBase
    MaxAmount,      \* 2^48 - 1: MAX_DEPOSIT_OR_TRANSFER_AMOUNT
    DecryptMax,     \* 2^32 - 1: largest value an ElGamal ciphertext can be decrypted to
    MaxCounter,     \* maximumPendingBalanceCreditCounter
    AutoApprove,    \* the mint approves new accounts by itself
    Togglers,       \* accounts whose owner may turn incoming credits on and off
    InitStatus,     \* Accounts -> status at the start
    InitPublic,     \* Accounts -> public balance at the start
    InitAvailable   \* Accounts -> confidential available balance at the start

Operation == {"configure", "deposit", "apply", "transfer", "withdraw"}

\* ConfidentialTransfersErrorCode: of the checks, and of what is sent.
ErrorCodes ==
    {"ACCOUNT_NOT_FOUND", "ACCOUNT_NOT_CONFIGURED", "ACCOUNT_NOT_APPROVED",
     "RECIPIENT_REJECTS_CONFIDENTIAL", "PENDING_BALANCE_LIMIT", "CANNOT_SIGN_MESSAGES",
     "KEYS_MISMATCH", "INSUFFICIENT_FUNDS", "DECRYPTION_FAILED", "AMOUNT_TOO_LARGE",
     "ACCOUNT_ALREADY_CONFIGURED", "INVALID_INPUT"}
Results ==
    ErrorCodes \cup {"none", "ok", "TRANSACTION_FAILED", "TRANSACTION_EXPIRED", "RPC_ERROR"}

ASSUME ClientAssumption == ClientOf \in [Accounts -> {"typescript", "rust"}]
ASSUME AccountsAssumption == Accounts # {}
ASSUME BaseAssumption   == LoBase \in Nat \ {0}
ASSUME AmountAssumption == Amounts \subseteq Nat /\ MaxAmount \in Nat /\ Ops \subseteq Operation
ASSUME RetryAssumption  == Retries \in Nat
ASSUME LimitAssumption  == MaxCounter \in Nat /\ DecryptMax \in Nat
ASSUME FlagAssumption   == AutoApprove \in BOOLEAN /\ Togglers \subseteq Accounts
ASSUME InitAssumption   ==
    /\ InitStatus \in [Accounts -> {"missing", "plain", "configured"}]
    /\ InitPublic \in [Accounts -> Nat]
    /\ InitAvailable \in [Accounts -> Nat]
    /\ \A a \in Accounts : InitStatus[a] # "configured" => InitAvailable[a] = 0
    /\ \A a \in Accounts : InitStatus[a] = "missing" => InitPublic[a] = 0

VARIABLES
    \* the token accounts, on chain
    status,        \* "missing", "plain" (no extension) or "configured"
    approved,      \* the mint's authority approved the account
    allow,         \* allowConfidentialCredits
    public,        \* the public balance
    pending,       \* pendingBalanceLow, pendingBalanceHigh and their openings
    counter,       \* pendingBalanceCreditCounter
    available,     \* the ElGamal available balance: its value and its opening
    decryptable,   \* decryptableAvailableBalance, the owner's AES copy of it
    \* the calls
    pc, req, tries, signed, result,
    inflight,      \* how many transactions a call no longer waits for that may still land
    \* history
    landings,      \* how many transactions of the call landed
    touched,       \* calls whose account a landing of the owner's changed after they read it
    drifted        \* accounts where an apply landed that did not match them

chainVars == <<status, approved, allow, public, pending, counter, available, decryptable>>
callVars  == <<pc, req, tries, signed, result, inflight>>
histVars  == <<landings, touched, drifted>>
vars      == <<chainVars, callVars, histVars>>

\* The fresh randomness of a transfer.  The transactions a Rust call resends carry
\* the same; a TypeScript attempt draws anew, but the one before it never lands.
Opening == Calls

NoPending == [lo |-> 0, hi |-> 0, rnd |-> {}]
NoRequest == [op |-> "none", acct |-> CHOOSE a \in Accounts : TRUE,
              to |-> CHOOSE a \in Accounts : TRUE, amt |-> 0]
Unsigned  == [ct |-> [val |-> 0, rnd |-> {}], left |-> 0, dec |-> 0, counter |-> 0]

Init ==
    /\ status = InitStatus
    /\ approved = [a \in Accounts |-> InitStatus[a] = "configured"]
    /\ allow = [a \in Accounts |-> TRUE]
    /\ public = InitPublic
    /\ pending = [a \in Accounts |-> NoPending]
    /\ counter = [a \in Accounts |-> 0]
    /\ available = [a \in Accounts |-> [val |-> InitAvailable[a], rnd |-> {}]]
    /\ decryptable = InitAvailable
    /\ pc = [c \in Calls |-> "idle"]
    /\ req = [c \in Calls |-> NoRequest]
    /\ tries = [c \in Calls |-> 0]
    /\ signed = [c \in Calls |-> Unsigned]
    /\ result = [c \in Calls |-> "none"]
    /\ inflight = [c \in Calls |-> 0]
    /\ landings = [c \in Calls |-> 0]
    /\ touched = {} /\ drifted = {}

-----------------------------------------------------------------------------
(* Amounts.                                                                *)

\* Variant: the low half one bit too wide.
SplitTooWide(x) == [lo |-> x % (2 * LoBase), hi |-> x \div (2 * LoBase)]

\* splitAmount
Split(x) == [lo |-> x % LoBase, hi |-> x \div LoBase]

\* (pendingHi << PENDING_BALANCE_LO_BIT_LENGTH) + pendingLo
Join(p) == p.hi * LoBase + p.lo

-----------------------------------------------------------------------------
(* What a call checks on the accounts it read, in the order of the code.   *)

When(cond, code) == [fails |-> cond, code |-> code]

Pass(checks) == \A i \in DOMAIN checks : ~checks[i].fails

\* readConfiguredAccount
ReadChecks(a) ==
    << When(status[a] = "missing", "ACCOUNT_NOT_FOUND"),
       When(status[a] = "plain", "ACCOUNT_NOT_CONFIGURED") >>

\* assertCanReceive
ReceiveChecks(a) ==
    << When(~approved[a], "ACCOUNT_NOT_APPROVED"),
       When(~allow[a], "RECIPIENT_REJECTS_CONFIDENTIAL"),
       When(counter[a] >= MaxCounter, "PENDING_BALANCE_LIMIT") >>

\* ownerKeys and assertKeysMatchAccount
KeyChecks(keys) ==
    << When(keys = "unavailable", "CANNOT_SIGN_MESSAGES"),
       When(keys = "mismatch", "KEYS_MISMATCH") >>

\* decryptBalance, decryptAvailableBalance: what the owner sees as available.
DecryptBalance(a) == decryptable[a]

\* Variant: the balance is not compared with the amount.
NoFundsChecks(a, amt) == << >>

\* computeNewAvailableBalance on the decrypted available balance
FundsChecks(a, amt) == << When(DecryptBalance(a) < amt, "INSUFFICIENT_FUNDS") >>

\* Both halves of the pending balance are decrypted by search.
PendingChecks(a) ==
    << When(pending[a].lo > DecryptMax, "DECRYPTION_FAILED"),
       When(pending[a].hi > DecryptMax, "DECRYPTION_FAILED") >>

\* A deposit takes from the public balance.
PublicChecks(a, amt) == << When(public[a] < amt, "INSUFFICIENT_FUNDS") >>

\* The checks of each operation, on request r, in the TypeScript SDK.  The read
\* of configureAccount is outside its withRetries: n is the number of retries.
ConfigureChecks(r, keys, n) ==
    << When(n = 0 /\ status[r.acct] = "configured", "ACCOUNT_ALREADY_CONFIGURED"),
       When(n = 0 /\ keys = "unavailable", "CANNOT_SIGN_MESSAGES") >>

DepositChecks(r) == ReadChecks(r.acct) \o PublicChecks(r.acct, r.amt) \o ReceiveChecks(r.acct)

ApplyChecks(r, keys) == ReadChecks(r.acct) \o KeyChecks(keys) \o PendingChecks(r.acct)

TransferChecks(r, keys) ==
    ReadChecks(r.acct) \o ReadChecks(r.to) \o ReceiveChecks(r.to) \o KeyChecks(keys)
        \o << When(r.amt > MaxAmount, "AMOUNT_TOO_LARGE") >> \o FundsChecks(r.acct, r.amt)

WithdrawChecks(r, keys) == ReadChecks(r.acct) \o KeyChecks(keys) \o FundsChecks(r.acct, r.amt)

\* The same in the Rust crate, which derives the keys before it reads, except to
\* configure, and compares them with the account's right after reading it.
Derived(keys)  == << When(keys = "unavailable", "CANNOT_SIGN_MESSAGES") >>
Matching(keys) == << When(keys = "mismatch", "KEYS_MISMATCH") >>

RustConfigureChecks(r, keys) ==
    << When(status[r.acct] = "configured", "ACCOUNT_ALREADY_CONFIGURED") >> \o Derived(keys)

RustDepositChecks(r) == ReadChecks(r.acct) \o ReceiveChecks(r.acct) \o PublicChecks(r.acct, r.amt)

RustApplyChecks(r, keys) ==
    Derived(keys) \o ReadChecks(r.acct) \o Matching(keys) \o PendingChecks(r.acct)

RustTransferChecks(r, keys) ==
    Derived(keys) \o ReadChecks(r.acct) \o Matching(keys) \o ReadChecks(r.to)
        \o ReceiveChecks(r.to) \o FundsChecks(r.acct, r.amt)

RustWithdrawChecks(r, keys) ==
    Derived(keys) \o ReadChecks(r.acct) \o Matching(keys) \o FundsChecks(r.acct, r.amt)

Checks(c, keys) ==
    LET r    == req[c]
        rust == ClientOf[r.acct] = "rust"
    IN
    CASE r.op = "configure" ->
            IF rust THEN RustConfigureChecks(r, keys) ELSE ConfigureChecks(r, keys, tries[c])
      [] r.op = "deposit"  -> IF rust THEN RustDepositChecks(r) ELSE DepositChecks(r)
      [] r.op = "apply"    -> IF rust THEN RustApplyChecks(r, keys) ELSE ApplyChecks(r, keys)
      [] r.op = "transfer" -> IF rust THEN RustTransferChecks(r, keys) ELSE TransferChecks(r, keys)
      [] OTHER             -> IF rust THEN RustWithdrawChecks(r, keys) ELSE WithdrawChecks(r, keys)

\* The arguments a call refuses before it reads anything.
ArgumentError(op, a, amt) ==
    CASE op \in {"deposit", "transfer", "withdraw"} /\ amt <= 0 -> "INVALID_INPUT"
      [] op = "deposit" /\ amt > MaxAmount -> "AMOUNT_TOO_LARGE"
      [] ClientOf[a] = "rust" /\ op = "transfer" /\ amt > MaxAmount -> "AMOUNT_TOO_LARGE"
      [] OTHER -> "none"

-----------------------------------------------------------------------------
(* Token-2022 and the ZK proof program.                                    *)

\* The account can take one more deposit or transfer.
Creditable(a) ==
    status[a] = "configured" /\ approved[a] /\ allow[a] /\ counter[a] < MaxCounter

\* A spend is accepted when its equality proof verifies (what it says is left is
\* what the ciphertext holds without the amount) and was made for the ciphertext
\* the account still holds.  The decryptable balance beside it is not looked at.
SpendProofHolds(c) ==
    LET r == req[c] IN
    /\ signed[c].left + r.amt = signed[c].ct.val
    /\ available[r.acct] = signed[c].ct

Accepts(c) ==
    LET r == req[c] IN
    CASE r.op = "configure" -> status[r.acct] # "configured"
      [] r.op = "deposit"   -> Creditable(r.acct) /\ public[r.acct] >= r.amt
      [] r.op = "apply"     -> status[r.acct] = "configured"
      [] r.op = "transfer"  -> /\ status[r.acct] = "configured" /\ approved[r.acct]
                               /\ Creditable(r.to) /\ SpendProofHolds(c)
      [] OTHER              -> /\ status[r.acct] = "configured" /\ approved[r.acct]
                               /\ SpendProofHolds(c)

\* A credit: both halves are added to the pending balance and counted.
Credit(a, amt, rnd) ==
    /\ pending' = [pending EXCEPT ![a] =
                     [lo |-> pending[a].lo + Split(amt).lo, hi |-> pending[a].hi + Split(amt).hi,
                      rnd |-> pending[a].rnd \cup rnd]]
    /\ counter' = [counter EXCEPT ![a] = counter[a] + 1]

\* The owner's calls on the account that read it before c landed, c among them: a
\* copy of it may land again.
TouchedBy(c) == touched \cup {d \in Calls : req[d].acct = req[c].acct}

LandConfigure(c) ==
    LET a == req[c].acct IN
    /\ req[c].op = "configure" /\ Accepts(c)
    /\ status' = [status EXCEPT ![a] = "configured"]
    /\ approved' = [approved EXCEPT ![a] = AutoApprove]
    /\ allow' = [allow EXCEPT ![a] = TRUE]
    /\ UNCHANGED <<public, pending, counter, available, decryptable, touched, drifted>>

LandDeposit(c) ==
    LET a == req[c].acct IN
    /\ req[c].op = "deposit" /\ Accepts(c)
    /\ public' = [public EXCEPT ![a] = public[a] - req[c].amt]
    /\ Credit(a, req[c].amt, {})
    /\ UNCHANGED <<status, approved, allow, available, decryptable, touched, drifted>>

\* ApplyPendingBalance adds everything that is pending when it lands, and stores
\* the decryptable balance it is given: the expected counter is recorded beside
\* the actual one, a difference is not refused.
LandApply(c) ==
    LET a == req[c].acct IN
    /\ req[c].op = "apply" /\ Accepts(c)
    /\ available' = [available EXCEPT ![a] =
                       [val |-> available[a].val + Join(pending[a]),
                        rnd |-> available[a].rnd \cup pending[a].rnd]]
    /\ pending' = [pending EXCEPT ![a] = NoPending]
    /\ counter' = [counter EXCEPT ![a] = 0]
    /\ decryptable' = [decryptable EXCEPT ![a] = signed[c].dec]
    /\ touched' = TouchedBy(c)
    /\ drifted' = IF signed[c].counter = counter[a] /\ c \notin touched
                  THEN drifted ELSE drifted \cup {a}
    /\ UNCHANGED <<status, approved, allow, public>>

\* What a spend does to the account it takes from.
Debit(c, rnd) ==
    LET a == req[c].acct IN
    /\ available' = [available EXCEPT ![a] =
                       [val |-> available[a].val - req[c].amt, rnd |-> available[a].rnd \cup rnd]]
    /\ decryptable' = [decryptable EXCEPT ![a] = signed[c].dec]
    /\ touched' = TouchedBy(c)
    /\ drifted' = drifted \ {a}

LandTransfer(c) ==
    /\ req[c].op = "transfer" /\ Accepts(c)
    /\ Debit(c, {c})
    /\ Credit(req[c].to, req[c].amt, {c})
    /\ UNCHANGED <<status, approved, allow, public>>

LandWithdraw(c) ==
    LET a == req[c].acct IN
    /\ req[c].op = "withdraw" /\ Accepts(c)
    /\ Debit(c, {})
    /\ public' = [public EXCEPT ![a] = public[a] + req[c].amt]
    /\ UNCHANGED <<status, approved, allow, pending, counter>>

Land(c) ==
    /\ \/ LandConfigure(c) \/ LandDeposit(c) \/ LandApply(c) \/ LandTransfer(c) \/ LandWithdraw(c)
    /\ landings' = [landings EXCEPT ![c] = landings[c] + 1]

-----------------------------------------------------------------------------
(* A call.                                                                 *)

Return(c, code) ==
    /\ pc' = [pc EXCEPT ![c] = "done"]
    /\ result' = [result EXCEPT ![c] = code]

Begin(c) ==
    /\ pc[c] = "idle"
    /\ \E op \in Ops, a \in Accounts, to \in Accounts, amt \in Amounts :
          /\ IF op = "transfer" THEN to # a ELSE to = a
          /\ op \in {"configure", "apply"} => \A x \in Amounts : amt <= x
          /\ req' = [req EXCEPT ![c] = [op |-> op, acct |-> a, to |-> to, amt |-> amt]]
          /\ IF ArgumentError(op, a, amt) = "none"
             THEN pc' = [pc EXCEPT ![c] = "reading"] /\ UNCHANGED result
             ELSE Return(c, ArgumentError(op, a, amt))
    /\ UNCHANGED <<chainVars, tries, signed, inflight, histVars>>

\* The balance a spend leaves of what the owner decrypted.
LeftBy(r) ==
    IF r.op \in {"transfer", "withdraw"} THEN DecryptBalance(r.acct) - r.amt ELSE 0

\* Variant: the high half of the pending balance is added without its shift.
SignUnshifted(c) ==
    LET r == req[c] IN
    [ct |-> available[r.acct],
     left |-> LeftBy(r),
     dec |-> IF r.op = "apply"
             THEN DecryptBalance(r.acct) + pending[r.acct].hi + pending[r.acct].lo ELSE LeftBy(r),
     counter |-> counter[r.acct]]

\* What the call puts into its transaction: the available ciphertext its proofs
\* are about, the balance they say is left, the new decryptable balance, the
\* expected credit counter.
Sign(c) ==
    LET r == req[c] IN
    [ct |-> available[r.acct],
     left |-> LeftBy(r),
     dec |-> IF r.op = "apply"
             THEN DecryptBalance(r.acct) + Join(pending[r.acct]) ELSE LeftBy(r),
     counter |-> counter[r.acct]]

\* An attempt: read the accounts, pass every check, build and sign.
Read(c) ==
    /\ pc[c] = "reading"
    /\ Pass(Checks(c, "match"))
    /\ signed' = [signed EXCEPT ![c] = Sign(c)]
    /\ touched' = touched \ {c}
    /\ pc' = [pc EXCEPT ![c] = "sending"]
    /\ UNCHANGED <<chainVars, req, tries, result, inflight, landings, drifted>>

\* The first check that fails ends the call; whether the keys are the
\* account's is an input of the call.
ReadFails(c) ==
    /\ pc[c] = "reading"
    /\ \E keys \in {"match", "mismatch", "unavailable"} :
          LET checks == Checks(c, keys) IN
          \E i \in DOMAIN checks :
             /\ checks[i].fails
             /\ \A j \in 1..(i - 1) : ~checks[j].fails
             /\ Return(c, checks[i].code)
    /\ UNCHANGED <<chainVars, req, tries, signed, inflight, histVars>>

\* A read got no answer from the RPC node: ErrorCode::Rpc, or in TypeScript
\* the error of the RPC client itself.
ReadUnanswered(c) ==
    /\ pc[c] = "reading"
    /\ Return(c, "RPC_ERROR")
    /\ UNCHANGED <<chainVars, req, tries, signed, inflight, histVars>>

\* The transaction landed and its confirmation was seen.
Confirm(c) ==
    /\ pc[c] = "sending"
    /\ Land(c)
    /\ Return(c, "ok")
    /\ UNCHANGED <<req, tries, signed, inflight>>

\* The error for a confirmation that never came; in TypeScript it is the same
\* as for a transaction that failed.
NoAnswer(c) == IF ClientOf[req[c].acct] = "rust" THEN "RPC_ERROR" ELSE "TRANSACTION_FAILED"

\* It failed in simulation or on chain, or was never sent.
Fail(c) ==
    /\ pc[c] = "sending"
    /\ \E code \in {"TRANSACTION_FAILED", "RPC_ERROR"} : Return(c, code)
    /\ UNCHANGED <<chainVars, req, tries, signed, inflight, histVars>>

\* One more transaction of the call is on its way with nobody waiting for it.
LeaveBehind(c) == inflight' = [inflight EXCEPT ![c] = inflight[c] + 1]

\* Variant: any error of the wait is taken for an expiry.
LoseTrackAsExpired(c) ==
    /\ pc[c] = "sending"
    /\ Return(c, "TRANSACTION_EXPIRED")
    /\ LeaveBehind(c)
    /\ UNCHANGED <<chainVars, req, tries, signed, histVars>>

\* Variant: the call runs again although its transaction may still land.
LoseTrackRetries(c) ==
    /\ pc[c] = "sending" /\ tries[c] < Retries
    /\ pc' = [pc EXCEPT ![c] = "reading"]
    /\ tries' = [tries EXCEPT ![c] = tries[c] + 1]
    /\ LeaveBehind(c)
    /\ UNCHANGED <<chainVars, req, signed, result, histVars>>

\* It was sent, and an error other than expiry ended the wait.
LoseTrack(c) ==
    /\ pc[c] = "sending"
    /\ Return(c, NoAnswer(c))
    /\ LeaveBehind(c)
    /\ UNCHANGED <<chainVars, req, tries, signed, histVars>>

\* Variant: the attempts are not counted.
ExpireUncounted(c) ==
    /\ pc[c] = "sending"
    /\ pc' = [pc EXCEPT ![c] = "reading"]
    /\ UNCHANGED <<chainVars, req, tries, signed, result, inflight, histVars>>

\* The wait ended with an expiry.  In TypeScript the block height is past and the
\* transaction can no longer land: withRetries runs the attempt again from the
\* read.  In Rust "unable to confirm transaction" is taken for an expiry too:
\* Sender::send signs and sends the same instructions again, or gives up, and
\* the transaction before may still land.
Expire(c) ==
    LET rust == ClientOf[req[c].acct] = "rust" IN
    /\ pc[c] = "sending"
    /\ IF tries[c] < Retries
       THEN /\ pc' = [pc EXCEPT ![c] = IF rust THEN "sending" ELSE "reading"]
            /\ tries' = [tries EXCEPT ![c] = tries[c] + 1]
            /\ UNCHANGED result
       ELSE Return(c, "TRANSACTION_EXPIRED") /\ UNCHANGED tries
    /\ IF rust THEN LeaveBehind(c) ELSE UNCHANGED inflight
    /\ UNCHANGED <<chainVars, req, signed, histVars>>

\* A transaction the call no longer waits for lands after all.
LandLate(c) ==
    /\ inflight[c] > 0
    /\ Land(c)
    /\ inflight' = [inflight EXCEPT ![c] = inflight[c] - 1]
    /\ UNCHANGED <<pc, req, tries, signed, result>>

-----------------------------------------------------------------------------
(* Outside the SDK: the mint's authority and the account's owner.          *)

Approve(a) ==
    /\ status[a] = "configured" /\ ~approved[a]
    /\ approved' = [approved EXCEPT ![a] = TRUE]
    /\ UNCHANGED <<status, allow, public, pending, counter, available, decryptable, callVars, histVars>>

ToggleCredits(a) ==
    /\ a \in Togglers /\ status[a] = "configured"
    /\ allow' = [allow EXCEPT ![a] = ~allow[a]]
    /\ UNCHANGED <<status, approved, public, pending, counter, available, decryptable, callVars, histVars>>

-----------------------------------------------------------------------------
CallStep(c) ==
    \/ Read(c) \/ ReadFails(c) \/ ReadUnanswered(c)
    \/ Confirm(c) \/ Fail(c) \/ LoseTrack(c) \/ Expire(c)

Next ==
    \/ \E c \in Calls : Begin(c) \/ CallStep(c) \/ LandLate(c)
    \/ \E a \in Accounts : Approve(a) \/ ToggleCredits(a)

Spec == Init /\ [][Next]_vars

\* Every await of a call is answered, one way or another.
FairSpec == Spec /\ \A c \in Calls : WF_vars(CallStep(c))

-----------------------------------------------------------------------------
(* Properties.                                                             *)

Ciphertext == [val: Nat, rnd: SUBSET Opening]

\* Types of the variables; balances never go below zero.
TypeOK ==
    /\ status \in [Accounts -> {"missing", "plain", "configured"}]
    /\ approved \in [Accounts -> BOOLEAN]
    /\ allow \in [Accounts -> BOOLEAN]
    /\ public \in [Accounts -> Nat]
    /\ pending \in [Accounts -> [lo: Nat, hi: Nat, rnd: SUBSET Opening]]
    /\ counter \in [Accounts -> Nat]
    /\ available \in [Accounts -> Ciphertext]
    /\ decryptable \in [Accounts -> Nat]
    /\ pc \in [Calls -> {"idle", "reading", "sending", "done"}]
    /\ req \in [Calls -> [op: Operation \cup {"none"}, acct: Accounts, to: Accounts, amt: Nat]]
    /\ tries \in [Calls -> 0..Retries]
    /\ signed \in [Calls -> [ct: Ciphertext, left: Nat, dec: Nat, counter: Nat]]
    /\ inflight \in [Calls -> Nat] /\ touched \subseteq Calls /\ drifted \subseteq Accounts
    /\ landings \in [Calls -> Nat] /\ result \in [Calls -> Results]

\* applyPendingBalance, transfer, withdraw: the balance the owner can decrypt is
\* the encrypted one, unless an applyPendingBalance landed after a credit had
\* changed the counter it read, or after another call of the owner, or an earlier
\* copy of itself that Sender::send took for expired, had landed.  A spend that
\* lands always restores the agreement.
AgreesUnlessRaced ==
    \A a \in Accounts : a \notin drifted => decryptable[a] = available[a].val

\* Token-2022 can take the same instructions of these operations twice.
Repeatable == {"deposit", "apply", "withdraw"}

\* The answers that leave it open whether a transaction of the call landed, or
\* still will: the one for a confirmation that never came and, of the Rust crate,
\* an expiry, or a failure after one.
Unsure(c) ==
    {NoAnswer(c)} \cup
    (IF ClientOf[req[c].acct] # "rust" THEN {}
     ELSE {"TRANSACTION_EXPIRED"} \cup IF tries[c] > 0 THEN {"TRANSACTION_FAILED"} ELSE {})

\* withRetries, Sender::send: a call has its effect at most once, except that a
\* deposit, an apply or a withdraw of the Rust crate may have it once per
\* transaction sent; "ok" means it had it, and every other answer that is not
\* open means it never had it and never will.
ResultIsTrue ==
    \A c \in Calls :
        /\ landings[c] <= IF ClientOf[req[c].acct] = "rust" /\ req[c].op \in Repeatable
                          THEN tries[c] + 1 ELSE 1
        /\ result[c] = "ok" => landings[c] >= 1
        /\ result[c] \notin {"none", "ok"} \cup Unsure(c) => landings[c] = 0

\* Splitting amounts at LoBase keeps the low half of the pending balance
\* decryptable up to the last credit the account takes.
LowPartDecrypts ==
    MaxCounter * (LoBase - 1) <= DecryptMax => \A a \in Accounts : pending[a].lo <= DecryptMax

\* Refinement: what an account holds, in public, pending and available.
HeldBy == [a \in Accounts |-> public[a] + Join(pending[a]) + available[a].val]
MovedBy == {c \in Calls : landings[c] > 0 /\ req[c].op = "transfer"}

Money == INSTANCE Holdings WITH held <- HeldBy, moved <- MovedBy

\* deposit, applyPendingBalance, withdraw and configureAccount never change what
\* an account holds; a transfer moves exactly its amount, once, to the recipient.
MoneyMovesOnce == Money!Spec

\* A call returns: its retries are bounded.
CallsReturn == \A c \in Calls : pc[c] # "idle" ~> pc[c] = "done"

\* decryptBalance.ts: "The owner's confidential available balance in base units,
\* decrypted locally".
DecryptedBalanceIsAvailable ==
    \A a \in Accounts : status[a] = "configured" => DecryptBalance(a) = available[a].val
=============================================================================
