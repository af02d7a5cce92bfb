------------------------------ MODULE RustFlow ------------------------------
(***************************************************************************)
(* One call of ConfidentialClient::transfer or withdraw of the Rust crate. *)
(* ProofSetup creates the proof accounts one after the other and keeps     *)
(* lists of what it verified; run_with_proofs sends the action; on an      *)
(* error, and after an action that did not close them itself,              *)
(* close_proof_accounts closes the accounts of those lists, several per    *)
(* transaction and one by one when that fails.  Sender::send sends a       *)
(* single transaction again when its blockhash expired.  Beside the call   *)
(* runs recover_proof_accounts of the same payer.                          *)
(***************************************************************************)
EXTENDS Naturals, FiniteSets, Sequences

CONSTANTS
    Settings,      \* the calls and networks that are checked together
    MaxRetries     \* Sender.max_retries

\* A transaction: the accounts it creates, verifies proofs into and closes, and
\* whether it carries the transfer or withdraw.
PlannedTx(proofs) ==
    [create: SUBSET proofs, verify: SUBSET proofs, act: BOOLEAN, close: SUBSET proofs]

\* prepare_transfer_inner, prepare_withdraw_inner: every proof is created and
\* verified, in one transaction or in two that follow each other, and the action
\* comes last.
IsPlan(plan, proofs) ==
    /\ plan \in Seq(PlannedTx(proofs)) /\ Len(plan) > 0
    /\ \A i \in 1..Len(plan) : plan[i].act <=> i = Len(plan)
    /\ \A i \in 1..(Len(plan) - 1) :
        /\ plan[i].close = {}
        /\ plan[i].create \ plan[i].verify \subseteq plan[i + 1].verify \ plan[i + 1].create
    /\ plan[Len(plan)].create = {} /\ plan[Len(plan)].verify = {}
    /\ plan[Len(plan)].close \in {{}, proofs}

ASSUME SettingsAssumption ==
    /\ MaxRetries \in Nat
    /\ \A s \in Settings :
        /\ IsFiniteSet(s.proofs)            \* the proof accounts of the call
        /\ IsPlan(s.plan, s.proofs)         \* its transactions, in the order they are sent
        /\ s.hook \in BOOLEAN               \* the mint has a transfer hook
        /\ s.batchSize \in Nat \ {0}        \* CLOSES_PER_TRANSACTION
        /\ s.expiryIsFinal \in BOOLEAN      \* what the RPC client could not confirm never lands
        /\ s.maxLostCloses \in Nat          \* bound on the closes whose confirmation is lost

VARIABLES
    setting,      \* one of Settings
    account,      \* Proofs -> "none", "created", "verified" or "closed"
    paidBy,       \* the sends of the transfer or withdraw that landed
    lost,         \* those whose fate the call does not know
    lostCloses,   \* closes whose confirmation was lost
    pc, next, attempt, code,
    verified, unverified,          \* the lists of ProofSetup
    outcome, leftOpen, closedOut,  \* what the caller gets
    closing,                       \* close_proof_accounts, once per caller
    \* history
    interrupted   \* a close of the call went wrong that the chain would have taken

Proofs        == setting.proofs
Plan          == setting.plan
HasHook       == setting.hook
BatchSize     == setting.batchSize
ExpiryIsFinal == setting.expiryIsFinal
MaxLostCloses == setting.maxLostCloses

ActionIndex   == Len(Plan)
ClosesWithIt  == Plan[ActionIndex].close = Proofs     \* sender.fits(&together, 0)
Sends         == 0..MaxRetries
TxId          == (1..Len(Plan)) \X Sends
Closers       == {"flow", "recover"}

chainVars  == <<setting, account, paidBy>>
wireVars   == <<lost, lostCloses>>
answerVars == <<outcome, leftOpen, closedOut>>
callVars   == <<pc, next, attempt, code, verified, unverified, answerVars>>
vars       == <<chainVars, wireVars, callVars, closing, interrupted>>

\* sending: the accounts of the transaction being sent; singles: those of a
\* failed batch still to be closed one by one; rest: those not yet in a batch.
NotClosing == [st |-> "idle", sending |-> {}, singles |-> {}, rest |-> {},
               closed |-> {}, open |-> {}]

Init ==
    /\ setting \in Settings
    /\ account = [p \in Proofs |-> "none"] /\ paidBy = {}
    /\ lost = {} /\ lostCloses = {}
    /\ pc = "prepare" /\ next = 1 /\ attempt = 0 /\ code = "none"
    /\ verified = {} /\ unverified = {}
    /\ outcome = "none" /\ leftOpen = {} /\ closedOut = {}
    /\ closing = [w \in Closers |-> NotClosing]
    /\ interrupted = FALSE

-----------------------------------------------------------------------------
(* The chain.                                                              *)

Exists(p) == account[p] \in {"created", "verified"}

\* The equality proof of the transfer or withdraw is about the balance it was made for,
\* which a payment changes (SpendProofHolds in ConfidentialLedger).
Applies(tx) ==
    /\ \A p \in tx.create : account[p] = "none"
    /\ \A p \in tx.verify \ tx.create : account[p] = "created"
    /\ tx.act => paidBy = {} /\ \A p \in Proofs : account[p] = "verified"

AfterTx(tx) ==
    [p \in Proofs |->
        CASE p \in tx.close -> "closed"
          [] p \in tx.verify -> "verified"
          [] p \in tx.create \ tx.verify -> "created"
          [] OTHER -> account[p]]

LandTx(id) ==
    /\ Applies(Plan[id[1]])
    /\ account' = AfterTx(Plan[id[1]])
    /\ paidBy' = IF Plan[id[1]].act THEN {id[2]} ELSE paidBy
    /\ UNCHANGED setting

Closable(ps) == \A p \in ps : account[p] = "verified"

ClosesLand(ps) ==
    /\ Closable(ps)
    /\ account' = [p \in Proofs |-> IF p \in ps THEN "closed" ELSE account[p]]
    /\ UNCHANGED <<setting, paidBy>>

-----------------------------------------------------------------------------
(* close_proof_accounts.                                                   *)

\* accounts.chunks(CLOSES_PER_TRANSACTION)
Chunks(ps) ==
    {b \in SUBSET ps :
        /\ b # {}
        /\ \/ Cardinality(b) = BatchSize
           \/ Cardinality(b) < BatchSize /\ b = ps}

\* c goes on to its next transaction, if it has one.
Onward(c) ==
    IF c.singles # {}
    THEN {[c EXCEPT !.sending = {p}, !.singles = c.singles \ {p}] : p \in c.singles}
    ELSE IF c.rest # {}
    THEN {[c EXCEPT !.sending = b, !.rest = c.rest \ b] : b \in Chunks(c.rest)}
    ELSE {[c EXCEPT !.st = "done", !.sending = {}]}

\* close_proof_accounts(sender, accounts)
StartClosing(w, ps) ==
    \E c \in Onward([NotClosing EXCEPT !.st = "send", !.rest = ps]) :
        closing' = [closing EXCEPT ![w] = c]

\* Variant: a batch that failed is not tried one by one.
AfterFailedCloseNoSingles(c) == [c EXCEPT !.open = c.open \cup c.sending]

\* A close that failed: its accounts are tried one by one, or left open.
AfterFailedClose(c) ==
    IF Cardinality(c.sending) > 1
    THEN [c EXCEPT !.singles = c.sending]
    ELSE [c EXCEPT !.open = c.open \cup c.sending]

CloseLands(w) ==
    /\ closing[w].st = "send"
    /\ ClosesLand(closing[w].sending)
    /\ \E c \in Onward([closing[w] EXCEPT !.closed = closing[w].closed \cup closing[w].sending]) :
          closing' = [closing EXCEPT ![w] = c]
    /\ UNCHANGED <<wireVars, callVars, interrupted>>

\* The transaction failed, or was never sent.
CloseFails(w) ==
    /\ closing[w].st = "send"
    /\ \E c \in Onward(AfterFailedClose(closing[w])) : closing' = [closing EXCEPT ![w] = c]
    /\ interrupted' = (interrupted \/ (w = "flow" /\ Closable(closing[w].sending)))
    /\ UNCHANGED <<chainVars, wireVars, callVars>>

\* The transaction was sent, and its confirmation lost.
CloseLost(w) ==
    /\ closing[w].st = "send"
    /\ Cardinality(lostCloses) < MaxLostCloses
    /\ lostCloses' = lostCloses \cup {closing[w].sending}
    /\ \E c \in Onward(AfterFailedClose(closing[w])) : closing' = [closing EXCEPT ![w] = c]
    /\ interrupted' = (interrupted \/ w = "flow")
    /\ UNCHANGED <<chainVars, lost, callVars>>

\* It was taken for expired and Sender::send sends it again: nothing changes,
\* except that the first one may land after all.
CloseAgain(w) ==
    /\ closing[w].st = "send" /\ ~ExpiryIsFinal /\ MaxRetries > 0
    /\ Cardinality(lostCloses) < MaxLostCloses
    /\ lostCloses' = lostCloses \cup {closing[w].sending}
    /\ UNCHANGED <<chainVars, lost, callVars, closing, interrupted>>

-----------------------------------------------------------------------------
(* The call.                                                               *)

\* The accounts are read and checked, the proofs generated.
Prepare ==
    /\ pc = "prepare"
    /\ pc' = "send"
    /\ UNCHANGED <<chainVars, wireVars, next, attempt, code, verified, unverified, answerVars, closing, interrupted>>

PrepareFails ==
    /\ pc = "prepare"
    /\ pc' = "returned" /\ outcome' = "REJECTED"
    /\ UNCHANGED <<chainVars, wireVars, next, attempt, code, verified, unverified, leftOpen, closedOut, closing, interrupted>>

\* Sender::send returned a signature: ProofSetup::create notes a verified proof;
\* after an action that did not close its proof accounts they are closed now.
SendLands ==
    /\ pc = "send"
    /\ LandTx(<<next, attempt>>)
    /\ verified' = verified \cup Plan[next].verify
    /\ IF next < ActionIndex
       THEN /\ next' = next + 1 /\ attempt' = 0
            /\ UNCHANGED <<pc, code, closing>>
       ELSE /\ pc' = "closing" /\ code' = "ok"
            /\ StartClosing("flow", IF ClosesWithIt THEN {} ELSE Proofs)
            /\ UNCHANGED <<next, attempt>>
    /\ UNCHANGED <<wireVars, unverified, answerVars, interrupted>>

\* ProofSetup::fail, abandon: close what was verified and return error c.
GiveUp(c) ==
    /\ pc' = "closing" /\ code' = c
    /\ unverified' = unverified \cup (Plan[next].verify \ Plan[next].create)
    /\ StartClosing("flow", verified)
    /\ UNCHANGED <<chainVars, next, verified, answerVars, interrupted>>

\* Failed in simulation or on chain.
SendFails ==
    /\ pc = "send"
    /\ GiveUp("TRANSACTION_FAILED")
    /\ UNCHANGED <<wireVars, attempt>>

\* The blockhash, the rent or the simulation could not be had: nothing was sent.
SendUnsent ==
    /\ pc = "send"
    /\ GiveUp("RPC_ERROR")
    /\ UNCHANGED <<wireVars, attempt>>

\* Variant: a lost confirmation is reported as a failed transaction.
SendLostAsFailed ==
    /\ pc = "send"
    /\ GiveUp("TRANSACTION_FAILED")
    /\ lost' = lost \cup {<<next, attempt>>}
    /\ UNCHANGED <<lostCloses, attempt>>

\* send_and_confirm_transaction failed with an error that is not an expiry.
SendLost ==
    /\ pc = "send"
    /\ GiveUp("RPC_ERROR")
    /\ lost' = lost \cup {<<next, attempt>>}
    /\ UNCHANGED <<lostCloses, attempt>>

\* What is known of a transaction that expired.
Expired == lost' = IF ExpiryIsFinal THEN lost ELSE lost \cup {<<next, attempt>>}

\* Variant: the counter starts over inside the loop.
SendAgainStartsOver ==
    /\ pc = "send"
    /\ Expired
    /\ attempt' = (attempt + 1) % (MaxRetries + 1)
    /\ UNCHANGED <<chainVars, lostCloses, pc, next, code, verified, unverified, answerVars, closing, interrupted>>

\* An expiry: the same instructions are sent again under a new blockhash.
SendAgain ==
    /\ pc = "send" /\ attempt < MaxRetries
    /\ Expired
    /\ attempt' = attempt + 1
    /\ UNCHANGED <<chainVars, lostCloses, pc, next, code, verified, unverified, answerVars, closing, interrupted>>

SendExpires ==
    /\ pc = "send" /\ attempt >= MaxRetries
    /\ Expired
    /\ GiveUp("TRANSACTION_EXPIRED")
    /\ UNCHANGED <<lostCloses, attempt>>

\* The accounts of the transfer hook could not be resolved.
HookFails ==
    /\ pc = "send" /\ HasHook /\ next = ActionIndex /\ attempt = 0
    /\ GiveUp("ACCOUNT_NOT_FOUND")
    /\ UNCHANGED <<wireVars, attempt>>

\* Variant: the accounts a proof was not verified into are not reported.
UnclosedVerified == closing["flow"].open

\* The accounts an error reports as left open.
Unclosed == closing["flow"].open \cup unverified

\* The result drops what close_proof_accounts says, the error carries it.
CallReturnsAfterClosing ==
    /\ pc = "closing" /\ closing["flow"].st = "done"
    /\ pc' = "returned" /\ outcome' = code
    /\ IF code = "ok"
       THEN UNCHANGED <<leftOpen, closedOut>>
       ELSE leftOpen' = Unclosed /\ closedOut' = closing["flow"].closed
    /\ closing' = [closing EXCEPT !["flow"] = NotClosing]
    /\ UNCHANGED <<chainVars, wireVars, next, attempt, code, verified, unverified, interrupted>>

\* The process stops, or the future of the call is dropped.
Crash ==
    /\ pc \in {"prepare", "send", "closing"}
    /\ pc' = "crashed"
    /\ closing' = [closing EXCEPT !["flow"] = NotClosing]
    /\ UNCHANGED <<chainVars, wireVars, next, attempt, code, verified, unverified, answerVars, interrupted>>

-----------------------------------------------------------------------------
(* recover_proof_accounts, and the network.                                *)

\* Variant: the filter misses the accounts that hold the authority.
RecoverFindsUnverified ==
    /\ closing["recover"].st = "idle"
    /\ \E p \in Proofs : account[p] = "created"
    /\ StartClosing("recover", {p \in Proofs : account[p] = "created"})
    /\ UNCHANGED <<chainVars, wireVars, callVars, interrupted>>

\* Accounts whose first bytes are the payer's key: the verified ones.
RecoverFinds ==
    /\ closing["recover"].st = "idle"
    /\ \E p \in Proofs : account[p] = "verified"
    /\ StartClosing("recover", {p \in Proofs : account[p] = "verified"})
    /\ UNCHANGED <<chainVars, wireVars, callVars, interrupted>>

RecoverReturns ==
    /\ closing["recover"].st = "done"
    /\ closing' = [closing EXCEPT !["recover"] = NotClosing]
    /\ UNCHANGED <<chainVars, wireVars, callVars, interrupted>>

LostTxLands ==
    /\ \E id \in lost : LandTx(id)
    /\ UNCHANGED <<wireVars, callVars, closing, interrupted>>

LostClosesLand ==
    /\ \E ps \in lostCloses : ClosesLand(ps)
    /\ UNCHANGED <<wireVars, callVars, closing, interrupted>>

-----------------------------------------------------------------------------
CallStep ==
    \/ Prepare \/ PrepareFails
    \/ SendLands \/ SendFails \/ SendUnsent \/ SendLost \/ SendAgain \/ SendExpires
    \/ HookFails \/ CallReturnsAfterClosing

CloseStep(w) == CloseLands(w) \/ CloseFails(w) \/ CloseLost(w) \/ CloseAgain(w)

Next ==
    \/ CallStep \/ Crash
    \/ \E w \in Closers : CloseStep(w)
    \/ RecoverFinds \/ RecoverReturns
    \/ LostTxLands \/ LostClosesLand

Spec == Init /\ [][Next]_vars

\* Every await is answered one way or another; the payer runs recovery as long
\* as it finds accounts, and not every one of its transactions fails.
FairSpec ==
    /\ Spec
    /\ WF_vars(CallStep)
    /\ \A w \in Closers : WF_vars(CloseStep(w))
    /\ WF_vars(RecoverFinds) /\ WF_vars(RecoverReturns)
    /\ SF_vars(CloseLands("recover"))

-----------------------------------------------------------------------------
(* Properties.                                                             *)

ErrorCodes == {"TRANSACTION_FAILED", "TRANSACTION_EXPIRED", "RPC_ERROR", "ACCOUNT_NOT_FOUND"}

ClosingRec ==
    [st: {"idle", "send", "done"}, sending: SUBSET Proofs, singles: SUBSET Proofs,
     rest: SUBSET Proofs, closed: SUBSET Proofs, open: SUBSET Proofs]

\* Types of the variables.
TypeOK ==
    /\ account \in [Proofs -> {"none", "created", "verified", "closed"}]
    /\ setting \in Settings /\ paidBy \subseteq Sends /\ lost \subseteq TxId
    /\ lostCloses \subseteq SUBSET Proofs
    /\ pc \in {"prepare", "send", "closing", "returned", "crashed"}
    /\ next \in 1..Len(Plan) /\ attempt \in Sends
    /\ code \in ErrorCodes \cup {"none", "ok"}
    /\ outcome \in ErrorCodes \cup {"none", "ok", "REJECTED"}
    /\ verified \subseteq Proofs /\ unverified \subseteq Proofs
    /\ leftOpen \subseteq Proofs /\ closedOut \subseteq Proofs
    /\ closing \in [Closers -> ClosingRec]
    /\ interrupted \in BOOLEAN

\* What the answer of the call says, as module Payment has it and the error codes
\* are described: every error but RPC_ERROR that nothing was paid, and that the call
\* can be made again.
AnswerOf ==
    CASE outcome = "none" -> "none"
      [] outcome = "ok" -> "paid"
      [] outcome = "RPC_ERROR" -> "unknown"
      [] OTHER -> "unpaid"

\* A send of the transfer or withdraw that may still land was taken for expired.
WrongExpiry ==
    \E n \in Sends :
        <<ActionIndex, n>> \in lost /\ (n < attempt \/ code = "TRANSACTION_EXPIRED")

\* ProofSetup::fail, abandon: unless a transaction was lost, every proof account
\* still open when an error is returned is named in left_open, the one whose
\* proof was not verified included.  (TypeOK is a conjunct.)
ErrorNamesOpenAccounts ==
    /\ TypeOK
    /\ outcome \in ErrorCodes /\ lost = {} => \A p \in Proofs : Exists(p) => p \in leftOpen

\* close_proof_accounts: when its transactions fail only because the chain
\* refuses them, an error leaves no verified proof account open, whatever
\* recover_proof_accounts closed in between: the one by one retry separates
\* the accounts that can be closed from those that cannot.
ErrorLeavesNoneVerified ==
    outcome \in ErrorCodes /\ lost = {} /\ ~interrupted
        => \A p \in Proofs : account[p] # "verified"

\* A call that does not crash returns.
CallReturns == <>(pc \in {"returned", "crashed"})

\* recover_proof_accounts: after a call, however it ended, there is always again a
\* time when no proof account holds a verified proof: each of them gets closed.
RecoveryCloses ==
    pc \in {"returned", "crashed"} ~> \A p \in Proofs : account[p] # "verified"

Promise == INSTANCE Payment WITH Payments <- Sends, paid <- paidBy, answer <- AnswerOf

\* Sender::send, ProofSetup::fail: the call keeps the promise of module Payment to the
\* letter, "safe to retry" included, unless the transfer or withdraw itself was wrongly
\* taken for expired.  Then it may be paid after an error that says it was not, but
\* never twice, and "ok" still means paid.
KeepsPromise ==
    /\ Promise!Init
    /\ [][Promise!Next \/ (WrongExpiry /\ Promise!BreakPromise)]_<<paidBy, AnswerOf>>
=============================================================================
