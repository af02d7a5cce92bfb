------------------------------ MODULE ProofFlow ------------------------------
(***************************************************************************)
(* One call of transfer() or withdraw(): withRetries runs attempts, each   *)
(* attempt signs the whole Plan and executeProofFlow sends it transaction  *)
(* by transaction; a failing step is cleaned up by closeProofAccounts.     *)
(* Beside it runs recoverProofAccounts, started by the same payer at any   *)
(* time.  A transaction whose confirmation is lost may still land later,   *)
(* and the process may stop between any two steps.                         *)
(***************************************************************************)
EXTENDS Naturals, FiniteSets, Sequences

CONSTANTS
    Proofs,      \* the proof context accounts of one attempt
    Plan,        \* the transactions of one attempt, in the order they are sent
    Retries,     \* SendOptions.retries
    BatchSize,   \* CLOSES_PER_TRANSACTION
    MaxLostCloses \* bound on the batches of closes whose confirmation is lost

\* A planned transaction: the proof accounts it creates, verifies and closes,
\* and whether it carries the transfer or withdraw instruction.
PlannedTx == [create: SUBSET Proofs, verify: SUBSET Proofs,
              act: BOOLEAN, close: SUBSET Proofs]

ASSUME RetriesAssumption == Retries \in Nat
ASSUME BatchAssumption   == BatchSize \in Nat \ {0}
ASSUME LostAssumption    == MaxLostCloses \in Nat
ASSUME ProofsAssumption  == IsFiniteSet(Proofs)

\* getConfidential{Transfer,Withdraw}ProofFlow: setup (create, then verify,
\* possibly in two transactions), then one action, then cleanup.
ASSUME PlanAssumption ==
    /\ Plan \in Seq(PlannedTx)
    /\ \E i \in 1..Len(Plan) : Plan[i].act
    /\ \A i, j \in 1..Len(Plan) : Plan[i].act /\ Plan[j].act => i = j
    /\ \A p \in Proofs : \E i \in 1..Len(Plan) : p \in Plan[i].close

\* actionIndex: the transaction that holds flow.action
ActionIndex == CHOOSE i \in 1..Len(Plan) : Plan[i].act

Attempts == 0..Retries
Address  == Attempts \X Proofs           \* every attempt generates new keypairs
TxId     == Attempts \X (1..Len(Plan))
Closers  == {"flow", "recover"}          \* the two callers of closeProofAccounts

VARIABLES
    \* on chain
    account,     \* Address -> "none", "created", "verified" or "closed"
    landed,      \* the planned transactions that landed, and succeeded
    \* on the wire
    lost,        \* planned transactions sent, whose confirmation was never seen
    lostCloses,  \* batches of closes sent, whose confirmation was never seen
    \* the call
    pc, attempt, next, code,
    outcome, leftOpen, closedOut,   \* what the caller of transfer() gets
    \* closeProofAccounts, once per caller
    closing

chainVars == <<account, landed>>
wireVars  == <<lost, lostCloses>>
answerVars == <<outcome, leftOpen, closedOut>>
callVars  == <<pc, attempt, next, code, answerVars>>
vars      == <<chainVars, wireVars, callVars, closing>>

NotClosing == [st |-> "idle", asked |-> {}, existing |-> {}, todo |-> {}, closed |-> {}]

Init ==
    /\ account = [a \in Address |-> "none"]
    /\ landed = {}
    /\ lost = {} /\ lostCloses = {}
    /\ pc = "prepare" /\ attempt = 0 /\ next = 1
    /\ code = "none" /\ outcome = "none" /\ leftOpen = {} /\ closedOut = {}
    /\ closing = [w \in Closers |-> NotClosing]

-----------------------------------------------------------------------------
(* The chain: what a planned transaction, or a batch of closes, does.      *)

AddressesOf(n, P) == {n} \X P

Exists(a) == account[a] \in {"created", "verified"}

\* Every instruction of transaction id succeeds: it creates accounts that do
\* not exist, verifies into created ones, acts on verified proofs and closes
\* verified ones.
Applies(id) ==
    LET n  == id[1]
        tx == Plan[id[2]]
    IN  /\ \A p \in tx.create : account[<<n, p>>] = "none"
        /\ \A p \in tx.verify \ tx.create : account[<<n, p>>] = "created"
        /\ tx.act => \A p \in Proofs \ tx.verify : account[<<n, p>>] = "verified"
        /\ \A p \in tx.close \ tx.verify : account[<<n, p>>] = "verified"

\* The accounts after transaction id.
AfterTx(id) ==
    LET n  == id[1]
        tx == Plan[id[2]]
    IN  [a \in Address |->
            CASE a \in AddressesOf(n, tx.close)  -> "closed"
              [] a \in AddressesOf(n, tx.verify \ tx.close) -> "verified"
              [] a \in AddressesOf(n, tx.create \ (tx.verify \cup tx.close)) -> "created"
              [] OTHER -> account[a]]

LandTx(id) ==
    /\ Applies(id)
    /\ id \notin landed
    /\ account' = AfterTx(id)
    /\ landed' = landed \cup {id}

\* A context account closes only when it holds a verified context whose
\* authority signs; one transaction closes the whole batch or none of it.
BatchCloses(batch) == \A a \in batch : account[a] = "verified"

AfterCloses(batch) == [a \in Address |-> IF a \in batch THEN "closed" ELSE account[a]]

-----------------------------------------------------------------------------
(* transfer / withdraw: one attempt.                                       *)

\* The attempt reads the accounts, checks them, builds the proofs and gets
\* every transaction signed: nothing is sent yet.
Prepare ==
    /\ pc = "prepare"
    /\ pc' = "send"
    /\ next' = 1
    /\ code' = "none"
    /\ UNCHANGED <<chainVars, wireVars, attempt, answerVars, closing>>

\* A check fails, an RPC read fails or a signer declines: the call throws
\* an error that is not retryable and names no proof accounts.
PrepareFails ==
    /\ pc = "prepare"
    /\ pc' = "returned"
    /\ outcome' = "REJECTED"
    /\ UNCHANGED <<chainVars, wireVars, attempt, next, code, leftOpen, closedOut, closing>>

\* simulateAndSend returned a signature.
StepLands ==
    /\ pc = "send" /\ next <= Len(Plan)
    /\ LandTx(<<attempt, next>>)
    /\ next' = next + 1
    /\ UNCHANGED <<wireVars, pc, attempt, code, answerVars, closing>>

\* The catch of executeProofFlow: remember the error, start closeProofAccounts
\* for all the addresses of the flow.
Catch(c) ==
    /\ pc' = "cleanup"
    /\ code' = c
    /\ closing' = [closing EXCEPT !["flow"] =
                     [NotClosing EXCEPT !.st = "read", !.asked = AddressesOf(attempt, Proofs)]]
    /\ UNCHANGED <<chainVars, attempt, next, answerVars>>

\* Failed in simulation, refused on chain, or could not be sent at all.
StepFails ==
    /\ pc = "send" /\ next <= Len(Plan)
    /\ Catch("TRANSACTION_FAILED")
    /\ UNCHANGED wireVars

\* BLOCK_HEIGHT_EXCEEDED: it did not land and no longer can.
StepExpires ==
    /\ pc = "send" /\ next <= Len(Plan)
    /\ Catch("TRANSACTION_EXPIRED")
    /\ UNCHANGED wireVars

\* Sent, then an error other than expiry while waiting for confirmation.
StepLost ==
    /\ pc = "send" /\ next <= Len(Plan)
    /\ Catch("TRANSACTION_FAILED")
    /\ lost' = lost \cup {<<attempt, next>>}
    /\ UNCHANGED lostCloses

\* Every transaction landed.
FlowReturns ==
    /\ pc = "send" /\ next > Len(Plan)
    /\ pc' = "returned"
    /\ outcome' = "ok"
    /\ UNCHANGED <<chainVars, wireVars, attempt, next, code, leftOpen, closedOut, closing>>

\* Variant: a batch that failed is forgotten.
LeftOpenForgetsBatch(w) == closing[w].todo

\* closeProofAccounts is done; its leftOpen result.
LeftOpenOf(w) == closing[w].existing \ closing[w].closed

\* The action transaction landed: only its cleanup did not.
ActionLanded == next > ActionIndex

\* Variants: every failed attempt runs again; the attempts have no limit.
RetryableAnyFailure == attempt < Retries
RetryableForever == code = "TRANSACTION_EXPIRED"

\* withRetries: only an expired attempt runs again, at most Retries times.
Retryable == code = "TRANSACTION_EXPIRED" /\ attempt < Retries

CleanupReturns ==
    /\ pc = "cleanup" /\ closing["flow"].st = "done"
    /\ ActionLanded \/ ~Retryable
    /\ pc' = "returned"
    /\ outcome' = IF ActionLanded THEN "ok" ELSE code
    /\ leftOpen' = LeftOpenOf("flow")
    /\ closedOut' = closing["flow"].closed
    /\ closing' = [closing EXCEPT !["flow"] = NotClosing]
    /\ UNCHANGED <<chainVars, wireVars, attempt, next, code>>

\* Variant: the attempts are not counted.
CleanupRetriesUncounted ==
    /\ pc = "cleanup" /\ closing["flow"].st = "done"
    /\ ~ActionLanded /\ Retryable
    /\ pc' = "prepare"
    /\ closing' = [closing EXCEPT !["flow"] = NotClosing]
    /\ UNCHANGED <<chainVars, wireVars, attempt, next, code, answerVars>>

CleanupRetries ==
    /\ pc = "cleanup" /\ closing["flow"].st = "done"
    /\ ~ActionLanded /\ Retryable
    /\ pc' = "prepare"
    /\ attempt' = attempt + 1
    /\ closing' = [closing EXCEPT !["flow"] = NotClosing]
    /\ UNCHANGED <<chainVars, wireVars, next, code, answerVars>>

\* The process that runs the call stops.  Stopping while a transaction is in
\* flight is StepLost or CloseBatchLost followed by this.
Crash ==
    /\ pc \in {"prepare", "send", "cleanup"}
    /\ pc' = "crashed"
    /\ closing' = [closing EXCEPT !["flow"] = NotClosing]
    /\ UNCHANGED <<chainVars, wireVars, attempt, next, code, answerVars>>

-----------------------------------------------------------------------------
(* closeProofAccounts, for either caller w.                                *)

\* getMultipleAccounts: keep the addresses that exist and belong to the ZK
\* program, whether or not a proof was verified into them.
CloseReads(w) ==
    /\ closing[w].st = "read"
    /\ LET existing == {a \in closing[w].asked : Exists(a)}
       IN  closing' = [closing EXCEPT ![w] =
                         [@ EXCEPT !.st = IF existing = {} THEN "done" ELSE "send",
                                   !.existing = existing, !.todo = existing]]
    /\ UNCHANGED <<chainVars, wireVars, callVars>>

\* The read fails: every address is reported as left open.
CloseReadFails(w) ==
    /\ closing[w].st = "read"
    /\ closing' = [closing EXCEPT ![w] = [@ EXCEPT !.st = "done", !.existing = closing[w].asked]]
    /\ UNCHANGED <<chainVars, wireVars, callVars>>

\* The slices of CLOSES_PER_TRANSACTION addresses, the last one shorter.
NextBatches(w) ==
    {b \in SUBSET closing[w].todo :
        /\ b # {}
        /\ \/ Cardinality(b) = BatchSize
           \/ Cardinality(b) < BatchSize /\ b = closing[w].todo}

AfterBatch(w, b, closedNow) ==
    [closing EXCEPT ![w] =
        [@ EXCEPT !.todo = closing[w].todo \ b, !.closed = closing[w].closed \cup closedNow,
                  !.st = IF closing[w].todo = b THEN "done" ELSE "send"]]

CloseBatchLands(w) ==
    /\ closing[w].st = "send"
    /\ \E b \in NextBatches(w) :
          /\ BatchCloses(b)
          /\ account' = AfterCloses(b)
          /\ closing' = AfterBatch(w, b, b)
    /\ UNCHANGED <<landed, wireVars, callVars>>

\* Variant: a batch that failed is reported as closed.
CloseBatchFailsSilently(w) ==
    /\ closing[w].st = "send"
    /\ \E b \in NextBatches(w) : closing' = AfterBatch(w, b, b)
    /\ UNCHANGED <<chainVars, wireVars, callVars>>

\* The batch fails (one account that cannot be closed fails all of them):
\* the error is swallowed.
CloseBatchFails(w) ==
    /\ closing[w].st = "send"
    /\ \E b \in NextBatches(w) : closing' = AfterBatch(w, b, {})
    /\ UNCHANGED <<chainVars, wireVars, callVars>>

\* The batch is sent and its confirmation lost: swallowed as well.
CloseBatchLost(w) ==
    /\ closing[w].st = "send"
    /\ Cardinality(lostCloses) < MaxLostCloses
    /\ \E b \in NextBatches(w) :
          /\ closing' = AfterBatch(w, b, {})
          /\ lostCloses' = lostCloses \cup {b}
    /\ UNCHANGED <<chainVars, lost, callVars>>

-----------------------------------------------------------------------------
(* recoverProofAccounts.                                                   *)

\* Variant: every account of the ZK program, also one that holds no proof yet.
RecoverFindsUnverified ==
    /\ closing["recover"].st = "idle"
    /\ LET found == {a \in Address : Exists(a)}
       IN  /\ found # {}
           /\ closing' = [closing EXCEPT !["recover"] =
                            [NotClosing EXCEPT !.st = "read", !.asked = found]]
    /\ UNCHANGED <<chainVars, wireVars, callVars>>

\* getProgramAccounts filtered by the authority at offset 0: an account into
\* which no proof was verified does not hold the authority yet.
RecoverFinds ==
    /\ closing["recover"].st = "idle"
    /\ LET found == {a \in Address : account[a] = "verified"}
       IN  /\ found # {}
           /\ closing' = [closing EXCEPT !["recover"] =
                            [NotClosing EXCEPT !.st = "read", !.asked = found]]
    /\ UNCHANGED <<chainVars, wireVars, callVars>>

RecoverReturns ==
    /\ closing["recover"].st = "done"
    /\ closing' = [closing EXCEPT !["recover"] = NotClosing]
    /\ UNCHANGED <<chainVars, wireVars, callVars>>

-----------------------------------------------------------------------------
(* The network: a transaction given up on lands after all.                 *)

LostTxLands ==
    /\ \E id \in lost : LandTx(id)
    /\ UNCHANGED <<wireVars, callVars, closing>>

LostClosesLand ==
    /\ \E b \in lostCloses : BatchCloses(b) /\ account' = AfterCloses(b)
    /\ UNCHANGED <<landed, wireVars, callVars, closing>>

-----------------------------------------------------------------------------
CallStep ==
    \/ Prepare \/ PrepareFails
    \/ StepLands \/ StepFails \/ StepExpires \/ StepLost
    \/ FlowReturns \/ CleanupReturns \/ CleanupRetries

CloseStep(w) ==
    \/ CloseReads(w) \/ CloseReadFails(w)
    \/ CloseBatchLands(w) \/ CloseBatchFails(w) \/ CloseBatchLost(w)

Next ==
    \/ CallStep
    \/ Crash
    \/ \E w \in Closers : CloseStep(w)
    \/ RecoverFinds \/ RecoverReturns
    \/ LostTxLands \/ LostClosesLand

Spec == Init /\ [][Next]_vars

(* Fairness: every await of a call that has not crashed is answered, one   *)
(* way or another; the payer keeps running recoverProofAccounts while it   *)
(* reports accounts left open, and the network does not fail its reads and *)
(* its closing transactions for ever.                                      *)
Fairness ==
    /\ WF_vars(CallStep)
    /\ \A w \in Closers : WF_vars(CloseStep(w))
    /\ WF_vars(RecoverFinds) /\ WF_vars(RecoverReturns)
    /\ SF_vars(CloseReads("recover"))
    /\ SF_vars(CloseBatchLands("recover"))

FairSpec == Spec /\ Fairness

-----------------------------------------------------------------------------
(* Properties.                                                             *)

Acted(n) == <<n, ActionIndex>> \in landed
PaidBy   == {n \in Attempts : Acted(n)}     \* the attempts whose action landed
Paid     == PaidBy # {}

ClosingRec == [st: {"idle", "read", "send", "done"}, asked: SUBSET Address,
               existing: SUBSET Address, todo: SUBSET Address, closed: SUBSET Address]

Codes == {"none", "TRANSACTION_FAILED", "TRANSACTION_EXPIRED"}

\* Types of the variables.
TypeOK ==
    /\ account \in [Address -> {"none", "created", "verified", "closed"}]
    /\ landed \subseteq TxId
    /\ lost \subseteq TxId
    /\ lostCloses \subseteq SUBSET Address
    /\ pc \in {"prepare", "send", "cleanup", "returned", "crashed"}
    /\ attempt \in Attempts
    /\ next \in 1..(Len(Plan) + 1)
    /\ code \in Codes
    /\ outcome \in Codes \cup {"ok", "REJECTED"}
    /\ leftOpen \subseteq Address /\ closedOut \subseteq Address
    /\ closing \in [Closers -> ClosingRec]

\* withRetries and executeProofFlow: one call pays at most once, over all its
\* attempts, whatever is lost, expires or lands late.
PaysAtMostOnce == \A n, m \in Attempts : Acted(n) /\ Acted(m) => n = m

\* The answer of the call can be relied on, now and later: a result means the
\* transfer or withdraw landed; TRANSACTION_EXPIRED ("nothing from it landed;
\* it is safe to run again") and an error thrown before sending mean it did not.
AnswerIsTrue ==
    /\ outcome = "ok" => Paid
    /\ outcome \in {"TRANSACTION_EXPIRED", "REJECTED"} => ~Paid

\* closeProofAccounts: every proof account of the last attempt that is still
\* open when the call returns is named in leftOpen, as long as no transaction
\* that could still create one was lost.
LeftOpenIsReported ==
    pc = "returned" /\ lost = {}
        => \A p \in Proofs : Exists(<<attempt, p>>) => <<attempt, p>> \in leftOpen

\* When the action transaction also closes its proof accounts, an error that
\* reports proof accounts as closed is final: the lost action can no longer
\* land, because its proofs are gone.
CleanedUpMeansNotPaid ==
    outcome = "TRANSACTION_FAILED" /\ closedOut # {} => ~Paid

\* A call that does not crash returns: the retries are bounded and so is the
\* work of each attempt.
CallReturns == <>(pc \in {"returned", "crashed"})

\* recoverProofAccounts: once the call is over, every proof account that holds
\* a verified context is eventually closed and its rent returned.
RecoveryCloses ==
    \A a \in Address :
        pc \in {"returned", "crashed"} /\ account[a] = "verified" ~> account[a] = "closed"

-----------------------------------------------------------------------------
(* Refinement: the call keeps the promise of module Payment.               *)

AnswerOf ==
    CASE outcome = "none" -> "none"
      [] outcome = "ok" -> "paid"
      [] outcome \in {"TRANSACTION_EXPIRED", "REJECTED"} -> "unpaid"
      [] OTHER -> "unknown"

Promise == INSTANCE Payment WITH Payments <- Attempts, paid <- PaidBy, answer <- AnswerOf

\* The call implements Payment: no step of the executor, of a retry, of
\* recovery or of the network pays twice, or pays after the caller was told
\* that nothing landed.
KeepsPromise == Promise!Spec
=============================================================================
