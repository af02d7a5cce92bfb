# confidential-sdk: models, checks and proofs

This directory holds TLA+ specifications of the parts of confidential-sdk whose
correctness depends on order, failure and concurrency: the calls that move
confidential balances of Token-2022 accounts, and the several-transaction flows
behind `transfer` and `withdraw`, in the TypeScript SDK (`src/`) and in the Rust
crate (`rust/`), and of the programs in the repository that are built on them: a vault
program, a web app and the playground. TLC checks them on small instances, TLAPS proves the most
important statements for every instance.

Paths below are relative to the repository root.

## 1. The system

| Component | State | Operations | Hard behaviours |
|---|---|---|---|
| Executor of `transfer`/`withdraw` (`src/internal/send.ts`) | the position in the plan, the attempt, the proof accounts of the attempt | `executeProofFlow`, `simulateAndSend`, `closeProofAccounts`, `withRetries` | one of several transactions fails or expires; the confirmation of one that was sent is lost and it lands later; retry with new proof accounts; cleanup that fails itself; the process stops |
| Recovery (`src/recoverProofAccounts.ts`) | none | find the payer's proof accounts, close them | runs while a transfer of the same payer runs |
| Confidential balances (`configureAccount.ts`, `deposit.ts`, `applyPendingBalance.ts`, `transfer.ts`, `withdraw.ts`, `decryptBalance.ts`, `internal/accounts.ts`, `internal/ownerKeys.ts`) | on chain: public balance, pending balance in two halves, credit counter, available balance, the owner's AES copy of it, approval, credits switch | read, check, sign, send, retry | what was read is stale when the transaction lands; counter and amount limits; two calls on one account |
| Proof construction (`src/internal/confidentialTransferProof.ts`, `confidentialTransferArithmetic.ts`) | none | plan of transactions, split amounts, ciphertext arithmetic | amounts split at 16 bits; which ciphertext a proof is about |
| Signing together (`signTransactionMessagesTogether`, `send.ts`) | transactions being signed | partial signers concurrently, modifying signers in order | shared state written after an await |
| Auditor report (`src/auditorReport.ts`) | a page cursor | page back, decrypt, sort | transactions arriving while paging, missing block times |
| WebAssembly loader (`src/internal/zk.web.ts`) | one promise | load once | concurrent first use, a failed load |
| Web app (`examples/vite/src`), key derivation (`src/keys.ts`) | the wallet, its keys, the decimals of a mint, the inputs | connect, unlock, seven buttons | inputs edited and wallets changed while a call is awaited; a wallet that signs something else |
| Transfer hooks (`src/internal/transferHook.ts`) | none | read the hook, its list and the data in seeds; resolve the accounts | entries that refer to each other or to nothing; a chain that changes between the reads |
| Rust crate: single transactions (`rust/src/client.rs`, `accounts.rs`, `send.rs`) | as the balances | the same calls | sends the same instructions again after what it takes for an expiry, without reading again; both may land |
| Rust crate: flows (`rust/src/client.rs`, `proofs.rs`, `send.rs`) | `ProofSetup` (verified, unverified), send attempts | `create`, `fail`, `run_with_proofs`, `abandon`, `close_proof_accounts`, `recover_proof_accounts` | as the executor; an account created but not verified; a transaction that only could not be confirmed |
| Rust `prepare_*` and the Anchor vault (`rust/examples/anchor-vault`) | the vault, its token account, what was prepared | prepare, send the program's instruction, close the proof accounts | proofs prepared for a balance that moves; an instruction sent twice |
| Playground (`playground/src`) | progress in memory and in localStorage | eight steps, retries, reload, resets, watchFunding | a step that failed half way or whose confirmation was lost; concurrent writers of progress |
| Auditor keys, compat wrappers, CLI formatting, other examples | | | cryptography, one-line wrappers, I/O |

How they interact: every call reads accounts through the RPC service, signs with
the owner's and the payer's signers and sends transactions. The chain applies a
transaction whole or not at all, in an order nobody controls. The calls share no
memory: they meet on chain, in the token accounts and in the proof accounts, and
a proof account's authority is the payer, which is how recovery finds it.

What makes each one correct:

- a call moves the money at most once, whatever is lost, expires, is retried or
  lands late, and what it tells the caller stays true;
- the rent of proof accounts is not lost: accounts left open are reported, and
  recovery closes every account that can be closed;
- no call makes or destroys money; the decryptable balance of an account agrees
  with its encrypted balance;
- a call uses the keys of the account it is about, and the accounts of one hook;
- what a page says is done is done, and a retry does not do it again;
- every call returns, and every page can go on.

`PROJECT.json` lists the hazards with their lines.

## 2. Modules

```
Payment      <-- refines -- ProofFlow  <-- MCProofFlow, ProofFlowProofs
             <-- refines -- RustFlow   <-- MCRustFlow, RustFlowProofs
Holdings     <-- refines -- ConfidentialLedger <-- MCLedger, ConfidentialLedgerProofs
AuditorReport                                  <-- MCAuditorReport, CallProofs
SignTogether                                   <-- MCSignTogether, CallProofs
TransferHook                                   <-- MCTransferHook, TransferHookProofs
Vault                                          <-- MCVault, VaultProofs
WasmLoader   <-- extended by -- WebApp         <-- MCWebApp, WebAppProofs
Playground                                     <-- PlaygroundProofs
```

### Payment
What `transfer` and `withdraw` promise, with nothing of how: at most one payment,
and an answer ("paid", "unpaid" or "unknown") that is true when given and later.
`BreakPromise` is the one way in which `RustFlow` may depart from it: a payment after, or
before, the answer "unpaid", and even then only one.

### ProofFlow
One call of the TypeScript `transfer` or `withdraw`. `Plan` is the sequence of
transactions of an attempt, a parameter; `MCProofFlow` gives the plans the code
builds: `WithdrawPlan`, `TransferPlan` and `HookPlan` (a hook's accounts make the
action too large to close the proof accounts too, so that a transaction of its
own follows).

| Model | Code |
|---|---|
| `account` | the proof context accounts on chain: none, created, verified, closed |
| `landed`, `lost`, `lostCloses` | what landed; what was sent, unconfirmed and can still land |
| `pc`, `attempt`, `next`, `code` | the position in `withRetries` and `executeProofFlow` |
| `closing` | the locals of `closeProofAccounts`, one per caller (`flow`, `recover`) |
| `Prepare`, `PrepareFails` | an attempt's reads, checks, proofs and signatures, and any throw among them |
| `StepLands`, `StepFails`, `StepExpires`, `StepLost` | the four ends of `simulateAndSend`: a signature; failed in simulation, on chain or not sent; `BLOCK_HEIGHT_EXCEEDED`; any other error of the wait |
| `CleanupReturns`, `CleanupRetries`, `FlowReturns` | the catch of `executeProofFlow`, the loop of `withRetries` |
| `CloseReads` ... `CloseBatchLost` | `closeProofAccounts`, including the read that fails and the batch that fails, both swallowed |
| `RecoverFinds`, `RecoverReturns` | `recoverProofAccounts` |
| `Crash`, `LostTxLands`, `LostClosesLand` | the environment |

`recoverProofAccounts` that finds nothing changes nothing and is left out.

### RustFlow
The same call of the Rust crate, which works differently: it sends each
transaction again by itself when it expires (`Sender::send`), notes which
accounts hold a proof (`verified`) and which do not (`unverified`), and closes
failed batches one account at a time. `ExpiryIsFinal` says whether what
`is_expiry` takes for an expiry really is one: the text "unable to confirm
transaction", which it also accepts, does not promise it. `interrupted` is a history
variable: the network or the environment, not the chain, kept a close from landing.
`Settings` is the set of calls a run checks together, each with its plan; a behaviour
has one of them (`setting`). With an expiry that is not final the same action
may be sent a second time while the first still lands. Two never do: an action that
closes the proof accounts takes them away, and one that leaves them open spends from the
balance its equality proof is about, which the first one has changed (`Applies`). Both
are checked, and proved. What the call then answers is another matter: `AnswerOf` reads the
error codes as the crate describes them, every one but `RPC_ERROR` as "nothing was paid,
the call can be made again", and `KeepsPromise` holds the code to that except after
`WrongExpiry`, when a send of the action that may still land was taken for expired
(section 6).

| Model | Code |
|---|---|
| `verified`, `unverified` | the fields of `ProofSetup` |
| sends of a transaction, their resends | `Sender::send`, `send_once`, `is_expiry` |
| the closes in batches, then one at a time | `close_proof_accounts`, by `ProofSetup::fail` and by `abandon` |
| recovery | `recover_proof_accounts` |

### ConfidentialLedger and Holdings
The token accounts and any number of concurrent calls on them. A call begins
(arguments checked), reads the accounts and either fails a check or signs what it
computed from them, and then lands, fails, expires or is lost. Between the read and
the landing any other call may land. The multi-transaction part of `transfer` and
`withdraw` is one step here: it is what the two flow modules are about.
`ClientOf` says for each account whether its owner uses the TypeScript SDK or the Rust
crate, which differ in the order of their checks, in what they retry (the whole
attempt from the read; the sending of the same instructions), in their errors and in what
an expiry means, so that one run has both at work on the same chain. In TypeScript it is
final. In Rust `is_expiry` also accepts "unable to confirm transaction": the call sends
again or gives up, and leaves a transaction behind (`inflight` counts them) that may land
before, after or instead of the next one, with the same instructions.
Data is abstract where the cryptography is: a ciphertext is a value with the set of
openings that went into it, so that two ciphertexts of equal value are different
unless they are the same. An equality proof says what a spend leaves (`left`, from the
balance the owner decrypted); it holds when that is what the ciphertext it was made for
leaves, and is accepted only while the account has this ciphertext. The new decryptable
balance (`dec`) is stored as it is given: Token-2022 does not look into it.
`LoBase`, `MaxAmount`, `DecryptMax` and `MaxCounter` stand for 2^16, 2^48-1, 2^32-1
and the account's limit. `Holdings` is the abstract ledger: what an account is
worth in total, moved by one payment at a time.

| Model | Code |
|---|---|
| `Begin` with `ArgumentError` | the argument checks before the first await; `check_amount` |
| `Checks`, `Read`, `ReadFails`, `ReadUnanswered` | an attempt's reads and what it throws, in the order of the code; `Sign` is what goes into the transaction |
| `Confirm`, `Fail`, `LoseTrack`, `Expire` | the ends of `simulateAndSend` and `Sender::send_once`; `Expire` with the loops of `withRetries` and `Sender::send` |
| `LandConfigure` ... `LandWithdraw` | Token-2022 |
| `LandLate`, `Approve`, `ToggleCredits` | the environment: a transaction nobody waits for any more, the mint's authority, the owner's switch |
| `touched`, `drifted`, `landings` | history: which calls were overtaken (by a copy of themselves, too), which accounts an overtaken apply hit, how often each call landed |

### AuditorReport
`listConfidentialActivity` beside a chain that goes on: `history` grows while
`signaturesOf` pages back from the newest signature (`ReadPage`), each page after the
last signature of the one before; then the transactions are fetched in batches
(`FetchBatch`) and turned into entries. Block times may be missing, `since` and `until`
are cut to whole seconds as the code does, `maxTransactions` may be reached anywhere in
a page. `ReportIsExact` compares the report with a definition that looks at the history
of the moment the first page was read, and at nothing else.

### SignTogether
`signTransactionMessagesTogether`. Signers have the interfaces `kind` says. `AskWallet`
and `WalletSigns` are the two sides of the await of `modifyAndSignTransactions`,
`AskPartial` and `PartialSigns` those of `signTransactions`: what a signer was given
(`handed`) and what the transactions have become when it answers are different things.
A signature is a signer with the version of the message it signed.

### TransferHook
`resolveTransferHookAccounts` beside a chain on which the authority of the hook may
change the mint's hook program, the lists and the accounts that seeds read. Each request
is a step (`ReadMint`, `ReadList`, `TakeSeed` for a seed from an account's data), and any
request can fail. An address is its name, or the program and the seeds it was derived
from. `ExactUnlessChanged` compares the result with `Wanted`, a definition over the
whole list that knows nothing of the order of the steps: `HookAddress`, a recursive
function, gives the address of each account from those of the accounts before it, and
`Resolvable` says when there is a result at all; `OneHook` holds also while
everything changes.

| Model | Code |
|---|---|
| `hookProgram`, `metas`, `resolved`, `seeds` | the locals of the same names |
| `ReadMint`, `ReadList` with `Parsed` | `getTransferHookProgram`, `fetchData`, `parseMetaList` |
| `ResolveAddress`, `TakeSeed`, `Derive`, `ThrowForProgram` | `resolveMeta`, `unpackSeeds` |
| `ReturnAccounts`, `RequestFails` | the result; a request that throws |

### Vault
The token account of a program, and the client of its operator. A job is prepared once
(`PrepareConfigure`, `PreparePay`, `ComputeUpdate`), from the account as it is then; its
instruction is sent, perhaps twice, and lands at any later time (`LandConfigure`,
`LandApply`, `LandPay`), among payments of others into the vault. A ciphertext is its
value and the transfers that went into it, as in the ledger: that is what the equality
proof of a payout is about. Reading the account and making the proofs is one step,
because what may happen between them may also happen after them. Failures half way
through a preparation are `RustFlow`'s.

| Model | Code |
|---|---|
| `vault`, `token`, `pending` ... `decryptable` | the accounts on chain |
| `args`, `proofs` | `PreparedConfigure`, `PreparedTransfer`, `PendingBalanceUpdate` and their proof accounts |
| `Close`, `Recover` | `close_proof_accounts`, `recover_proof_accounts` |
| `overtaken`, `drifted` | history: an update was computed before another operation landed; such an update landed |

### WasmLoader and WebApp
`WasmLoader` is the one promise of `zk.web.ts`: who asks first starts the load (`Ensure`),
a load that fails is forgotten before anybody hears of it (`LoadFails`), and the callers'
awaits end (`Ensured`, `EnsureThrows`). `WebApp` extends it with the page of
`examples/vite`, whose first step, and the SDK functions it calls, await that load. Every
await of an action is a step, and between two steps the visitor may edit the mint
(`EditMint`); the wallet that signs the derivation message may answer with anything
(`WalletAnswers` with `GoodSignature`).

| Model | Code |
|---|---|
| `signer`, `keys`, `mintDecimals`, `busy` | the page's globals |
| `Press`, `PressConnect`, `End` | `run`: its start; its catch and finally |
| `MintKnown`, `RefreshMintKnown`, `MintFails` | `currentMint()` returns or throws, and what the button does next |
| `CallSdk`, `Loaded`, `SdkAnswers` | a call of the SDK: made, past the load, answered |
| `Refresh`, `AccountRead`, `Shown` | `refresh()` |
| `GoodSignature`, `WalletAnswers` | `signDerivationMessage`, `confidentialKeysFrom` |

### Playground
The eight steps as sequences of awaited operations, in the order of `STEPS`. `progress` is
`state`, `stored` what `localStorage` holds. A step begins with the first operation that is
not already noted as done (`NextAt`, `Skips`); an operation is answered, refused, fails
with nothing done, or is lost: landed, or going to land later, without the page knowing
(`OpLost`). A reload may come while anything is awaited. The chain is as small as the
steps need: who is configured, whether the policy is set, and the balances of you and Bob
on the two tokens, in halves of the 100 that a step deposits. `blind` and `overtaken`
are history: the operations whose answer the page missed, and that watchFunding's late
answer set `done` back.

| Model | Code |
|---|---|
| `Press`, `Proceed`, `Finish`, `GiveUp` | `run(n)`: up to the first await, after each, at the end, in the catch |
| `Noted`, `Save` | what each step writes into `state`, and `save()` |
| `CallLands`, `OpRefused`, `OpFails`, `OpLost` | the ends of an awaited call; a refusal by Sentinel is what step 8 waits for (`refusal`) |
| `Reload`, `ReloadBroken`, `Reset`, `Unload`, `Starts` | reloads, `resetSimulation`, `restart`, `load` |
| `WatchAnswered`, `WatchWakes` | `watchFunding` |

The definitions called "Variant" in the modules are forms of the code with a
plausible mistake in them; each one breaks the property `PROJECT.json` names.

## 3. Runs

| Run | Instance | Shows |
|---|---|---|
| `flow_transfer` | three proofs, the closes after the action, one retry, one lost batch of closes, a crash, recovery beside | at most one payment, true answers, leftovers reported, refinement of `Payment` |
| `flow_withdraw` | two proofs, the closes in the action's transaction, one retry, fair | an error that closed the accounts is final; the call returns; recovery closes every verified account |
| `rust_flow` | a transfer with a hook, batches of two; a withdraw with expiries that are final, with some that are not, and then also one whose closes follow the action; one resend, fair | open accounts named in errors; the single closes leave no verified account open; one payment and answers as `Payment` has them, unless the action was wrongly taken for expired; the call returns; recovery closes |
| `vault` | two jobs, sent up to twice, two payments in, a hook, fair | of the payouts prepared from one balance one lands; the two balances agree unless an update was overtaken; no payout is held up by a payment in |
| `transfer_hook` | two hook programs, seven lists, two changes during the call, fair | the result is exact; it never mixes two hooks; the call returns |
| `web_app` | two wallets of every kind, two mints, two failing loads, fair | one load for all; keys and decimals are those of the call; the buttons work again |
| `playground` | all eight steps, two faults, with and without localStorage, fair | the progress is true and saved; Mallory is never paid; Bob twice only after a lost confirmation; the visitor gets to the end |
| `ledger_race` | two accounts, one TypeScript and one Rust owner with 6 public and 3 available, three calls of 3, one retry | money is neither made nor lost; the two balances agree unless an apply was overtaken; results are true; low halves stay decryptable |
| `ledger_setup` | one account, three calls from nothing, fair | configure, approval, the credits switch, amounts 0, the maximum and one more: results are true and every call returns |
| `ledger_drift` | one apply, one transfer | section 6 |
| `auditor_report` | up to four transactions, pages of two, fair | the report is exact, whatever arrives meanwhile; the call returns, also with concurrency 0 |
| `sign_together` | three signers of all kinds, two transactions, every assignment of one to the other | what is returned can be sent; no signature is lost |

Bounds and why they are enough. Retries: one retry already has two attempts whose
transactions can both be outstanding; more adds attempts alike. Proofs: a withdraw
has two and a transfer three, as in the code, so nothing is cut there. Batches:
`CLOSES_PER_TRANSACTION` is larger than three, so one flow closes in one batch;
the transfer in `rust_flow` uses batches of two to have several, and the theorem about leftovers
holds for every size. Plans: a plan either closes the accounts with the action or
after it; `flow_transfer` checks the second shape with three proofs, `flow_withdraw` the
first with two, and the theorems of `ProofFlowProofs` hold for every plan. Lost batches: one, because a lost batch only makes the others
fail. The ledger's numbers keep the order the real ones have (`LoBase` <= `DecryptMax`,
an amount has two halves, the counter limit is reached by the credits of one run);
the three calls are one that is overtaken, one that overtakes and one that observes
the result. The Rust owner of `ledger_race` has twice the amount, so that a deposit can land
twice; with one retry a call has two transactions on their way, which is what it takes for
an apply, read at counter 1, to land, be followed by another credit, and land again with
the counter back at 1. The report: two full pages and an empty one, with times
before and at each cut and without a time. Signing: two wallets and one keypair, or one and
two, are the smallest sets in which each can interfere with its own kind and the other;
a transaction is changed at most twice (`MaxBody`), once by each of two wallets.
Hooks: two programs, so that they can be mixed; a list for each kind of entry and each
way of being wrong (longer or shorter than its count, referring to itself or to what is
not there, an unknown kind); two changes (`MaxChanges`), one of which can undo the other.
The vault: two jobs are one that is overtaken and one that overtakes it, two payments
one before and one after a landing, and twice sent (`MaxSent`) is once more than the
operator meant; a vault is also started that is set up and holds a balance, which two
jobs could not bring about. The web app: two wallets and two mints are needed to confuse
them, and the first load and its retry can both fail (`MaxFailures`). The playground: with
two faults (`MaxFaults`) a retry can meet a second fault, or the late landing of the first.
In `RustFlow`, `SignTogether`, `AuditorReport`, `TransferHook`, `WebApp` and `Playground`
the types (`TypeOK`) are checked as a conjunct of the first invariant. Deadlock is checked
in `web_app`, whose page never stops; elsewhere a call that has returned, with nothing
left to land, is the end.

Fairness. `CallStep` and `CloseStep` are weakly fair: every await of a running
call is answered, by a result or by an error (the confirmation strategies end at
the last valid block height, RPC requests time out). Nothing is assumed about which
answer. A crashed call takes no further step. For `RecoveryCloses` the payer keeps
running recovery while there is something to find, and the network is not down for
ever: recovery's read and its closing transactions are strongly fair. Landing of
what was given up on is never fair.

In `web_app` the steps of the page (`AppStep`) and the end of a load (`LoadSettles`) are
weakly fair: a request, a wallet's dialog and a load are answered, somehow. Pressing,
editing and connecting are not. In `transfer_hook` every request is answered; the chain
need not change. In `vault` the operator sends what was prepared (`Send`), and a payout
that was sent and can land does (`LandPay`): without that nothing would have to happen.
In `playground` a page loads or is loaded again after it broke (the banner asks for that),
what a step awaits is answered, the visitor presses the button that is shown, and SOL is
found somewhere (`TopUp`, as the page says when the faucet refuses). Faults are never
fair, and there are at most `MaxFaults`: `Completes` says that after the last of them the
visitor still gets to the end.

## 4. Proofs

`ProofFlowProofs` proves, for every plan that has one action and closes what it
creates (`PlanAssumption`), every finite set of proofs, every number of retries and
every batch size:

- `TypeCorrect`: the types;
- `PaysAtMostOnceHolds`, `AnswerIsTrueHolds`, and `KeepsPromiseHolds`, which is that
  the call implements `Payment`;
- `LeftOpenIsReportedHolds`: what is open at the return is reported;
- `CleanedUpMeansNotPaidHolds`: an error that closed proof accounts is final, in every plan
  whose action closes all of them (`ActionCloses`; in the others it is not so, and
  `flow_withdraw` checks the property for the plan in which it is);
- `CallAdvances`: attempts, parts of an attempt, transactions of the plan and closes run
  out, in this order: nothing a call does can be repeated without end.

The argument for payments is one inductive invariant, `PayInv`: `ControlInv` says
where the call can be for each error code; `LostInv`, that a lost transaction belongs
to an attempt that ended in `TRANSACTION_FAILED`, which is never retried, so that it
belongs to the current attempt, at the current position; `ActedInv`, that an action
landed only in the current attempt and either after its position was passed or from
`lost`. At most one payment follows because an action of an earlier attempt would
have to come from `lost`, and attempts that lose something are the last. The argument
for leftovers is `OpenInv`: accounts that do not belong to the current attempt or lie
ahead in the plan do not exist (`UnsentInv`), what exists was created by a transaction
of this attempt (`SentInv`), and during the cleanup everything that exists is still to
be read, is in `existing`, or was closed (`CleanupInv`). For the finality of an error it is
`CleanedInv`: once the action of an attempt has landed, the accounts of that attempt are
closed (`ActedClosed`), so that a cleanup which closes one of them itself has shown that
the action did not land, and has taken away what it needs to land later (`ProofGone`).

`RustFlowProofs` proves, for every set of calls, each with its own plan of several
transactions (`SettingsAssumption`: only the last one acts, it closes all proof accounts
or none, an account created by one is verified by the next), batch size and client, and
every number of resends:

- `KeepsPromiseHolds`: whatever the client takes for an expiry, the call pays at most
  once, "ok" means paid, and every error but `RPC_ERROR` that it did not and will not, unless
  the action itself was wrongly taken for expired; with it the types (`TypeCorrect`);
- `PromiseIsKeptToTheLetter`: with a client that is right about expiry (`ExpiryIsFinal`) the
  call implements `Payment` without exception;
- `ErrorNamesOpenAccountsHolds` and `ErrorLeavesNoneVerifiedHolds`;
- `CallAdvances`: the plan, the resends and the closes, first in batches and then one by one,
  run out.

The first two follow from `AnswerInv`: where the call is, its error and its answer agree
(`ControlInv`), and when a payment landed the call either says so or has left a send of the
action behind, of which is known why: its confirmation was lost, and the error is
`RPC_ERROR`, or it was taken for expired by a client that can be wrong about it (`PaidInv`,
`LeftFor`). The last two of the list need `CloseInv`, which says what the two lists of
`ProofSetup` know as long as nothing was left behind: while it sends, an account that is
verified is in the list, and one that is only created lies between its two transactions
(`ListsKnowAll`); while it closes, a verified account is still pending, or open because a
close went wrong (`ClosesKnowAll`). `CloserInv` is about the closes one by one: when they
are tried, the transaction that is sent has one account.

`ConfidentialLedgerProofs` proves, for every set of accounts and calls, every amount,
limit and number of retries and every mixture of TypeScript and Rust owners:

- `TypeCorrect`: the types, among them that no balance goes below zero. This is not a
  property of single steps: a spend signs a balance that was checked when it was read
  (`FundsSuffice`: whatever the order of the checks, the funds are among them), and
  lands only on the ciphertext it was made for (`SpendLeaves`);
- `ResultIsTrueHolds`: "ok" means that the call landed. It lands at most once, but a Rust
  deposit, apply or withdraw up to as often as it was sent; and an error means that it never
  landed and never will, except those that leave it open (`Unsure`: the error of a lost
  confirmation and, in Rust, an expiry or a failure after one);
- `AgreesUnlessRacedHolds`: the decryptable balance is the encrypted one unless an
  apply was overtaken by a credit, by another call of the owner or by a copy of itself;
- `MoneyMovesOnceHolds`: the ledger implements `Holdings`, step by step: what an account
  is worth changes by transfers only, each of which moves its amount once;
- `LowPartDecryptsHolds`: the low half of a pending balance stays decryptable.

The inductive invariant is `LedgerInv`. Besides the types it has:
`CallInv`, what a call has done, may still do and has answered, together: the
transactions that landed and those still on their way (`Copies`) are at most one per
attempt in Rust, and in TypeScript none but the last attempt's;
`SignedInv`, that an apply that is signed and was not overtaken by a call of its owner,
itself included, carries the right sum whenever the credit counter is still the one it
read (`LandSeenByOthers`: a landing of anybody else either changes nothing the apply was
computed from or raises the counter; `LandKeepsSigned`: one of the owner's overtakes it);
`SpendInv`, that a spend stores what its proof says is left, which is the SDK's doing and
not Token-2022's; `OnceInv`, why two copies of a transfer cannot both land: the first
leaves its opening in the available balance, and no copy was signed for a balance that
has it; and `AgreesUnlessRaced` itself, which needs `SignedInv` when an apply lands
and `SpendInv` when a spend does. The refinement needs besides that a transfer which goes
on has an amount and is not to its own account (`RequestInv`), and that joining the halves after a credit adds the amount (`CreditAdds`);
the low half is bounded by the number of credits that went into it (`PendingInv`).

`VaultProofs` proves, for every set of jobs and payments, every amount and limit and any
number of times an instruction is sent:

- `TypeCorrect`: the types, among them that no balance goes below zero. It needs
  `PreparedInv` (a payout was prepared from a balance that suffices, for exactly what it
  leaves) and `IdleInv` (a job that is not prepared has not landed);
- `OnePayoutPerBalanceHolds`, from `OpeningsInv`: the available balance contains every
  payout that landed and none that did not, only grows in what it contains, and does not
  contain a payout that was prepared from it. So a landed payout, sent again, or another
  one prepared from the same balance, is about a balance the account no longer holds.
  A payment has no name of a payout (`NameAssumption`), or an apply could bring one in;
- `AgreesUnlessOvertakenHolds`, from `UpdateInv`: an update that was not overtaken carries
  the right sum as long as the credit counter is the one it was computed for. An operation
  of the vault that lands overtakes all updates computed before, a payment in raises the
  counter.

`WebAppProofs` proves, for every set of wallets, mints and callers, all decimals and any
number of failed loads:

- `OneLoadForAllHolds`, from `LoaderInv`: the only load that has not failed is the one
  whose promise `loading` holds, so that nobody starts a second one beside it. The lemma
  is about `LoaderStep`, what callers and the network do to the load;
  `PageStepsLoader` shows that whatever the page does is one of its steps or none;
- `KeysAreTheOwnersHolds` (the types with it) and `OneMintPerCallHolds`, from `PageInv`:
  a call exists only while it is awaited, so no wallet is connected meanwhile; what
  `currentMint` returned is still about `wanted` when it is used; and the message is
  only signed after a press of the button for it, which needs a wallet.

`CallProofs` has the proofs of the two calls that stand alone. Of `SignTogether` it proves,
for every number of signers of every kind, every set of transactions and every assignment
of one to the other, `ReturnedCanBeSentHolds` (the types with it) and `FailsForAReasonHolds`. The invariant is `SignInv`. Whoever is asked was handed
the transactions as they are now (`AskedInv`): a wallet is alone while it is asked, and
keypairs, which are asked together, change nothing. Every wallet has answered before the
first keypair is asked (`StageInv`). So whoever has answered has signed, and what is signed
is the final message, as long as no wallet changed what another had signed (`SignedInv`).

Of `AuditorReport` it proves, for every history that grows as it likes, every input and every
size of a page:

- `ReportIsExactHolds` (the types with it): the report is the one the definition of
  `Wanted` gives for the history of the moment the first page was read;
- `CallStepsAdvance`: no turn of the loop over the pages or of the loop over the batches is
  in vain, for every concurrency that is asked for, zero included.

The invariant is `ReportInv`. Block times do not go back (`TimesInv`), so that one signature
that is too old ends the search rightly, also when the node does not know some of the times.
While the call pages (`PagesInv`), `out` descends and is exactly what is not skipped between
the cursor and `seen`, and nothing there is too old; when it stops, what it has is what is
wanted (`ReadIsWanted`: either everything below is too old, or `maxTransactions` newer ones
were counted). While it fetches (`FetchInv`), each list of entries belongs to the signature at
the same place. What `FlattenSeq` and `Reverse` make of these (`FlattenIs`,
`FlattenSkipsEmpty`, `FilterIs`, `DescendingConcat`) is induction over the data, done by the
least counterexample (`Least`, `OverInterval`): a recursive definition of the library that
binds a function by CHOOSE can be expanded, and its values followed one index at a time.
For this `Kept` and `EntriesOf` are written with `FlattenSeq`; the provers know
no facts about `SelectSeq`.

`TransferHookProofs` proves, for all programs, lists of any length, data and numbers of
changes (`HookAssumption` says what a list looks like, not that it is a good one):

- `OneHookHolds`: the accounts are of one hook, while the chain changes as it likes;
- `ExactUnlessChangedHolds`: without a change the result is the one of the reference
  definition, errors included.

The first is `OneHookInv`: what has been derived so far comes from the program that was
read. The second is `ExactInv`: the accounts resolved so far satisfy the equation that
defines `HookAddress`, and the entries so far are ones that can be resolved. That the
equation has a solution (`AddressesExist`), and only one (`HookAddressUnique`), is an
induction over the list, done by its least counterexample (`Least`), which needs no
induction theorem.

`PlaygroundProofs` proves, for any number of faults, reloads and resets:

- `MalloryNeverPaidHolds`, from `MalloryInv`: wherever Mallory has an account the policy is
  set, because it is only configured, by the running step or by a call that can still
  land, after stage 2 was noted;
- `PaysAgainOnlyBlindHolds`, from `PaysInv`: until a payment goes out of the page's sight
  none can land late, and one that landed is noted and not made again;
- `SavedIsOnChainHolds`, from `SavedInv`: what each operation leaves behind once it was done
  or left out (`Passed`), what the notes stand for (`NotesTrue`) and what the counted steps
  stand for (`DoneTrue`). Late landings are why it is not simply the property: each of
  these statements is one that no call but a new mint takes back (`Keeps`), and for that
  the calls in flight must move something (`Fine`), and what Bob was paid must have
  reached him where his page will see it (`Reached`).

All three go over nine kinds of steps instead of the actions (`KindOfStep`: what an action
does to the chain, to the progress and to the running step). `TypeInv` has the types, and
that a step runs only on a loaded page, after the one that was done last, and awaits what
was not done before. The tables at the start (`SkipTable`, `NoteTable`, `IsAt`) are the step
definitions, operation by operation, and proved to be.

Only model-checked: the liveness properties (`CallReturns`, `RecoveryCloses`,
`CallsReturn`, `PayoutGoesThrough`, `RunEnds`, `Completes`), because fairness and ENABLED are
out of the prover's reach. Every invariant and every action property that a run
expects to hold is the statement of a theorem. For the calls of `ProofFlow`,
`RustFlow` and `AuditorReport` the half of `CallReturns` that has no fairness in it is proved:
`CallAdvances` (twice) and `CallStepsAdvance` say that each step of the call goes down an
order without endless descent, and that nobody else's step takes it back up. What they leave to
TLC is that such a step is always possible before the end, and taken.

What the constants are assumed to be is in the named assumptions of the modules, which
their runs evaluate. They restrict the calls only as the code does: `PlanAssumption` and
`SettingsAssumption` are what the plans built by the code have in common, `NameAssumption`
keeps two sets of names apart, and the others give numbers and sets their types.

## 5. Assumptions and what is left out

- `BLOCK_HEIGHT_EXCEEDED` is final in the TypeScript SDK: the transaction's last valid
  block height has passed on the node that is asked, "Nothing from it landed"
  (`src/internal/send.ts:174`). Rust's looser test is the parameter `ExpiryIsFinal` of
  `RustFlow`; in `ConfidentialLedger` a Rust expiry is never final, which includes that
  nothing of it lands.
- In `ConfidentialLedger` the transactions that set up a Rust transfer or withdraw and the
  one that acts are one step, so that a withdraw sent again may land twice when the
  available balance is back at the value its proof is about. On chain its proof accounts
  must still be open then; `RustFlow` has them.
- The chain: Token-2022 and the ZK ElGamal Proof program are not in the repository and
  are modelled from how the code uses them (marked external in `PROJECT.json`).
- A wallet may change a transaction that another wallet signed before it, and the code
  cannot tell: it checks that the signatures are there, not what they sign. `SignTogether`
  keeps this in `overwrote`, and its statements except that case.
- The report is checked for a chain that does not drop confirmed transactions, and the
  wanted transactions are those within `since` and `until` cut to whole seconds.
- A transfer reads source and destination in one step; an account that sends to itself
  is left out.
- In `Vault` a recipient takes every payout, the mint approves accounts by itself, as the
  example's does, and the vault does not pay itself. `prepare_withdraw` is left out: the
  vault program has no withdraw.
- In `Playground` a call of the SDK is one operation that lands or does not, transactions
  of another session of the same wallet do not exist, and the amounts are halves of what
  was deposited.
- The web app's wallets do not disappear and do not change their account.
- Cryptography (curves, proofs, the derivation of keys from a signature), the auditor's
  decryption, formatting, the command line, the layout and texts of the pages, the
  polling of signatures in `playground/src/polling.js`, the other examples and build
  scripts are not modelled: they are computation or I/O without steps that interleave.

## 6. Where code and texts differ

One run expects a violation and shows it with a trace:

- `ledger_drift`: a credit that lands between the read and the landing of
  `applyPendingBalance` leaves the decryptable balance below the available one; the
  owner's spends are then refused, and a later apply does not repair it.

The models show more, without a run of its own:

- `withRetries` (`src/src/internal/send.ts:311`) drops the error of an expired attempt, so
  that proof accounts which that attempt could not close are not in the
  `proofAccountsLeftOpen` of a successful retry (`send.ts:210`). `LeftOpenIsReported` is
  therefore about the last attempt.
- `ErrorCode::TransactionExpired` is described as "Safe to retry"
  (`rust/src/error.rs:43`), `is_retryable` as "running the same call again can succeed as
  is" (`error.rs:198`), and `rust/README.md:73` tells the caller: "the blockhash expired: run
  it again". But `is_expiry` (`rust/src/send.rs:202-207`) also accepts "unable to confirm
  transaction", which does not say that the transaction cannot land, and `Sender::send`
  (44-61) sends the same instructions again. In `RustFlow` a withdraw is sent, taken for
  expired and sent again; the first one lands, the second fails, and the caller is told
  `TRANSACTION_FAILED` although the money moved; or both expire, the caller is told
  `TRANSACTION_EXPIRED`, and one lands later. `WrongExpiry` is this case: `KeepsPromise`
  without that disjunct is violated by these traces, and `PromiseIsKeptToTheLetter` shows
  that nothing else is. In `ConfidentialLedger` a deposit of a Rust owner may land twice,
  even when the call returns "ok", and so may an apply: read at counter 1, landed, one
  more credit, landed again at counter 1. Then the expected counter is the actual one, and
  the decryptable balance is still short of the credit; `AgreesUnlessRaced` counts it as
  overtaken (`TouchedBy`), and `Unsure` has the answers that leave it open what landed.
- `listConfidentialActivity` cuts `since` and `until` to whole seconds
  (`src/auditorReport.ts:247-248`): with fractions of a second it also lists what happened in
  the second of `since` before it, and leaves out what happened in the second of `until`
  before it, where the comments say "at or after this time" and "before this time"
  (`auditorReport.ts:69-72`).
- An account that was created and holds no proof cannot be closed and makes its whole
  batch of closes fail (`send.ts:281`), so that the cleanup leaves verified accounts open
  too, although `send.ts:8` says that they "are closed again". The Rust crate keeps such
  accounts apart and closes the others one by one (`ErrorLeavesNoneVerified`).
- `recoverProofAccounts` finds accounts by the authority stored in them
  (`recoverProofAccounts.ts:57`); one that holds no proof stores none, is reported as left
  open, and is never found (`errors.ts:56` says recovery closes it later).
  `RecoveryCloses` is therefore about verified accounts.
- Playground, step 4: "A retry after a failure part-way through must not configure Bob
  twice or send twice" (`app.js:313`). When a confirmation was lost the page cannot know:
  the retry pays again (`PaysAgainOnlyBlind` is what holds), or configures Bob again and
  fails, then and every time after.
- Playground, step 6: when the withdraw landed and only the reads after it fail, the step
  is not done, and every retry ends with "Bob's confidential balance is empty". The steps
  that a retry does not get over once they landed unnoticed are listed in `Fragile`.
- Playground: an answer that `watchFunding` got before step 1 was finished by hand and
  handles afterwards sets `done` back to 1 (`overtaken`). And the seeds of a new visitor
  are saved with the first progress, so that a reload before that starts with another
  wallet.

## 7. Plan

Done: `Payment`, `ProofFlow`, `ConfidentialLedger` with `Holdings`, `RustFlow`,
`SignTogether`, `TransferHook`, `Vault`, `WasmLoader` with `WebApp`, `Playground` and
`AuditorReport`, with proofs of all the safety properties their runs check. Next:

1. Lemmas on the closes that `ProofFlowProofs` and `RustFlowProofs` share.
2. `prepare_withdraw`, and the polling of signatures of the playground.
