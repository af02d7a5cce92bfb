----------------------------- MODULE Playground -----------------------------
(***************************************************************************)
(* The playground: a page that takes a visitor through eight steps, each a *)
(* few calls on the chain.  Its progress is kept in memory and saved in    *)
(* the browser, so that a step that failed half way, or a page that was    *)
(* reloaded, goes on where it stopped.  Beside the steps watchFunding      *)
(* writes the same progress.                                               *)
(*                                                                         *)
(* A call of the SDK or a transaction is one operation here, which the     *)
(* chain applies or not; what happens inside one is the subject of         *)
(* ProofFlow and ConfidentialLedger.  The cents of amounts, the layout and *)
(* the words of the page are left out.                                     *)
(***************************************************************************)
EXTENDS Naturals, Sequences, FiniteSets

CONSTANT MaxFaults      \* bound: how often something goes wrong

ASSUME FaultsAssumption == MaxFaults \in Nat

Last == 8

People == {"you", "bob", "mallory"}
Tokens == {"plain", "rules"}        \* state.mint and state.c.mint
TokenOf(n) == IF n <= 6 THEN "plain" ELSE "rules"

\* In halves of the 100 that are deposited: 1,000 of one token, 100 of the other.
Deposit == 2
Minted(m) == IF m = "plain" THEN 20 ELSE 2

VARIABLES
    storing,        \* localStorage keeps what is saved (not in private mode)
    progress,       \* state: what the page knows to be done
    stored,         \* what localStorage holds: one progress, or none
    page,           \* "loading", "ready", "broken" or "unloading"
    step,           \* the step that runs (busy), 0 for none
    at,             \* the operation of the step that is awaited
    amount,         \* the amount of the running step
    tokens,         \* chain: the two tokens
    funded,         \* chain: the wallet holds enough SOL
    inflight,       \* chain: what was given up on and can still land
    watch,          \* watchFunding: "off", "asleep" or "asking"
    faults,         \* how many faults there were
    blind,          \* history: the operations after which the page did not note what was done
    overtaken       \* history: watchFunding wrote over a later progress

pageVars  == <<progress, page, step, at, amount, watch>>
chainVars == <<tokens, funded, inflight>>
history   == <<faults, blind, overtaken>>
vars      == <<storing, stored, pageVars, chainVars, history>>

busy == step # 0

-----------------------------------------------------------------------------
(* The steps.                                                              *)

\* The awaits of each step, in their order.
Fund           == <<"airdrop", "poll">>
CreateMint     == <<"mint", "confYou", "mintTo">>
DepositAndShow == <<"deposit", "apply", "show">>
SendToBob      == <<"balance", "confBob", "pay", "bobApply">>
Decrypt        == <<"show">>
WithdrawAll    == <<"bobBalance", "withdraw", "show">>
TokenWithRules == <<"rent", "mint", "policy", "confYou", "confBob", "confMallory",
                    "mintTo", "deposit", "apply", "show">>
BlockedAndAllowed == <<"balance", "payMallory", "closeProofs", "pay", "bobApply", "show">>

Steps == <<Fund, CreateMint, DepositAndShow, SendToBob, Decrypt, WithdrawAll,
           TokenWithRules, BlockedAndAllowed>>

Operations == UNION {{Steps[n][i] : i \in DOMAIN Steps[n]} : n \in 1..Last}

\* state without the keys; `sent` are the tokens on which state.sent, c.sent are
\* set.  A missing c reads as one at stage 0.
Fresh == [done |-> 0, mint |-> FALSE, bobMint |-> FALSE, sent |-> {}, stage |-> 0,
          refused |-> FALSE, cleaned |-> FALSE, applied |-> FALSE]

\* The operations of step 7 are its rent check and then one for each stage.
StageOf(i) == i - 1

\* Steps 4 and 8: the payment was sent.
SentBefore(n, i, p) == n \in {4, 8} /\ Steps[n][i] \in {"balance", "pay"} /\ TokenOf(n) \in p.sent

\* Step 7: the stage was reached.
StageBefore(n, i, p) == n = 7 /\ i \in 2..9 /\ p.stage >= StageOf(i)

\* What else is remembered.
DoneBefore(n, i, p) ==
    LET op == Steps[n][i] IN
    \/ n = 4 /\ op = "confBob" /\ p.bobMint
    \/ n = 7 /\ op = "rent" /\ p.stage > 0
    \/ n = 8 /\ op = "payMallory" /\ p.refused
    \/ n = 8 /\ op = "closeProofs" /\ p.cleaned
    \/ n = 8 /\ op = "bobApply" /\ p.applied

\* Variant: state.sent is not looked at.
PaysAnyway(n, i, p) == StageBefore(n, i, p) \/ DoneBefore(n, i, p)

\* Variant: c.stage < 1 for c.stage < 2.
SkipsPolicy(n, i, p) ==
    \/ SentBefore(n, i, p) \/ StageBefore(n, i, p) \/ DoneBefore(n, i, p)
    \/ n = 7 /\ i = 3 /\ p.stage >= 1

\* What a step leaves out because it was done before.
Skips(n, i, p) == SentBefore(n, i, p) \/ StageBefore(n, i, p) \/ DoneBefore(n, i, p)

\* The first operation of step n after i that is not skipped, or one past the end.
NextAt(n, i, p) ==
    LET due == {j \in i+1..Len(Steps[n]) : ~Skips(n, j, p)} \cup {Len(Steps[n]) + 1}
    IN  CHOOSE j \in due : \A k \in due : j <= k

\* What the page writes down when operation i of step n is done.
Noted(n, i, p) ==
    LET op == Steps[n][i] IN
    CASE n = 2 /\ op = "mint"        -> [p EXCEPT !.mint = TRUE, !.bobMint = FALSE]
      [] n = 4 /\ op = "confBob"     -> [p EXCEPT !.bobMint = TRUE]
      [] n \in {4, 8} /\ op = "pay"  -> [p EXCEPT !.sent = @ \cup {TokenOf(n)}]
      [] n = 7 /\ i \in 2..9         -> [p EXCEPT !.stage = StageOf(i)]
      [] n = 8 /\ op = "payMallory"  -> [p EXCEPT !.refused = TRUE]
      [] n = 8 /\ op = "closeProofs" -> [p EXCEPT !.cleaned = TRUE]
      [] n = 8 /\ op = "bobApply"    -> [p EXCEPT !.applied = TRUE]
      [] OTHER                       -> p

\* save(): localStorage refuses in private mode.
Save(p) == stored' = IF storing THEN {p} ELSE {}

-----------------------------------------------------------------------------
(* The chain.                                                              *)

NoMoney == [public |-> 0, pending |-> 0, available |-> 0, shown |-> 0]

\* A token: whether its policy is set, whose accounts are configured, the accounts
\* of you and Bob, and how often Bob and Mallory were paid.  `shown` is the
\* decryptable copy of the available balance.
NewToken == [policy |-> FALSE, conf |-> {}, account |-> [w \in {"you", "bob"} |-> NoMoney],
             bobPaid |-> 0, malloryPaid |-> FALSE]

WhoOf(op) == IF op \in {"bobApply", "withdraw", "bobBalance"} THEN "bob" ELSE "you"

Configures(op) == CASE op = "confYou" -> "you" [] op = "confBob" -> "bob" [] op = "confMallory" -> "mallory"

\* The transaction of the awaited operation, made from what is on chain now.
Call ==
    LET op == Steps[step][at]
        m  == TokenOf(step)
        a  == tokens[m].account[WhoOf(op)]
        x  == IF op = "withdraw" THEN a.shown ELSE amount
    IN  [op |-> op, token |-> m, amount |-> x, from |-> a.available,
         shown |-> IF op \in {"apply", "bobApply"} THEN a.shown + a.pending
                   ELSE IF x <= a.shown THEN a.shown - x ELSE 0,
         proved |-> a.shown = a.available /\ x <= a.shown]

\* What the SDK and the chain accept of it.
Accepted(c) ==
    LET t == tokens[c.token]
        a == t.account[WhoOf(c.op)]
    IN  /\ funded
        /\ CASE c.op = "policy" -> ~t.policy
             [] c.op \in {"confYou", "confBob", "confMallory"} -> Configures(c.op) \notin t.conf
             [] c.op = "mintTo" -> "you" \in t.conf
             [] c.op = "deposit" -> "you" \in t.conf /\ a.public >= Deposit
             [] c.op \in {"apply", "bobApply"} -> WhoOf(c.op) \in t.conf
             [] c.op = "pay" -> "bob" \in t.conf /\ c.proved /\ a.available = c.from
             [] c.op = "payMallory" -> /\ "mallory" \in t.conf /\ c.proved /\ a.available = c.from
                                       /\ ~t.policy
             [] c.op = "withdraw" -> c.proved /\ a.available = c.from
             [] OTHER -> TRUE

\* Sentinel is why the payment is refused.
RefusedBySentinel(c) ==
    /\ c.op = "payMallory" /\ funded /\ tokens[c.token].policy /\ c.proved
    /\ "mallory" \in tokens[c.token].conf

\* The token after it.
After(c) ==
    LET t == tokens[c.token]
        who == WhoOf(c.op)
        a == t.account[who]
    IN  CASE c.op = "mint" -> NewToken
          [] c.op = "policy" -> [t EXCEPT !.policy = TRUE]
          [] c.op \in {"confYou", "confBob", "confMallory"} -> [t EXCEPT !.conf = @ \cup {Configures(c.op)}]
          [] c.op = "mintTo" -> [t EXCEPT !.account["you"].public = @ + Minted(c.token)]
          [] c.op = "deposit" -> [t EXCEPT !.account["you"].public = @ - Deposit,
                                           !.account["you"].pending = @ + Deposit]
          [] c.op \in {"apply", "bobApply"} ->
                [t EXCEPT !.account[who] = [a EXCEPT !.available = @ + a.pending, !.pending = 0,
                                                     !.shown = c.shown]]
          [] c.op = "pay" -> [t EXCEPT !.account["you"].available = @ - c.amount,
                                       !.account["you"].shown = c.shown,
                                       !.account["bob"].pending = @ + c.amount,
                                       !.bobPaid = @ + 1]
          [] c.op = "payMallory" -> [t EXCEPT !.account["you"].available = @ - c.amount,
                                              !.account["you"].shown = c.shown,
                                              !.malloryPaid = TRUE]
          [] c.op = "withdraw" -> [t EXCEPT !.account["bob"].available = @ - c.amount,
                                            !.account["bob"].shown = c.shown,
                                            !.account["bob"].public = @ + c.amount]
          [] OTHER -> t

\* A new mint has a new address: what is in flight for the old one is of no account.
Land(c) ==
    /\ tokens' = [tokens EXCEPT ![c.token] = After(c)]
    /\ inflight' = IF c.op = "mint" THEN {d \in inflight : d.token # c.token} ELSE inflight

\* An unknown mint is of no use to anybody, nor is what only closes proof accounts.
Matters(op) == op \notin {"airdrop", "poll", "mint", "balance", "bobBalance", "rent", "show", "closeProofs"}

-----------------------------------------------------------------------------
(* The page.                                                               *)

Init ==
    /\ storing \in BOOLEAN
    /\ progress = Fresh /\ stored = {}
    /\ page = "loading" /\ step = 0 /\ at = 0 /\ amount = 0 /\ watch = "off"
    /\ tokens = [m \in Tokens |-> NewToken]
    /\ funded = FALSE /\ inflight = {}
    /\ faults = 0 /\ blind = {} /\ overtaken = FALSE

Fault == faults < MaxFaults /\ faults' = faults + 1

\* main(): the module has loaded, the keys are made.  Buttons pressed before fail at
\* their first use of the keys, with nothing done.
PageReady ==
    /\ page = "loading" /\ page' = "ready"
    /\ watch' = IF progress.done < 1 THEN "asking" ELSE "off"
    /\ UNCHANGED <<storing, stored, progress, step, at, amount, chainVars, history>>

PageBreaks ==
    /\ page = "loading" /\ page' = "broken" /\ Fault
    /\ UNCHANGED <<storing, stored, progress, step, at, amount, watch, chainVars, blind, overtaken>>

\* run(n), up to its first await.  Only the button of the step after `done` works.
Press ==
    /\ page = "ready" /\ ~busy /\ progress.done < Last
    /\ step' = progress.done + 1 /\ at' = NextAt(progress.done + 1, 0, progress)
    /\ UNCHANGED <<storing, stored, progress, page, amount, watch, chainVars, history>>

\* run: the step threw.
GiveUp == step' = 0 /\ at' = 0 /\ amount' = 0 /\ UNCHANGED <<progress, stored>>

\* run: the step is done, with p noted.
Finish(p) ==
    LET q == [p EXCEPT !.done = IF @ > step THEN @ ELSE step]
    IN  progress' = q /\ Save(q) /\ step' = 0 /\ at' = 0 /\ amount' = 0

\* Variant: save() only when the step is done.
SavesAtTheEnd(x) ==
    LET p == Noted(step, at, progress)
        j == NextAt(step, at, p)
    IN  IF j \in DOMAIN Steps[step]
        THEN progress' = p /\ at' = j /\ amount' = x /\ UNCHANGED <<step, stored>>
        ELSE Finish(p)

\* The awaited operation is done: note it, save, and go on to the next one with
\* amount x, or finish the step.
Proceed(x) ==
    LET p == Noted(step, at, progress)
        j == NextAt(step, at, p)
    IN  IF j \in DOMAIN Steps[step]
        THEN /\ progress' = p /\ at' = j /\ amount' = x /\ UNCHANGED step
             /\ IF p = progress THEN UNCHANGED stored ELSE Save(p)
        ELSE Finish(p)

Op == Steps[step][at]
Reads == {"poll", "rent", "balance", "bobBalance", "show"}

\* A read of the step is answered with enough to go on.
ReadAnswered ==
    /\ busy /\ Op \in Reads
    /\ Op \in {"poll", "rent"} => funded
    /\ Op = "bobBalance" => tokens[TokenOf(step)].account["bob"].shown > 0
    /\ IF Op = "balance" THEN \E x \in 1..tokens[TokenOf(step)].account["you"].shown : Proceed(x)
                         ELSE Proceed(amount)
    /\ UNCHANGED <<storing, page, watch, chainVars, history>>

\* The faucet takes the request; the SOL may come later, or not at all.
AirdropTaken ==
    /\ busy /\ Op = "airdrop" /\ funded' \in {funded, TRUE}
    /\ Proceed(amount)
    /\ UNCHANGED <<storing, page, watch, tokens, inflight, history>>

\* A call lands and the page hears of it.  A payment to Mallory that goes through is
\* an error.
CallLands ==
    /\ busy /\ Op \notin Reads \cup {"airdrop"} /\ Accepted(Call)
    /\ Land(Call)
    /\ IF Op = "payMallory" THEN GiveUp ELSE Proceed(amount)
    /\ UNCHANGED <<storing, page, watch, funded, history>>

\* What the chain holds does not allow the operation.
CannotGoOn ==
    \/ Op \in {"poll", "rent"} /\ ~funded
    \/ Op \in {"balance", "bobBalance"} /\ tokens[TokenOf(step)].account[WhoOf(Op)].shown = 0
    \/ Op \notin Reads \cup {"airdrop"} /\ ~Accepted(Call)

\* Variant: Sentinel's refusal is an error like any other.
RefusalThrown ==
    /\ busy /\ CannotGoOn
    /\ IF Op = "closeProofs" THEN Proceed(amount) ELSE GiveUp
    /\ UNCHANGED <<storing, page, watch, chainVars, history>>

\* Sentinel's refusal is what step 8 waits for, and closing the proof accounts may fail.
OpRefused ==
    /\ busy /\ CannotGoOn
    /\ IF RefusedBySentinel(Call) \/ Op = "closeProofs" THEN Proceed(amount) ELSE GiveUp
    /\ UNCHANGED <<storing, page, watch, chainVars, history>>

Blinded == blind \cup {<<step, Op>>}

\* Anything else that throws, with nothing done on chain: no answer, an expired
\* transaction, the faucet's limit, an amount above the balance.  The reads a step ends
\* with come before it counts as done.
OpFails ==
    /\ busy /\ Fault
    /\ IF Op = "closeProofs" THEN Proceed(amount) ELSE GiveUp
    /\ blind' = IF Op = "show" THEN Blinded ELSE blind
    /\ UNCHANGED <<storing, page, watch, chainVars, overtaken>>

\* The page does not learn what became of the awaited call: it landed, or it can
\* land later.
GoesBlind ==
    /\ Matters(Op) /\ Accepted(Call)
    /\ \/ Land(Call)
       \/ inflight' = inflight \cup {Call} /\ UNCHANGED tokens
    /\ UNCHANGED funded

\* The confirmation of a call is lost.
OpLost ==
    /\ busy /\ Fault /\ GoesBlind /\ GiveUp
    /\ blind' = Blinded
    /\ UNCHANGED <<storing, page, watch, overtaken>>

\* A page starts with what was saved; with nothing saved it makes new keys, and what
\* the old ones held is out of reach.
Starts(keepsWallet) ==
    /\ page' = "loading" /\ step' = 0 /\ at' = 0 /\ amount' = 0 /\ watch' = "off"
    /\ progress' = IF stored = {} THEN Fresh ELSE CHOOSE p \in stored : TRUE
    /\ UNCHANGED <<storing, stored>>
    /\ IF keepsWallet THEN TRUE
       ELSE tokens' = [m \in Tokens |-> NewToken] /\ inflight' = {}

\* The visitor reloads the page, or the browser does, whatever the page is awaiting.
Reload ==
    /\ page = "ready" /\ Fault
    /\ Starts(stored # {})
    /\ IF stored = {} THEN funded' = FALSE
       ELSE (busy /\ GoesBlind) \/ UNCHANGED chainVars
    /\ blind' = IF busy /\ stored # {} /\ (Op = "show" \/ Matters(Op)) THEN Blinded ELSE blind
    /\ UNCHANGED overtaken

\* The banner of a page that did not load asks for this.
ReloadBroken ==
    /\ page = "broken"
    /\ Starts(stored # {})
    /\ IF stored = {} THEN funded' = FALSE ELSE UNCHANGED chainVars
    /\ UNCHANGED history

\* resetSimulation, with new keys for all but you, and restart, with new keys: the
\* old script goes on until the page is unloaded.
Reset(how) ==
    /\ page \in {"ready", "broken"} /\ ~busy /\ Fault
    /\ page' = how
    /\ progress' = Fresh /\ Save(Fresh)
    /\ UNCHANGED <<storing, step, at, amount, watch, chainVars, blind, overtaken>>

Unload ==
    /\ page \in {"resetting", "restarting"}
    /\ Starts(FALSE)
    /\ funded' = (funded /\ page = "resetting" /\ stored # {})
    /\ UNCHANGED history

-----------------------------------------------------------------------------
(* watchFunding and the world outside the page.                            *)

\* The balance that was asked for arrives; it may have been read a while ago.  Only
\* `busy` is looked at, not the progress made since.
WatchAnswered ==
    /\ watch = "asking" /\ page # "loading"
    /\ \E enough \in {FALSE, funded} :
          IF enough /\ ~busy
          THEN /\ progress' = [progress EXCEPT !.done = 1] /\ Save(progress')
               /\ watch' = "off"
               /\ overtaken' = (overtaken \/ progress.done > 1)
          ELSE watch' = "asleep" /\ UNCHANGED <<progress, stored, overtaken>>
    /\ UNCHANGED <<storing, page, step, at, amount, chainVars, faults, blind>>

WatchWakes ==
    /\ watch = "asleep"
    /\ watch' = IF progress.done < 1 THEN "asking" ELSE "off"
    /\ UNCHANGED <<storing, stored, progress, page, step, at, amount, chainVars, history>>

\* SOL arrives from the faucet's site or from a wallet.
TopUp ==
    /\ ~funded /\ page = "ready" /\ funded' = TRUE
    /\ UNCHANGED <<storing, stored, pageVars, tokens, inflight, history>>

\* A call the page gave up on lands.
LandsLate(c) ==
    /\ Accepted(c)
    /\ tokens' = [tokens EXCEPT ![c.token] = After(c)]
    /\ inflight' = inflight \ {c}
    /\ UNCHANGED <<storing, stored, pageVars, funded, history>>

OpAnswered == ReadAnswered \/ AirdropTaken \/ CallLands \/ OpRefused

Next ==
    \/ PageReady \/ PageBreaks \/ Press \/ OpAnswered \/ OpFails \/ OpLost
    \/ Reload \/ ReloadBroken \/ Reset("resetting") \/ Reset("restarting") \/ Unload
    \/ WatchAnswered \/ WatchWakes \/ TopUp
    \/ \E c \in inflight : LandsLate(c)

Spec == Init /\ [][Next]_vars

\* A page loads, or is loaded again; what is awaited is answered; the visitor goes on
\* and finds SOL somewhere.
FairSpec ==
    /\ Spec
    /\ WF_vars(PageReady) /\ WF_vars(ReloadBroken) /\ WF_vars(Unload)
    /\ WF_vars(Press) /\ WF_vars(OpAnswered) /\ WF_vars(TopUp)

-----------------------------------------------------------------------------
(* Properties.                                                             *)

Money == [public : Nat, pending : Nat, available : Nat, shown : Nat]
Token == [policy : BOOLEAN, conf : SUBSET People, account : [{"you", "bob"} -> Money],
          bobPaid : Nat, malloryPaid : BOOLEAN]
Progress == [done : 0..Last, mint : BOOLEAN, bobMint : BOOLEAN, sent : SUBSET Tokens,
             stage : 0..8, refused : BOOLEAN, cleaned : BOOLEAN, applied : BOOLEAN]

\* Types of the variables.
TypeOK ==
    /\ storing \in BOOLEAN /\ progress \in Progress
    /\ stored \subseteq Progress /\ (storing \/ stored = {})
    /\ page \in {"loading", "ready", "broken", "resetting", "restarting"}
    /\ step \in 0..Last /\ at \in Nat /\ (busy => at \in DOMAIN Steps[step])
    /\ amount \in Nat
    /\ tokens \in [Tokens -> Token] /\ funded \in BOOLEAN
    /\ \A c \in inflight : c.op \in Operations /\ c.token \in Tokens
    /\ watch \in {"off", "asleep", "asking"}
    /\ faults \in 0..MaxFaults /\ overtaken \in BOOLEAN
    /\ blind \subseteq (1..Last) \X Operations

\* What the chain must hold for progress p to be true.
OnChain(p) ==
    LET plain == tokens["plain"]
        rules == tokens["rules"]
    IN  /\ p.bobMint => "bob" \in plain.conf
        /\ p.done >= 2 => "you" \in plain.conf
        /\ p.done >= 3 => plain.account["you"].available + plain.bobPaid >= 1
        /\ "plain" \in p.sent => plain.bobPaid >= 1
        /\ p.done >= 4 => "plain" \in p.sent /\ plain.account["bob"].available
                                                + plain.account["bob"].public >= 1
        /\ p.done >= 6 => plain.account["bob"].public >= 1
        /\ p.stage >= 2 => rules.policy
        /\ p.stage >= 5 => rules.conf = People
        /\ p.refused => p.stage = 8
        /\ "rules" \in p.sent => rules.bobPaid >= 1 /\ p.refused
        /\ p.done = Last => p.applied /\ rules.account["bob"].available >= 1

\* STEPS, run and save: what the page counts as done is done on chain, also after calls that
\* failed, were lost or landed late, unless watchFunding wrote over the progress; and once
\* anything was saved, a reload finds all that was done, however far the running step is.
\* (TypeOK is a conjunct.)
SavedIsOnChain ==
    /\ TypeOK
    /\ stored \subseteq {progress}
    /\ ~overtaken => OnChain(progress)

\* Step 8, policy of step 7: Mallory is on the blocklist before anybody can pay her, and
\* no retry, reload or late landing gets a payment to her through.
MalloryNeverPaid == \A m \in Tokens : ~tokens[m].malloryPaid

\* "A retry after a failure part-way through must not [...] send twice": Bob is paid twice on
\* a token only if the page did not learn what became of a payment.
PaysAgainOnlyBlind ==
    \A m \in Tokens : tokens[m].bobPaid > 1 =>
        \E n \in {4, 8} : TokenOf(n) = m /\ <<n, "pay">> \in blind

\* What a retry does not get over when the page has not noted it: an account that is
\* already configured, a policy already set, money already moved, and the apply of a
\* deposit that was made again.  None of these can be left out.
Fragile ==
    {<<3, "apply">>, <<4, "confBob">>, <<4, "pay">>, <<6, "withdraw">>, <<6, "show">>,
     <<7, "policy">>, <<7, "confYou">>, <<7, "confBob">>, <<7, "confMallory">>,
     <<7, "deposit">>, <<8, "pay">>}

\* The visitor gets to the end, whatever failed and whenever the page was reloaded, unless
\* an answer was lost that a retry does not get over or watchFunding wrote over the progress.
Completes == <>(progress.done = Last \/ overtaken \/ blind \cap Fragile # {})
=============================================================================
